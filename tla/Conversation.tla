---------------------------- MODULE Conversation ----------------------------
(***************************************************************************)
(* One conversation: the requests of POST /v1/query that carry the same    *)
(* tenant and session_id (app/api/query.py) over the session memory in     *)
(* Redis (app/generate/session.py), a list of turns and a summary of the   *)
(* turns that were rolled off it.                                          *)
(*                                                                         *)
(* Every Redis command, and every MULTI/EXEC pipeline, is atomic; nothing  *)
(* holds the session between two of them.  An exchange is the pair of      *)
(* messages of its request; the summary is the set of the messages that    *)
(* were folded into it.  `history`, `forgone` and `overlapped` are history *)
(* variables.                                                              *)
(***************************************************************************)
EXTENDS Integers, Sequences, FiniteSets

CONSTANTS
    Request,        \* query requests of the conversation
    MaxTurns,       \* settings.session_max_turns
    Waits,          \* whether the client reads the last token before it asks again
    Faulty          \* whether Redis, retrieval and the LLM may fail

ASSUME ConversationAssumption ==
    /\ MaxTurns \in Nat \ {0}
    /\ Waits \in BOOLEAN /\ Faulty \in BOOLEAN

VARIABLES
    turns,      \* sess:...:turns
    summary,    \* sess:...:summary, {} when there is none
    req,        \* the command each request is at
    ctx,        \* the SessionContext it loaded
    fold,       \* the local variables of its append_turn
    lagging,    \* the summary expires before the turns, see Trim
    history,    \* requests appended since the session last expired
    forgone,    \* messages that expired, or whose summarisation failed
    overlapped  \* an append has begun while another one was under way

vars == <<turns, summary, req, ctx, fold, lagging, history, forgone, overlapped>>

Msg == Request \X {"user", "assistant"}
Exchange(r) == <<<<r, "user">>, <<r, "assistant">>>>
Elements(s) == {s[i] : i \in 1..Len(s)}

Loading == {"first", "second"}
Appending == {"count", "overflow", "prior", "summarize", "trim"}
Over == {"done", "unsaved", "error", "abandoned"}
ReqPC == {"idle", "retrieve", "generate", "push"} \union Loading \union Appending \union Over

NoContext == [loaded |-> FALSE, turns |-> {}, summary |-> {}, known |-> {}]
NoFold == [over |-> 0, old |-> {}, prior |-> {}, new |-> {}, failed |-> FALSE]

TypeOK ==
    /\ turns \in Seq(Msg)
    /\ summary \subseteq Msg
    /\ req \in [Request -> ReqPC]
    /\ ctx \in [Request -> [loaded : BOOLEAN, turns : SUBSET Msg,
                            summary : SUBSET Msg, known : SUBSET Request]]
    /\ fold \in [Request -> [over : Int, old : SUBSET Msg, prior : SUBSET Msg,
                             new : SUBSET Msg, failed : BOOLEAN]]
    /\ lagging \in BOOLEAN
    /\ history \in Seq(Request)
    /\ forgone \subseteq Msg
    /\ overlapped \in BOOLEAN

Init ==
    /\ turns = <<>> /\ summary = {}
    /\ req = [r \in Request |-> "idle"]
    /\ ctx = [r \in Request |-> NoContext]
    /\ fold = [r \in Request |-> NoFold]
    /\ lagging = FALSE
    /\ history = <<>> /\ forgone = {} /\ overlapped = FALSE

Goes(r, from, to) == req[r] = from /\ req' = [req EXCEPT ![r] = to]
memory == <<turns, summary, history, forgone, overlapped>>
session == <<memory, lagging>>

-----------------------------------------------------------------------------
(* A client that waits asks again at the last token, which it gets before the
   exchange is appended; any other asks whenever it likes. *)
Answering == {"retrieve", "generate"} \union Loading

Ask(r) ==
    /\ Waits => \A q \in Request : req[q] \notin Answering
    /\ Goes(r, "idle", "retrieve")
    /\ UNCHANGED <<session, ctx, fold>>

Retrieve(r) ==
    /\ Goes(r, "retrieve", "first")
    /\ UNCHANGED <<session, ctx, fold>>

(* The two keys load() reads, in its order. *)
MutantKeys == [first |-> "summary", second |-> "turns"]
Keys == [first |-> "turns", second |-> "summary"]

ReadKey(r, stage) ==
    IF Keys[stage] = "turns" THEN [ctx[r] EXCEPT !.turns = Elements(turns)]
                             ELSE [ctx[r] EXCEPT !.summary = summary]

LoadFirst(r) ==
    /\ Goes(r, "first", "second")
    /\ ctx' = [ctx EXCEPT ![r] = [ReadKey(r, "first") EXCEPT !.known = Elements(history)]]
    /\ UNCHANGED <<session, fold>>

(* It then sets the TTL of both keys. *)
LoadSecond(r) ==
    /\ Goes(r, "second", "generate")
    /\ ctx' = [ctx EXCEPT ![r] = [ReadKey(r, "second") EXCEPT !.loaded = TRUE]]
    /\ lagging' = FALSE
    /\ UNCHANGED <<memory, fold>>

(* The failure is logged and the question answered without a context. *)
LoadFails(r) ==
    /\ Faulty
    /\ req[r] \in Loading
    /\ req' = [req EXCEPT ![r] = "generate"]
    /\ ctx' = [ctx EXCEPT ![r] = NoContext]
    /\ UNCHANGED <<session, fold>>

Generate(r) ==
    /\ Goes(r, "generate", "push")
    /\ UNCHANGED <<session, ctx, fold>>

RetrieveOrGenerateFails(r) ==
    /\ Faulty
    /\ req[r] \in {"retrieve", "generate"}
    /\ req' = [req EXCEPT ![r] = "error"]
    /\ UNCHANGED <<session, ctx, fold>>

(* RPUSH of the exchange, with the TTL of both keys. *)
Push(r) ==
    /\ Goes(r, "push", "count")
    /\ turns' = turns \o Exchange(r)
    /\ history' = Append(history, r)
    /\ overlapped' = (overlapped \/ \E q \in Request : req[q] \in Appending)
    /\ lagging' = FALSE
    /\ UNCHANGED <<summary, forgone, ctx, fold>>

MutantOverflow == Len(turns) - MaxTurns
MutantOverBudget == Len(turns) - (MaxTurns + 1) * 2
Overflow == Len(turns) - MaxTurns * 2

AfterCount == IF Overflow <= 0 THEN "done" ELSE "overflow"

Count(r) ==
    /\ Goes(r, "count", AfterCount)
    /\ fold' = [fold EXCEPT ![r].over = Overflow]
    /\ UNCHANGED <<session, ctx>>

(* LRANGE 0 (over - 1): the end of the range is inclusive. *)
Last(over) == over - 1

OldestTurns(over) == {turns[i] : i \in {j \in 1..Len(turns) : j - 1 <= Last(over)}}

ReadOverflow(r) ==
    /\ Goes(r, "overflow", "prior")
    /\ fold' = [fold EXCEPT ![r].old = OldestTurns(fold[r].over)]
    /\ UNCHANGED <<session, ctx>>

MutantPriorSummary == {}
PriorSummary == summary

ReadPrior(r) ==
    /\ Goes(r, "prior", "summarize")
    /\ fold' = [fold EXCEPT ![r].prior = PriorSummary]
    /\ UNCHANGED <<session, ctx>>

Summarize(r) ==
    /\ Goes(r, "summarize", "trim")
    /\ fold' = [fold EXCEPT ![r].new = fold[r].prior \union fold[r].old]
    /\ UNCHANGED <<session, ctx>>

(* The LLM raises, and the prior summary is kept, or answers nothing; with no
   turn to fold it is not asked. *)
SummarizeFails(r) ==
    /\ Faulty
    /\ Goes(r, "summarize", "trim")
    /\ fold[r].old # {}
    /\ \E new \in {fold[r].prior, {}} :
          fold' = [fold EXCEPT ![r].new = new, ![r].failed = TRUE]
    /\ UNCHANGED <<session, ctx>>

(* LTRIM, with the TTL of the turns; that of the summary is only set with a
   new summary. *)
Trim(r) ==
    /\ Goes(r, "trim", "done")
    /\ turns' = SubSeq(turns, fold[r].over + 1, Len(turns))
    /\ summary' = IF fold[r].new = {} THEN summary ELSE fold[r].new
    /\ forgone' = IF fold[r].failed THEN forgone \union fold[r].old ELSE forgone
    /\ lagging' = (fold[r].new = {} /\ summary # {})
    /\ UNCHANGED <<history, overlapped, ctx, fold>>

(* A Redis error is logged; the client gets its `done` event all the same. *)
AppendFails(r) ==
    /\ Faulty
    /\ req[r] \in Appending \union {"push"}
    /\ req' = [req EXCEPT ![r] = "unsaved"]
    /\ UNCHANGED <<session, ctx, fold>>

(* The client disconnects and the generator is cancelled, or the API dies. *)
Abandon(r) ==
    /\ Faulty
    /\ req[r] \notin Over \union {"idle"}
    /\ req' = [req EXCEPT ![r] = "abandoned"]
    /\ UNCHANGED <<session, ctx, fold>>

(* The keys expire together, or the summary alone.  No append takes as long as
   the TTL that its push has set. *)
Expire ==
    /\ \A r \in Request : req[r] \notin Appending
    /\ history # <<>>
    /\ turns' = <<>> /\ summary' = {} /\ history' = <<>>
    /\ forgone' = forgone \union Elements(turns) \union summary
    /\ lagging' = FALSE
    /\ UNCHANGED <<req, ctx, fold, overlapped>>

ExpireSummary ==
    /\ \A r \in Request : req[r] \notin Appending
    /\ lagging
    /\ summary' = {}
    /\ forgone' = forgone \union summary
    /\ lagging' = FALSE
    /\ UNCHANGED <<turns, history, req, ctx, fold, overlapped>>

RequestStep(r) ==
    \/ Ask(r) \/ Retrieve(r) \/ LoadFirst(r) \/ LoadSecond(r) \/ LoadFails(r)
    \/ Generate(r) \/ RetrieveOrGenerateFails(r)
    \/ Push(r) \/ Count(r) \/ ReadOverflow(r) \/ ReadPrior(r)
    \/ Summarize(r) \/ SummarizeFails(r) \/ Trim(r) \/ AppendFails(r)
    \/ Abandon(r)

(* Every request is over. *)
Rest == (\A r \in Request : req[r] \in Over) /\ UNCHANGED vars

Next == (\E r \in Request : RequestStep(r)) \/ Expire \/ ExpireSummary \/ Rest

Spec == Init /\ [][Next]_vars

-----------------------------------------------------------------------------
(* Whatever overlaps, the window holds whole exchanges, the latest ones, in
   the order they were appended: trims take pairs, and from the head only. *)
Suffix(s, n) == SubSeq(s, Len(s) - n + 1, Len(s))
WindowIsSuffix ==
    \E n \in 0..Len(history) :
        /\ Len(turns) = 2 * n
        /\ \A i \in 1..n :
              SubSeq(turns, 2 * i - 1, 2 * i) = Exchange(Suffix(history, n)[i])

(* When the last exchange to be appended has been dealt with, the window is
   within its budget, whatever the others did or failed to do: an append that
   died before its trim is made up for by the next one. *)
WindowBounded ==
    history # <<>> /\ req[history[Len(history)]] = "done" => Len(turns) <= MaxTurns * 2

(* No exchange that was appended is in neither the window nor the summary,
   unless it expired or the summariser failed: session.py:13-16 for every
   client, in particular for one that waits for the last token ... *)
NothingForgotten ==
    \A i \in 1..Len(history) :
        Elements(Exchange(history[i])) \subseteq Elements(turns) \union summary \union forgone

(* ... which the code keeps as long as appends come one after the other.  Of
   an exchange whose append failed, which the client is not told, it says
   nothing. *)
ForgetsOnlyInOverlap == ~overlapped => NothingForgotten

(* The context of a question has every exchange that was appended before it was
   loaded, though load() reads two keys and an append may roll turns over in
   between - again as long as appends come one after the other. *)
ContextComplete ==
    ~overlapped => \A r \in Request : req[r] = "generate" /\ ctx[r].loaded =>
        \A q \in ctx[r].known :
            Elements(Exchange(q)) \subseteq ctx[r].turns \union ctx[r].summary \union forgone
=============================================================================
