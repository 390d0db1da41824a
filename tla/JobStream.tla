----------------------------- MODULE JobStream ------------------------------
(***************************************************************************)
(* GET /v1/jobs/{id}/stream (app/api/jobs.py): server-sent events about a  *)
(* job while uploads, workers and deletions of Lifecycle go on.  A stream  *)
(* reads the job row, sends what it read, sleeps and reads again, in a     *)
(* transaction of its own every time.  An event is <<kind, payload>>, the  *)
(* payload being the row as it was read.  The branch for a row that has    *)
(* vanished is left out: nothing in the system deletes a job.              *)
(***************************************************************************)
EXTENDS Lifecycle

CONSTANTS
    Stream,     \* stream requests
    MaxPolls    \* JOB_STREAM_MAX_SECONDS / JOB_STREAM_POLL_SECONDS

ASSUME StreamAssumption == MaxPolls \in Nat

VARIABLES stream    \* state of each stream request

allVars == <<vars, stream>>

StreamInit ==
    stream = [s \in Stream |->
                 [pc |-> "idle", job |-> NoRequest, current |-> NoJobRow,
                  last |-> NoJobRow, elapsed |-> 0, events |-> << >>]]

In(s, pc) == stream[s].pc = pc
Settled(s) == stream[s].current.status \in Terminal

-----------------------------------------------------------------------------
(* The first read, before the response starts; 404 without a row. *)
Open(s, r) ==
    /\ In(s, "idle")
    /\ jobs[r].status # "none"
    /\ stream' = [stream EXCEPT ![s].pc = "emit", ![s].job = r, ![s].current = jobs[r]]

(* What one round of the loop sends: the row when it is news, and `done` when
   the job is over or the stream has lasted long enough. *)
News(s) ==
    IF stream[s].current = stream[s].last THEN << >>
                                          ELSE <<<<"progress", stream[s].current>>>>

Lasted(s) == stream[s].elapsed >= MaxPolls
Farewell(s) ==
    IF Settled(s) \/ Lasted(s) THEN <<<<"done", stream[s].current>>>> ELSE << >>

Emit(s) ==
    /\ In(s, "emit")
    /\ stream' = [stream EXCEPT ![s].events = @ \o News(s) \o Farewell(s),
                                ![s].last = stream[s].current,
                                ![s].pc = IF Farewell(s) = << >> THEN "sleep"
                                                                 ELSE "closed"]

MutantTick(s) == stream[s].elapsed
Tick(s) == stream[s].elapsed + 1

(* rollback() ends the read transaction, so that the SELECT sees new commits. *)
MutantReread(s) == stream[s].current
Reread(s) == jobs[stream[s].job]

Poll(s) ==
    /\ In(s, "sleep")
    /\ stream' = [stream EXCEPT ![s].pc = "emit", ![s].elapsed = Tick(s),
                                ![s].current = Reread(s)]

(* The client goes away, or the SELECT raises: the stream just stops. *)
Break(s) ==
    /\ stream[s].pc \in {"emit", "sleep"}
    /\ stream' = [stream EXCEPT ![s].pc = "broken"]

StreamStep(s) == Emit(s) \/ Poll(s)

StreamNext ==
    \E s \in Stream : (\E r \in Request : Open(s, r)) \/ StreamStep(s) \/ Break(s)

ServiceNext ==
    \/ Next /\ UNCHANGED stream
    \/ StreamNext /\ UNCHANGED vars

ServiceSpec == Init /\ StreamInit /\ [][ServiceNext]_allVars

(* A stream that nobody broke sleeps, reads and sends on its event loop. *)
FairServiceSpec ==
    /\ ServiceSpec
    /\ Fairness
    /\ \A s \in Stream : WF_allVars(StreamStep(s) /\ UNCHANGED vars)

-----------------------------------------------------------------------------
Told(s) == {e[2] : e \in {stream[s].events[i] : i \in 1..Len(stream[s].events)}}
Sole(d) == \A e \in Doc : jobOf[e] = jobOf[d] => e = d

(* Events of the job of a single document, delivered once, go forward: never
   back to an earlier status, never to less progress. *)
Rank == [pending |-> 0, running |-> 1, completed |-> 2, failed |-> 2]
ToldForward ==
    MaxRedelivery = 0 =>
        \A s \in Stream, d \in Doc : jobOf[d] = stream[s].job /\ Sole(d) =>
            LET ev == stream[s].events
            IN  \A i, j \in 1..Len(ev) : i < j =>
                    /\ Rank[ev[i][2].status] <= Rank[ev[j][2].status]
                    /\ ev[i][2].progress <= ev[j][2].progress

(* Who was told `completed` can ask about the document from then on: it is in
   both indexes, or blank, as long as no delete request comes for it.  Not so
   when Postgres may lose the answer to a commit: the worker then overwrites
   `completed` with `failed`. *)
ToldIsTrue ==
    MaxRedelivery = 0 /\ ~May("pg") =>
        \A s \in Stream, d \in Doc :
            /\ jobOf[d] = stream[s].job /\ Sole(d) /\ ~Touched(d)
            /\ \E p \in Told(s) : p.status = "completed"
            => /\ status[d] = "completed"
               /\ keyOf[d] \in Blank \/ Of(points, d) \cap linked # {}

(* A stream ends, also that of a job whose message was lost ... *)
StreamsEnd == \A s \in Stream : In(s, "emit") ~> stream[s].pc \in {"closed", "broken"}

(* ... and one that is open when the job of a single document is over says so
   before it ends: the next read sees what the worker has committed since. *)
SettledIsTold ==
    \A s \in Stream, d \in Doc :
        /\ In(s, "sleep") /\ jobOf[d] = stream[s].job /\ Sole(d)
        /\ jobs[stream[s].job].status \in Terminal
        ~> \/ In(s, "broken")
           \/ \E p \in Told(s) : p.status \in Terminal
=============================================================================
