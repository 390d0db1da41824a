-------------------------- MODULE ConversationProofs --------------------------
(***************************************************************************)
(* The window of a conversation, for any number of requests, however they  *)
(* overlap and fail: it holds the latest exchanges, whole and in order,    *)
(* and comes back within its budget.                                       *)
(***************************************************************************)
EXTENDS Conversation, SequenceTheorems, TLAPS

(* Trimming takes effect on what was counted, so what was counted is whole
   exchanges, and more than none once it is to be trimmed. *)
Folding == Appending \ {"count"}
FoldsPairs ==
    \A r \in Request : \E k \in Int :
        fold[r].over = 2 * k /\ (req[r] \in Folding => k > 0)

(* The window is the last n exchanges of the history, message by message. *)
Holds(n) ==
    /\ n \in 0..Len(history) /\ Len(turns) = 2 * n
    /\ \A i \in 1..n :
          /\ turns[2 * i - 1] = <<history[Len(history) - n + i], "user">>
          /\ turns[2 * i] = <<history[Len(history) - n + i], "assistant">>
Window == \E n \in Nat : Holds(n)

(* Until the last request to append has trimmed, the window is over its budget
   by no more than that request has counted. *)
Budget ==
    history # <<>> =>
        LET r == history[Len(history)]
        IN  /\ req[r] = "done" => Len(turns) <= MaxTurns * 2
            /\ req[r] \in Folding => Len(turns) <= MaxTurns * 2 + fold[r].over

ConvInv == TypeOK /\ FoldsPairs /\ Window /\ Budget

(* What a sequence of messages is made of. *)
LEMMA ElementsOf ==
    ASSUME NEW S, NEW s \in Seq(S) PROVE Elements(s) \subseteq S
BY DEF Elements

(* The tail that LTRIM leaves. *)
LEMMA TailOf ==
    ASSUME NEW S, NEW s \in Seq(S), NEW k \in Nat
    PROVE  LET t == SubSeq(s, k + 1, Len(s))
           IN  /\ t \in Seq(S)
               /\ Len(t) = IF k < Len(s) THEN Len(s) - k ELSE 0
               /\ \A i \in 1..Len(t) : t[i] = s[k + i]
BY SubSeqProperties

(* A sequence of two. *)
LEMMA PairIs ==
    ASSUME NEW S, NEW a \in S, NEW b \in S
    PROVE  /\ <<a, b>> \in Seq(S) /\ Len(<<a, b>>) = 2
           /\ <<a, b>>[1] = a /\ <<a, b>>[2] = b
OBVIOUS

LEMMA PairEqual ==
    ASSUME NEW S, NEW t \in Seq(S), Len(t) = 2 PROVE t = <<t[1], t[2]>>
<1> DEFINE p == <<t[1], t[2]>>
<1>1. t[1] \in S /\ t[2] \in S
  BY ElementOfSeq
<1>2. p \in Seq(S) /\ Len(p) = 2 /\ p[1] = t[1] /\ p[2] = t[2]
  BY <1>1, PairIs
<1> HIDE DEF p
<1>3. \A i \in 1..Len(t) : t[i] = p[i]
  BY <1>2
<1>4. t = p
  BY <1>2, <1>3, SeqEqual
<1> QED
  BY <1>4 DEF p

(* The window in the words of the property. *)
LEMMA WindowIsWindow == TypeOK /\ Window => WindowIsSuffix
<1> SUFFICES ASSUME TypeOK, NEW n \in Nat, Holds(n) PROVE WindowIsSuffix
  BY DEF Window
<1>1. turns \in Seq(Msg) /\ history \in Seq(Request) /\ Len(turns) = 2 * n /\ n \in 0..Len(history)
  BY DEF TypeOK, Holds
<1>2. ASSUME NEW i \in 1..n
      PROVE  SubSeq(turns, 2 * i - 1, 2 * i) = Exchange(Suffix(history, n)[i])
  <2> DEFINE h == history[Len(history) - n + i]
             t == SubSeq(turns, 2 * i - 1, 2 * i)
  <2>1. Suffix(history, n)[i] = h
    <3> DEFINE m == Len(history) - n + 1
    <3>1. /\ m \in Int /\ Len(history) \in Int /\ i \in 1..Len(history) - m + 1
          /\ m + i - 1 = Len(history) - n + i
          /\ \A j \in m..Len(history) : history[j] \in Request
      BY <1>1
    <3> HIDE DEF m
    <3>2. SubSeq(history, m, Len(history))[i] = history[m + i - 1]
      BY <3>1, SubSeqProperties
    <3> QED BY <3>1, <3>2 DEF Suffix, m
  <2>2. t \in Seq(Msg) /\ Len(t) = 2 /\ t[1] = turns[2 * i - 1] /\ t[2] = turns[2 * i]
    BY <1>1, SubSeqProperties
  <2>3. t[1] = <<h, "user">> /\ t[2] = <<h, "assistant">>
    BY <2>2 DEF Holds
  <2> HIDE DEF t
  <2>4. t = <<t[1], t[2]>>
    BY <2>2, PairEqual
  <2> QED
    BY <2>1, <2>3, <2>4 DEF Exchange, t
<1> QED
  BY <1>1, <1>2 DEF WindowIsSuffix

-----------------------------------------------------------------------------
(* Steps that leave the window and what was counted alone, and neither end an
   append nor begin to fold. *)
Quiet ==
    /\ UNCHANGED <<turns, history>>
    /\ \A q \in Request :
          /\ fold'[q].over = fold[q].over
          /\ req'[q] = "done" => req[q] = "done"
          /\ req'[q] \in Folding => req[q] \in Folding

LEMMA QuietKeeps ==
    ASSUME ConvInv, Quiet PROVE FoldsPairs' /\ Window' /\ Budget'
<1>1. FoldsPairs'
  BY DEF ConvInv, FoldsPairs, Quiet
<1>2. Window'
  BY DEF ConvInv, Window, Holds, Quiet
<1>3. ASSUME history' # <<>>
      PROVE  LET r == history'[Len(history')]
             IN  /\ req'[r] = "done" => Len(turns') <= MaxTurns * 2
                 /\ req'[r] \in Folding => Len(turns') <= MaxTurns * 2 + fold'[r].over
  <2> DEFINE r == history[Len(history)]
  <2>1. history \in Seq(Request) /\ history # <<>> /\ r \in Request
    BY <1>3, EmptySeq, ElementOfSeq DEF ConvInv, TypeOK, Quiet
  <2>2. /\ req[r] = "done" => Len(turns) <= MaxTurns * 2
        /\ req[r] \in Folding => Len(turns) <= MaxTurns * 2 + fold[r].over
    BY <2>1 DEF ConvInv, Budget
  <2> HIDE DEF r
  <2>3. /\ fold'[r].over = fold[r].over
        /\ req'[r] = "done" => req[r] = "done"
        /\ req'[r] \in Folding => req[r] \in Folding
    BY <2>1 DEF Quiet
  <2> QED
    BY <2>2, <2>3 DEF Quiet, r
<1>4. Budget'
  BY <1>3 DEF Budget
<1> QED
  BY <1>1, <1>2, <1>4

(* Setting fields of a context or of a fold keeps its type. *)
Context == [loaded : BOOLEAN, turns : SUBSET Msg,
            summary : SUBSET Msg, known : SUBSET Request]
LEMMA ContextSet ==
    ASSUME NEW c \in Context, NEW t \in SUBSET Msg, NEW k \in SUBSET Request
    PROVE  /\ [c EXCEPT !.turns = t] \in Context
           /\ [c EXCEPT !.summary = t] \in Context
           /\ [c EXCEPT !.known = k] \in Context
           /\ [c EXCEPT !.loaded = TRUE] \in Context
BY DEF Context

FoldState == [over : Int, old : SUBSET Msg, prior : SUBSET Msg,
              new : SUBSET Msg, failed : BOOLEAN]
LEMMA FoldFields ==
    ASSUME NEW f \in FoldState, NEW t \in SUBSET Msg
    PROVE  /\ [f EXCEPT !.old = t] \in FoldState
           /\ [f EXCEPT !.prior = t] \in FoldState
           /\ [f EXCEPT !.new = t] \in FoldState
           /\ [f EXCEPT !.old = t].over = f.over
           /\ [f EXCEPT !.prior = t].over = f.over
           /\ [f EXCEPT !.new = t].over = f.over
BY DEF FoldState

LEMMA FoldSets ==
    ASSUME fold \in [Request -> FoldState], NEW r \in Request, NEW f \in FoldState,
           f.over = fold[r].over, fold' = [fold EXCEPT ![r] = f]
    PROVE  /\ fold' \in [Request -> FoldState]
           /\ \A q \in Request : fold'[q].over = fold[q].over
OBVIOUS

(* One step per action that is quiet. *)
LEMMA QuietSteps ==
    ASSUME ConvInv, NEW r \in Request,
           \/ Ask(r) \/ Retrieve(r) \/ LoadFirst(r) \/ LoadSecond(r) \/ LoadFails(r)
           \/ Generate(r) \/ RetrieveOrGenerateFails(r) \/ ReadOverflow(r) \/ ReadPrior(r)
           \/ Summarize(r) \/ SummarizeFails(r) \/ AppendFails(r) \/ Abandon(r)
    PROVE  TypeOK' /\ Quiet
<1> USE DEF ConvInv, TypeOK, Quiet, session, memory, Goes, Folding, Appending
<1>0. fold \in [Request -> FoldState] /\ fold[r] \in FoldState
  BY DEF FoldState
<1>1. CASE Ask(r)
  BY <1>1 DEF Ask, ReqPC
<1>2. CASE Retrieve(r)
  BY <1>2 DEF Retrieve, ReqPC, Loading
<1>3. CASE LoadFirst(r)
  <2>1. Elements(turns) \subseteq Msg /\ Elements(history) \subseteq Request
    BY ElementsOf
  <2> DEFINE c == [[ctx[r] EXCEPT !.turns = Elements(turns)] EXCEPT !.known = Elements(history)]
  <2>2. ctx' = [ctx EXCEPT ![r] = c]
    BY <1>3 DEF LoadFirst, ReadKey, Keys
  <2>3. c \in Context
    <3>1. ctx[r] \in Context
      BY DEF Context
    <3> QED
      BY <2>1, <3>1, ContextSet
  <2> HIDE DEF c
  <2>4. ctx' \in [Request -> Context]
    BY <2>2, <2>3 DEF Context
  <2> QED
    BY <1>3, <2>4 DEF LoadFirst, ReqPC, Loading, Context
<1>4. CASE LoadSecond(r)
  <2> DEFINE c == [[ctx[r] EXCEPT !.summary = summary] EXCEPT !.loaded = TRUE]
  <2>1. ctx' = [ctx EXCEPT ![r] = c]
    BY <1>4 DEF LoadSecond, ReadKey, Keys
  <2>2. c \in Context
    <3>1. ctx[r] \in Context
      BY DEF Context
    <3> QED
      BY <3>1, ContextSet
  <2> HIDE DEF c
  <2>3. ctx' \in [Request -> Context]
    BY <2>1, <2>2 DEF Context
  <2> QED
    BY <1>4, <2>3 DEF LoadSecond, ReqPC, Context
<1>5. CASE LoadFails(r)
  BY <1>5 DEF LoadFails, ReqPC, NoContext
<1>6. CASE Generate(r)
  BY <1>6 DEF Generate, ReqPC
<1>7. CASE RetrieveOrGenerateFails(r)
  BY <1>7 DEF RetrieveOrGenerateFails, ReqPC, Over
<1>8. CASE ReadOverflow(r)
  <2>1. OldestTurns(fold[r].over) \subseteq Msg
    BY ElementOfSeq DEF OldestTurns
  <2> DEFINE f == [fold[r] EXCEPT !.old = OldestTurns(fold[r].over)]
  <2>2. f \in FoldState /\ f.over = fold[r].over
    BY <1>0, <2>1, FoldFields
  <2>3. fold' = [fold EXCEPT ![r] = f]
    BY <1>8 DEF ReadOverflow
  <2> HIDE DEF f
  <2>4. /\ fold' \in [Request -> FoldState]
        /\ \A q \in Request : fold'[q].over = fold[q].over
    BY <1>0, <2>2, <2>3, FoldSets
  <2> QED
    BY <1>8, <2>4 DEF ReadOverflow, ReqPC, FoldState
<1>9. CASE ReadPrior(r)
  <2> DEFINE f == [fold[r] EXCEPT !.prior = PriorSummary]
  <2>1. f \in FoldState /\ f.over = fold[r].over
    BY <1>0, FoldFields DEF PriorSummary
  <2>2. fold' = [fold EXCEPT ![r] = f]
    BY <1>9 DEF ReadPrior
  <2> HIDE DEF f
  <2>3. /\ fold' \in [Request -> FoldState]
        /\ \A q \in Request : fold'[q].over = fold[q].over
    BY <1>0, <2>1, <2>2, FoldSets
  <2> QED
    BY <1>9, <2>3 DEF ReadPrior, ReqPC, FoldState
<1>10. CASE Summarize(r)
  <2> DEFINE f == [fold[r] EXCEPT !.new = fold[r].prior \union fold[r].old]
  <2>1. fold[r].prior \union fold[r].old \in SUBSET Msg
    BY <1>0 DEF FoldState
  <2>2. f \in FoldState /\ f.over = fold[r].over
    BY <1>0, <2>1, FoldFields
  <2>3. fold' = [fold EXCEPT ![r] = f]
    BY <1>10 DEF Summarize
  <2> HIDE DEF f
  <2>4. /\ fold' \in [Request -> FoldState]
        /\ \A q \in Request : fold'[q].over = fold[q].over
    BY <1>0, <2>2, <2>3, FoldSets
  <2> QED
    BY <1>10, <2>4 DEF Summarize, ReqPC, FoldState
<1>11. CASE SummarizeFails(r)
  <2>1. PICK new \in {fold[r].prior, {}} :
            fold' = [fold EXCEPT ![r] = [fold[r] EXCEPT !.new = new, !.failed = TRUE]]
    BY <1>11 DEF SummarizeFails
  <2>2. fold'[r] = [fold[r] EXCEPT !.new = new, !.failed = TRUE]
    BY <2>1
  <2>3. fold'[r] \in [over : Int, old : SUBSET Msg, prior : SUBSET Msg,
                      new : SUBSET Msg, failed : BOOLEAN]
        /\ fold'[r].over = fold[r].over
    BY <2>2
  <2>4. fold' \in [Request -> [over : Int, old : SUBSET Msg, prior : SUBSET Msg,
                               new : SUBSET Msg, failed : BOOLEAN]]
        /\ \A q \in Request : fold'[q].over = fold[q].over
    BY <2>1, <2>3
  <2> QED
    BY <1>11, <2>4 DEF SummarizeFails, ReqPC
<1>12. CASE AppendFails(r)
  BY <1>12 DEF AppendFails, ReqPC, Over
<1>13. CASE Abandon(r)
  BY <1>13 DEF Abandon, ReqPC, Over
<1> QED
  BY <1>1, <1>2, <1>3, <1>4, <1>5, <1>6, <1>7, <1>8, <1>9, <1>10, <1>11, <1>12, <1>13

-----------------------------------------------------------------------------
(* An exchange is appended: the window is one exchange longer. *)
LEMMA PushKeeps == ASSUME ConvInv, NEW r \in Request, Push(r) PROVE ConvInv'
<1> USE DEF ConvInv
<1>1. turns \in Seq(Msg) /\ history \in Seq(Request)
  BY DEF TypeOK
<1>2. /\ Exchange(r) \in Seq(Msg) /\ Len(Exchange(r)) = 2
      /\ Exchange(r)[1] = <<r, "user">> /\ Exchange(r)[2] = <<r, "assistant">>
  BY PairIs DEF Exchange, Msg
<1>3. /\ turns' \in Seq(Msg) /\ Len(turns') = Len(turns) + 2
      /\ \A i \in 1..(Len(turns) + 2) :
            turns'[i] = IF i <= Len(turns) THEN turns[i] ELSE Exchange(r)[i - Len(turns)]
  <2> DEFINE e == Exchange(r)
  <2>1. e \in Seq(Msg) /\ Len(e) = 2
    BY <1>2
  <2>2. turns' = turns \o e
    BY DEF Push
  <2> HIDE DEF e
  <2>3. /\ turns \o e \in Seq(Msg) /\ Len(turns \o e) = Len(turns) + Len(e)
        /\ \A i \in 1..(Len(turns) + Len(e)) :
              (turns \o e)[i] = IF i <= Len(turns) THEN turns[i] ELSE e[i - Len(turns)]
    BY <1>1, <2>1, ConcatProperties
  <2> QED
    BY <2>1, <2>2, <2>3 DEF e
<1>4. /\ history' \in Seq(Request) /\ Len(history') = Len(history) + 1
      /\ \A i \in 1..(Len(history) + 1) :
            history'[i] = IF i <= Len(history) THEN history[i] ELSE r
  BY <1>1, AppendProperties DEF Push
<1>5. /\ req \in [Request -> ReqPC] /\ req' = [req EXCEPT ![r] = "count"]
      /\ fold' = fold
  BY DEF TypeOK, Push, Goes
<1>6. TypeOK'
  BY <1>3, <1>4, <1>5 DEF TypeOK, Push, ReqPC, Appending
<1>7. FoldsPairs'
  BY <1>5 DEF FoldsPairs, Folding
<1>8. Window'
  <2>1. PICK n \in Nat : Holds(n)
    BY DEF Window
  <2>2. /\ n + 1 \in 0..Len(history') /\ Len(turns') = 2 * (n + 1)
        /\ Len(turns) = 2 * n /\ Len(history) \in Nat
    BY <1>1, <1>3, <1>4, <2>1, LenProperties DEF Holds
  <2>3. ASSUME NEW i \in 1..(n + 1)
        PROVE  /\ turns'[2 * i - 1] = <<history'[Len(history') - (n + 1) + i], "user">>
               /\ turns'[2 * i] = <<history'[Len(history') - (n + 1) + i], "assistant">>
    <3>1. Len(history') - (n + 1) + i = Len(history) - n + i
      BY <1>4, <2>2
    <3>2. CASE i = n + 1
      <4>1. history'[Len(history) - n + i] = r
        BY <1>4, <2>2, <3>2
      <4>2. turns'[2 * i - 1] = Exchange(r)[1] /\ turns'[2 * i] = Exchange(r)[2]
        BY <1>3, <2>2, <3>2
      <4> QED
        BY <1>2, <3>1, <4>1, <4>2
    <3>3. CASE i \in 1..n
      <4>1. history'[Len(history) - n + i] = history[Len(history) - n + i]
        BY <1>4, <2>1, <2>2, <3>3 DEF Holds
      <4>2. turns'[2 * i - 1] = turns[2 * i - 1] /\ turns'[2 * i] = turns[2 * i]
        BY <1>3, <2>2, <3>3
      <4> QED
        BY <2>1, <3>1, <3>3, <4>1, <4>2 DEF Holds
    <3> QED
      BY <3>2, <3>3
  <2>4. Holds(n + 1)'
    BY <2>2, <2>3 DEF Holds
  <2> QED
    BY <2>4 DEF Window
<1>9. Budget'
  <2>1. history'[Len(history')] = r
    BY <1>1, <1>4, LenProperties
  <2> QED
    BY <1>5, <2>1 DEF Budget, Folding
<1> QED
  BY <1>6, <1>7, <1>8, <1>9

(* What is counted is what the window is over its budget by. *)
LEMMA CountKeeps == ASSUME ConvInv, NEW r \in Request, Count(r) PROVE ConvInv'
<1> USE DEF ConvInv
<1>1. PICK n \in Nat : Holds(n)
  BY DEF Window
<1>2. Len(turns) = 2 * n /\ Overflow = 2 * (n - MaxTurns) /\ Overflow \in Int
  BY <1>1, ConversationAssumption DEF Holds, Overflow
<1>3. /\ req \in [Request -> ReqPC] /\ req' = [req EXCEPT ![r] = AfterCount]
      /\ AfterCount = IF Overflow <= 0 THEN "done" ELSE "overflow"
      /\ fold' = [fold EXCEPT ![r] = [fold[r] EXCEPT !.over = Overflow]]
      /\ UNCHANGED <<turns, history>>
  BY DEF TypeOK, Count, Goes, session, memory, AfterCount
<1>4. fold'[r].over = Overflow /\ \A q \in Request \ {r} : fold'[q] = fold[q]
  BY <1>3 DEF TypeOK
<1>5. TypeOK'
  <2>1. AfterCount \in ReqPC
    BY <1>3 DEF ReqPC, Appending, Over
  <2>2. req' \in [Request -> ReqPC]
    BY <1>3, <2>1
  <2>3. [fold[r] EXCEPT !.over = Overflow]
            \in [over : Int, old : SUBSET Msg, prior : SUBSET Msg,
                 new : SUBSET Msg, failed : BOOLEAN]
    BY <1>2 DEF TypeOK
  <2>4. fold' \in [Request -> [over : Int, old : SUBSET Msg, prior : SUBSET Msg,
                               new : SUBSET Msg, failed : BOOLEAN]]
    BY <1>3, <2>3 DEF TypeOK
  <2> QED
    BY <2>2, <2>4 DEF TypeOK, Count, session, memory
<1>6. FoldsPairs'
  <2>1. req'[r] \in Folding => n - MaxTurns > 0
    BY <1>2, <1>3, ConversationAssumption DEF Folding, Appending, TypeOK
  <2>2. n - MaxTurns \in Int
    BY ConversationAssumption
  <2> QED
    BY <1>2, <1>3, <1>4, <2>1, <2>2 DEF FoldsPairs
<1>7. Window'
  BY <1>1, <1>3 DEF Window, Holds
<1>8. ASSUME history' # <<>>
      PROVE  LET h == history'[Len(history')]
             IN  /\ req'[h] = "done" => Len(turns') <= MaxTurns * 2
                 /\ req'[h] \in Folding => Len(turns') <= MaxTurns * 2 + fold'[h].over
  <2> DEFINE h == history[Len(history)]
  <2>1. history \in Seq(Request) /\ history # <<>> /\ h \in Request
    BY <1>3, <1>8, EmptySeq, ElementOfSeq DEF TypeOK
  <2>2. /\ req[h] = "done" => Len(turns) <= MaxTurns * 2
        /\ req[h] \in Folding => Len(turns) <= MaxTurns * 2 + fold[h].over
    BY <2>1 DEF Budget
  <2> HIDE DEF h
  <2>3. CASE h = r
    BY <1>2, <1>3, <1>4, <2>3, ConversationAssumption DEF h, Folding
  <2>4. CASE h # r
    BY <1>3, <1>4, <2>1, <2>2, <2>4 DEF h
  <2> QED
    BY <2>3, <2>4
<1>9. Budget'
  BY <1>8 DEF Budget
<1> QED
  BY <1>5, <1>6, <1>7, <1>9

(* What is trimmed was counted: whole exchanges, from the head. *)
LEMMA TrimKeeps == ASSUME ConvInv, NEW r \in Request, Trim(r) PROVE ConvInv'
<1> USE DEF ConvInv
<1>1. PICK n \in Nat : Holds(n)
  BY DEF Window
<1>2. PICK k \in Int : fold[r].over = 2 * k /\ k > 0
  BY DEF FoldsPairs, Folding, Appending, Trim, Goes
<1>3. /\ turns \in Seq(Msg) /\ history \in Seq(Request) /\ Len(history) \in Nat
      /\ Len(turns) = 2 * n /\ n \in 0..Len(history)
  BY <1>1, LenProperties DEF TypeOK, Holds
<1>4. /\ turns' \in Seq(Msg)
      /\ Len(turns') = IF 2 * k < 2 * n THEN 2 * n - 2 * k ELSE 0
      /\ \A i \in 1..Len(turns') : turns'[i] = turns[2 * k + i]
  <2>1. 2 * k \in Nat /\ turns' = SubSeq(turns, 2 * k + 1, Len(turns))
    BY <1>2 DEF Trim
  <2> QED
    BY <1>3, <2>1, TailOf
<1>5. /\ req \in [Request -> ReqPC] /\ req' = [req EXCEPT ![r] = "done"]
      /\ fold' = fold /\ history' = history /\ req[r] \in Folding
  BY DEF TypeOK, Trim, Goes, Folding, Appending
<1>6. TypeOK'
  <2>1. fold[r].new \subseteq Msg /\ fold[r].old \subseteq Msg
    BY DEF TypeOK
  <2>2. summary' \subseteq Msg /\ forgone' \subseteq Msg
    BY <2>1 DEF Trim, TypeOK
  <2> QED
    BY <1>4, <1>5, <2>2 DEF TypeOK, Trim, ReqPC, Over
<1>7. FoldsPairs'
  BY <1>5 DEF FoldsPairs, Folding, Appending
<1>8. Window'
  <2>1. CASE k < n
    <3>1. n - k \in 0..Len(history') /\ Len(turns') = 2 * (n - k) /\ n - k \in Nat
      BY <1>2, <1>3, <1>4, <1>5, <2>1
    <3>2. ASSUME NEW i \in 1..(n - k)
          PROVE  /\ turns'[2 * i - 1] = <<history[Len(history) - (n - k) + i], "user">>
                 /\ turns'[2 * i] = <<history[Len(history) - (n - k) + i], "assistant">>
      <4>1. i + k \in 1..n /\ Len(history) - (n - k) + i = Len(history) - n + (i + k)
        <5>1. k \in 1..n /\ n - k \in Nat
          BY <1>2, <2>1
        <5>2. i \in Int /\ 1 <= i /\ i <= n - k
          BY <5>1
        <5>3. i + k \in 1..n
          BY <5>1, <5>2
        <5>4. \A l \in Nat : l - (n - k) + i = l - n + (i + k)
          BY <5>1, <5>2
        <5> QED
          BY <1>3, <5>3, <5>4
      <4>2. turns'[2 * i - 1] = turns[2 * (i + k) - 1] /\ turns'[2 * i] = turns[2 * (i + k)]
        <5>1. 2 * i - 1 \in 1..Len(turns') /\ 2 * i \in 1..Len(turns')
          BY <3>1
        <5>2. 2 * k + (2 * i - 1) = 2 * (i + k) - 1 /\ 2 * k + 2 * i = 2 * (i + k)
          OBVIOUS
        <5> QED
          BY <1>4, <5>1, <5>2
      <4> QED
        BY <1>1, <4>1, <4>2 DEF Holds
    <3>3. Holds(n - k)'
      BY <1>5, <3>1, <3>2 DEF Holds
    <3> QED
      BY <3>1, <3>3 DEF Window
  <2>2. CASE ~(k < n)
    <3>1. Len(turns') = 0
      BY <1>2, <1>4, <2>2
    <3>2. Holds(0)'
      BY <1>3, <1>5, <3>1 DEF Holds
    <3> QED
      BY <3>2 DEF Window
  <2> QED
    BY <2>1, <2>2
<1>9. ASSUME history' # <<>>
      PROVE  LET h == history'[Len(history')]
             IN  /\ req'[h] = "done" => Len(turns') <= MaxTurns * 2
                 /\ req'[h] \in Folding => Len(turns') <= MaxTurns * 2 + fold'[h].over
  <2> DEFINE h == history[Len(history)]
  <2>1. history # <<>> /\ h \in Request
    BY <1>3, <1>5, <1>9, EmptySeq, ElementOfSeq
  <2>2. /\ req[h] = "done" => Len(turns) <= MaxTurns * 2
        /\ req[h] \in Folding => Len(turns) <= MaxTurns * 2 + fold[h].over
    BY <2>1 DEF Budget
  <2>3. PICK m \in Int : fold[h].over = 2 * m /\ (req[h] \in Folding => m > 0)
    BY <2>1 DEF FoldsPairs
  <2> HIDE DEF h
  <2>4. Len(turns') <= Len(turns)
    BY <1>2, <1>3, <1>4
  <2>5. CASE h = r
    <3>1. 2 * n <= MaxTurns * 2 + 2 * k
      BY <1>2, <1>3, <1>5, <2>2, <2>5
    <3>2. Len(turns') <= MaxTurns * 2
      BY <1>2, <1>4, <3>1, ConversationAssumption
    <3> QED
      BY <1>5, <2>5, <3>2 DEF h, Folding, Appending
  <2>6. CASE h # r
    <3>1. req'[h] = req[h] /\ fold'[h] = fold[h]
      BY <1>5, <2>1, <2>6
    <3>2. req[h] = "done" => Len(turns') <= MaxTurns * 2
      BY <1>3, <1>4, <2>2, <2>4, ConversationAssumption
    <3>3. req[h] \in Folding => Len(turns') <= MaxTurns * 2 + fold[h].over
      BY <1>3, <1>4, <2>2, <2>3, <2>4, ConversationAssumption
    <3> QED
      BY <1>5, <3>1, <3>2, <3>3 DEF h
  <2> QED
    BY <2>5, <2>6
<1>10. Budget'
  BY <1>9 DEF Budget
<1> QED
  BY <1>6, <1>7, <1>8, <1>10

LEMMA ExpireKeeps == ASSUME ConvInv, Expire PROVE ConvInv'
<1>1. /\ turns' = <<>> /\ history' = <<>> /\ summary' = {} /\ forgone' \subseteq Msg
      /\ UNCHANGED <<req, ctx, fold, overlapped>> /\ lagging' = FALSE
  BY ElementsOf DEF Expire, ConvInv, TypeOK
<1>2. /\ <<>> \in Seq(Msg) /\ <<>> \in Seq(Request) /\ Len(<<>>) = 0
  BY EmptySeq
<1>3. Holds(0)'
  BY <1>1, <1>2 DEF Holds
<1> QED
  BY <1>1, <1>2, <1>3 DEF ConvInv, TypeOK, FoldsPairs, Window, Budget

LEMMA ExpireSummaryKeeps == ASSUME ConvInv, ExpireSummary PROVE ConvInv'
BY DEF ExpireSummary, ConvInv, TypeOK, FoldsPairs, Window, Holds, Budget

LEMMA InitHolds == Init => ConvInv
<1> SUFFICES ASSUME Init PROVE ConvInv
  OBVIOUS
<1>1. /\ <<>> \in Seq(Msg) /\ <<>> \in Seq(Request) /\ Len(<<>>) = 0
  BY EmptySeq
<1>2. TypeOK
  <2>1. lagging \in BOOLEAN /\ overlapped \in BOOLEAN
    BY DEF Init
  <2>2. /\ turns \in Seq(Msg) /\ history \in Seq(Request)
        /\ summary \subseteq Msg /\ forgone \subseteq Msg
    BY <1>1 DEF Init
  <2>3. /\ req \in [Request -> ReqPC]
        /\ ctx \in [Request -> Context] /\ fold \in [Request -> FoldState]
    BY DEF Init, ReqPC, NoContext, NoFold, Context, FoldState
  <2> QED BY <2>1, <2>2, <2>3 DEF TypeOK, Context, FoldState
<1>3. FoldsPairs
  <2>1. \A r \in Request : fold[r].over = 2 * 0 /\ req[r] \notin Folding
    BY DEF Init, NoFold, Folding, Appending
  <2> QED
    BY <2>1 DEF FoldsPairs
<1>4. Holds(0)
  BY <1>1 DEF Init, Holds
<1> QED
  BY <1>2, <1>3, <1>4 DEF ConvInv, Window, Budget, Init

-----------------------------------------------------------------------------
(* The window and what is about to be trimmed from it agree, in every state. *)
THEOREM ConvInvariance == Spec => []ConvInv
<1>1. ConvInv /\ [Next]_vars => ConvInv'
  <2> SUFFICES ASSUME ConvInv, [Next]_vars PROVE ConvInv'
    OBVIOUS
  <2>1. CASE \E r \in Request : RequestStep(r)
    <3>1. PICK r \in Request : RequestStep(r)
      BY <2>1
    <3>2. CASE Push(r)
      BY <3>2, PushKeeps
    <3>3. CASE Count(r)
      BY <3>3, CountKeeps
    <3>4. CASE Trim(r)
      BY <3>4, TrimKeeps
    <3>5. CASE \/ Ask(r) \/ Retrieve(r) \/ LoadFirst(r) \/ LoadSecond(r) \/ LoadFails(r)
               \/ Generate(r) \/ RetrieveOrGenerateFails(r) \/ ReadOverflow(r)
               \/ ReadPrior(r) \/ Summarize(r) \/ SummarizeFails(r) \/ AppendFails(r)
               \/ Abandon(r)
      BY <3>5, QuietSteps, QuietKeeps DEF ConvInv
    <3> QED
      BY <3>1, <3>2, <3>3, <3>4, <3>5 DEF RequestStep
  <2>2. CASE Expire
    BY <2>2, ExpireKeeps
  <2>4. CASE ExpireSummary
    BY <2>4, ExpireSummaryKeeps
  <2>3. CASE UNCHANGED vars
    BY <2>3 DEF vars, ConvInv, TypeOK, FoldsPairs, Window, Holds, Budget
  <2> QED
    BY <2>1, <2>2, <2>3, <2>4 DEF Next, Rest
<1> QED
  BY <1>1, InitHolds, PTL DEF Spec

(* Whatever overlaps and fails, the window is the latest exchanges, whole and
   in the order they were appended: LTRIM takes pairs, from the head only. *)
THEOREM WindowIsSuffixHolds == Spec => []WindowIsSuffix
<1>1. ConvInv => WindowIsSuffix
  BY WindowIsWindow DEF ConvInv
<1> QED
  BY <1>1, ConvInvariance, PTL

(* Once the last request to append is done the window is within its budget,
   for any number of requests and any budget. *)
THEOREM WindowBoundedHolds == Spec => []WindowBounded
<1>1. ConvInv => WindowBounded
  BY DEF ConvInv, Budget, WindowBounded
<1> QED
  BY <1>1, ConvInvariance, PTL
-----------------------------------------------------------------------------
(***************************************************************************)
(* As long as no append began while another was under way, what was read   *)
(* of the session is still so when it is written.                          *)
(***************************************************************************)
Alone == \A p, q \in Request : req[p] \in Appending /\ req[q] \in Appending => p = q

Pair(q) == Elements(Exchange(q))

(* What is about to be trimmed is the head of the window, and what is about to
   be written as the summary covers the summary and, unless the LLM failed,
   that head. *)
FoldsWell(r) ==
    LET f == fold[r]
    IN  /\ req[r] \in Folding => f.over \in 1..Len(turns)
        /\ req[r] \in {"prior", "summarize", "trim"} => f.old = OldestTurns(f.over)
        /\ req[r] \in {"summarize", "trim"} => f.prior = summary
        /\ req[r] = "trim" => \/ f.new = f.prior \union f.old
                              \/ f.failed /\ f.new \in {f.prior, {}}

(* What left the window since it was read has been folded into the summary that
   is about to be read. *)
ContextWell(r) ==
    /\ req[r] = "second" => \A q \in ctx[r].known :
          Pair(q) \subseteq ctx[r].turns \union summary \union forgone
    /\ req[r] = "generate" /\ ctx[r].loaded => \A q \in ctx[r].known :
          Pair(q) \subseteq ctx[r].turns \union ctx[r].summary \union forgone

Ordered ==
    ~overlapped => Alone /\ NothingForgotten /\ \A r \in Request : FoldsWell(r) /\ ContextWell(r)

OrderedInv == ConvInv /\ Ordered

(* A request changes nothing of another one. *)
LEMMA OthersStill ==
    ASSUME TypeOK, NEW r \in Request, RequestStep(r), NEW q \in Request, q # r
    PROVE  req'[q] = req[q] /\ ctx'[q] = ctx[q] /\ fold'[q] = fold[q]
BY DEF TypeOK, RequestStep, Goes, Ask, Retrieve, LoadFirst, LoadSecond, LoadFails, Generate,
       RetrieveOrGenerateFails, Push, Count, ReadOverflow, ReadPrior, Summarize,
       SummarizeFails, Trim, AppendFails, Abandon

(* Steps within a request: they leave the session alone, and none of them
   begins to append. *)
LEMMA InwardSteps ==
    ASSUME ConvInv, ~overlapped, Ordered, NEW r \in Request, RequestStep(r), ~Push(r), ~Trim(r)
    PROVE  /\ UNCHANGED memory
           /\ req'[r] \in Appending => req[r] \in Appending
           /\ FoldsWell(r)' /\ ContextWell(r)'
<1> USE DEF ConvInv, TypeOK, session, memory, Goes
<1>0. FoldsWell(r) /\ ContextWell(r) /\ NothingForgotten
  BY DEF Ordered
<1>1. CASE Ask(r) \/ Retrieve(r) \/ RetrieveOrGenerateFails(r) \/ AppendFails(r) \/ Abandon(r)
  <2>1. req'[r] \in {"retrieve", "first"} \union Over /\ UNCHANGED memory
    BY <1>1 DEF Ask, Retrieve, RetrieveOrGenerateFails, AppendFails, Abandon, Over
  <2> QED BY <2>1 DEF FoldsWell, ContextWell, Folding, Appending, Over
<1>2. CASE Generate(r)
  BY <1>2 DEF Generate, FoldsWell, ContextWell, Folding, Appending
<1>3. CASE LoadFirst(r)
  <2> DEFINE c == [[ctx[r] EXCEPT !.turns = Elements(turns)] EXCEPT !.known = Elements(history)]
  <2>1. ctx' = [ctx EXCEPT ![r] = c]
    BY <1>3 DEF LoadFirst, ReadKey, Keys
  <2>2. c.turns = Elements(turns) /\ c.known = Elements(history)
    OBVIOUS
  <2> HIDE DEF c
  <2>3. ctx'[r].turns = Elements(turns) /\ ctx'[r].known = Elements(history)
    BY <2>1, <2>2
  <2>4. req'[r] = "second" /\ UNCHANGED memory
    BY <1>3 DEF LoadFirst
  <2>5. \A q \in Elements(history) : Pair(q) \subseteq Elements(turns) \union summary \union forgone
    <3> SUFFICES ASSUME NEW q \in Elements(history)
                 PROVE  Pair(q) \subseteq Elements(turns) \union summary \union forgone
      OBVIOUS
    <3>1. PICK i \in 1..Len(history) : q = history[i]
      BY DEF Elements
    <3> QED BY <1>0, <3>1 DEF NothingForgotten, Pair
  <2> QED BY <2>3, <2>4, <2>5 DEF FoldsWell, ContextWell, Folding, Appending
<1>4. CASE LoadSecond(r)
  <2> DEFINE c == [[ctx[r] EXCEPT !.summary = summary] EXCEPT !.loaded = TRUE]
  <2>1. ctx' = [ctx EXCEPT ![r] = c]
    BY <1>4 DEF LoadSecond, ReadKey, Keys
  <2>2. c.turns = ctx[r].turns /\ c.known = ctx[r].known /\ c.summary = summary
    OBVIOUS
  <2> HIDE DEF c
  <2>3. /\ ctx'[r].turns = ctx[r].turns /\ ctx'[r].known = ctx[r].known
        /\ ctx'[r].summary = summary
    BY <2>1, <2>2
  <2>4. req[r] = "second" /\ req'[r] = "generate" /\ UNCHANGED memory
    BY <1>4 DEF LoadSecond
  <2> QED BY <1>0, <2>3, <2>4 DEF FoldsWell, ContextWell, Folding, Appending
<1>5. CASE LoadFails(r)
  <2>1. req'[r] = "generate" /\ ctx'[r] = NoContext /\ UNCHANGED memory
    BY <1>5 DEF LoadFails
  <2> QED BY <2>1 DEF FoldsWell, ContextWell, Folding, Appending, NoContext
<1>6. CASE Count(r)
  <2>2. Len(turns) \in Nat /\ Overflow \in Int
    BY ConversationAssumption DEF Overflow
  <2>1. /\ req'[r] \in {"done", "overflow"} /\ fold'[r].over = Overflow
        /\ req'[r] = "overflow" => Overflow > 0
        /\ req[r] = "count" /\ UNCHANGED memory
    BY <1>6, <2>2 DEF Count, AfterCount
  <2>3. Overflow > 0 => Overflow \in 1..Len(turns)
    BY <2>2, ConversationAssumption DEF Overflow
  <2> QED BY <2>1, <2>3 DEF FoldsWell, ContextWell, Folding, Appending
<1>7. CASE ReadOverflow(r)
  <2>1. fold'[r].over = fold[r].over /\ fold'[r].old = OldestTurns(fold[r].over)
    BY <1>7 DEF ReadOverflow
  <2>2. OldestTurns(fold[r].over)' = OldestTurns(fold'[r].over)
    BY <1>7, <2>1 DEF ReadOverflow, OldestTurns, Last
  <2> QED BY <1>0, <1>7, <2>1, <2>2
          DEF ReadOverflow, FoldsWell, ContextWell, Folding, Appending, OldestTurns, Last
<1>8. CASE ReadPrior(r)
  <2>1. /\ fold'[r].over = fold[r].over /\ fold'[r].old = fold[r].old
        /\ fold'[r].prior = summary
    BY <1>8 DEF ReadPrior, PriorSummary
  <2> QED BY <1>0, <1>8, <2>1
          DEF ReadPrior, FoldsWell, ContextWell, Folding, Appending, OldestTurns, Last
<1>9. CASE Summarize(r)
  <2>1. /\ fold'[r].over = fold[r].over /\ fold'[r].old = fold[r].old
        /\ fold'[r].prior = fold[r].prior
        /\ fold'[r].new = fold[r].prior \union fold[r].old
    BY <1>9 DEF Summarize
  <2> QED BY <1>0, <1>9, <2>1
          DEF Summarize, FoldsWell, ContextWell, Folding, Appending, OldestTurns, Last
<1>10. CASE SummarizeFails(r)
  <2>1. PICK new \in {fold[r].prior, {}} :
            fold' = [fold EXCEPT ![r] = [fold[r] EXCEPT !.new = new, !.failed = TRUE]]
    BY <1>10 DEF SummarizeFails
  <2>2. fold'[r] = [fold[r] EXCEPT !.new = new, !.failed = TRUE]
    BY <2>1
  <2>3. /\ fold'[r].over = fold[r].over /\ fold'[r].old = fold[r].old
        /\ fold'[r].prior = fold[r].prior
        /\ fold'[r].new = new /\ fold'[r].failed
    BY <2>2
  <2> QED BY <1>0, <1>10, <2>3
          DEF SummarizeFails, FoldsWell, ContextWell, Folding, Appending, OldestTurns, Last
<1> QED
  BY <1>1, <1>2, <1>3, <1>4, <1>5, <1>6, <1>7, <1>8, <1>9, <1>10 DEF RequestStep

(* As long as the session does not change, what the others read of it holds. *)
LEMMA InwardKeeps ==
    ASSUME ConvInv, ~overlapped, Ordered, NEW r \in Request, RequestStep(r), ~Push(r), ~Trim(r)
    PROVE  Ordered'
<1>1. UNCHANGED memory /\ FoldsWell(r)' /\ ContextWell(r)'
  BY InwardSteps
<1>2. Alone'
  BY InwardSteps, OthersStill DEF Alone, Ordered, ConvInv
<1>3. NothingForgotten'
  BY <1>1 DEF NothingForgotten, Ordered, memory
<1>4. ASSUME NEW q \in Request, q # r PROVE FoldsWell(q)' /\ ContextWell(q)'
  BY <1>1, <1>4, OthersStill
     DEF Ordered, ConvInv, FoldsWell, ContextWell, memory, OldestTurns, Last
<1> QED BY <1>1, <1>2, <1>3, <1>4 DEF Ordered

(* An exchange is appended when no other append is under way. *)
LEMMA PushOrdered ==
    ASSUME ConvInv, ~overlapped', Ordered, NEW r \in Request, Push(r) PROVE Ordered'
<1>1. /\ \A q \in Request : req[q] \notin Appending
      /\ \A q \in Request \ {r} : req'[q] = req[q] /\ ctx'[q] = ctx[q] /\ fold'[q] = fold[q]
      /\ req'[r] = "count" /\ UNCHANGED <<summary, forgone>>
  BY OthersStill DEF Push, Goes, ConvInv, TypeOK, RequestStep
<1>0. ~overlapped
  BY DEF Push
<1>2. Alone'
  BY <1>1 DEF Alone
<1>3. \A q \in Request : FoldsWell(q)' /\ ContextWell(q)'
  BY <1>0, <1>1 DEF Ordered, FoldsWell, ContextWell, Folding, Appending
<1>4. Elements(turns) \union Pair(r) \subseteq Elements(turns')
  <2> DEFINE e == Exchange(r)
  <2>1. e \in Seq(Msg) /\ turns \in Seq(Msg)
    BY PairIs DEF Exchange, Msg, ConvInv, TypeOK
  <2>2. turns' = turns \o e
    BY DEF Push
  <2> HIDE DEF e
  <2>3. /\ Len(turns') = Len(turns) + Len(e) /\ Len(turns) \in Nat /\ Len(e) \in Nat
        /\ \A i \in 1..Len(turns) : turns'[i] = turns[i]
        /\ \A i \in 1..Len(e) : turns'[Len(turns) + i] = e[i]
    <3>1. /\ Len(turns \o e) = Len(turns) + Len(e) /\ Len(turns) \in Nat /\ Len(e) \in Nat
          /\ \A i \in 1..(Len(turns) + Len(e)) :
                (turns \o e)[i] = IF i <= Len(turns) THEN turns[i] ELSE e[i - Len(turns)]
      BY <2>1, ConcatProperties
    <3>2. ASSUME NEW i \in 1..Len(e)
          PROVE  (turns \o e)[Len(turns) + i] = e[i]
      <4>1. Len(turns) + i \in 1..(Len(turns) + Len(e)) /\ ~(Len(turns) + i <= Len(turns))
            /\ Len(turns) + i - Len(turns) = i
        BY <3>1
      <4> QED BY <3>1, <4>1
    <3> QED BY <2>2, <3>1, <3>2
  <2>4. /\ \A i \in 1..Len(turns) : i \in 1..Len(turns')
        /\ \A i \in 1..Len(e) : Len(turns) + i \in 1..Len(turns')
    BY <2>3
  <2> QED BY <2>3, <2>4 DEF Elements, Pair, e
<1>5. NothingForgotten'
  <2>1. history \in Seq(Request) /\ history' = Append(history, r)
    BY DEF Push, ConvInv, TypeOK
  <2>2. ASSUME NEW i \in 1..Len(history')
        PROVE  history'[i] = r \/ (i \in 1..Len(history) /\ history'[i] = history[i])
    <3>1. /\ Len(history') = Len(history) + 1 /\ Len(history) \in Nat
          /\ \A j \in 1..(Len(history) + 1) :
                history'[j] = IF j <= Len(history) THEN history[j] ELSE r
      BY <2>1, AppendProperties
    <3> QED BY <3>1
  <2>3. \A i \in 1..Len(history) : Pair(history[i]) \subseteq Elements(turns) \union summary \union forgone
    BY <1>0 DEF Ordered, NothingForgotten, Pair
  <2> QED BY <1>1, <1>4, <2>2, <2>3 DEF NothingForgotten, Pair
<1> QED BY <1>2, <1>3, <1>5 DEF Ordered

(* A trim takes away what it has folded into the summary or given up. *)
LEMMA TrimOrdered ==
    ASSUME ConvInv, ~overlapped, Ordered, NEW r \in Request, Trim(r) PROVE Ordered'
<1> DEFINE f == fold[r]
<1>1. /\ req[r] = "trim" /\ req'[r] = "done"
      /\ \A q \in Request \ {r} : req'[q] = req[q] /\ ctx'[q] = ctx[q] /\ fold'[q] = fold[q]
      /\ UNCHANGED <<overlapped, history>>
  BY OthersStill DEF Trim, Goes, ConvInv, TypeOK, RequestStep
<1>2. \A q \in Request \ {r} : req[q] \notin Appending
  BY <1>1 DEF Ordered, Alone, Appending
<1>3. /\ f.over \in 1..Len(turns) /\ f.old = OldestTurns(f.over) /\ f.prior = summary
      /\ \/ f.new = f.prior \union f.old
         \/ f.failed /\ f.new \in {f.prior, {}}
  BY <1>1 DEF Ordered, FoldsWell, Folding, Appending
<1>4. summary \subseteq summary' /\ forgone \subseteq forgone'
  BY <1>3 DEF Trim
<1>5. f.old \subseteq summary' \union forgone'
  BY <1>3 DEF Trim
<1>6. Elements(turns) \subseteq Elements(turns') \union f.old
  <2>0. turns \in Seq(Msg) /\ Len(turns) \in Nat /\ f.over \in Nat
    BY <1>3 DEF ConvInv, TypeOK
  <2>1. /\ Len(turns') = IF f.over < Len(turns) THEN Len(turns) - f.over ELSE 0
        /\ \A i \in 1..Len(turns') : turns'[i] = turns[f.over + i]
    BY <2>0, TailOf DEF Trim
  <2>2. SUFFICES ASSUME NEW i \in 1..Len(turns), turns[i] \notin f.old
                 PROVE  turns[i] \in Elements(turns')
    BY DEF Elements
  <2>3. i > f.over
    BY <1>3, <2>0, <2>2 DEF OldestTurns, Last
  <2>4. i - f.over \in 1..Len(turns') /\ f.over + (i - f.over) = i
    BY <2>0, <2>1, <2>3
  <2>5. turns'[i - f.over] = turns[i]
    BY <2>1, <2>4
  <2> QED BY <2>4, <2>5 DEF Elements
<1>7. Alone'
  BY <1>1, <1>2 DEF Alone, Appending
<1>8. NothingForgotten'
  BY <1>1, <1>4, <1>5, <1>6 DEF NothingForgotten, Ordered
<1>9. \A q \in Request : FoldsWell(q)' /\ ContextWell(q)'
  BY <1>1, <1>2, <1>4 DEF Ordered, FoldsWell, ContextWell, Folding, Appending
<1> QED BY <1>7, <1>8, <1>9 DEF Ordered

(* The session is kept in order until two appends overlap. *)
THEOREM OrderedInvariance == Spec => []OrderedInv
<1>1. Init => OrderedInv
  <2> SUFFICES ASSUME Init PROVE Ordered
    BY InitHolds DEF OrderedInv
  <2>1. \A r \in Request : req[r] = "idle"
    BY DEF Init
  <2>2. history = <<>>
    BY DEF Init
  <2> QED BY <2>1, <2>2 DEF Ordered, Alone, NothingForgotten, FoldsWell, ContextWell,
          Folding, Appending
<1>2. OrderedInv /\ ConvInv' /\ [Next]_vars => OrderedInv'
  <2> SUFFICES ASSUME ConvInv, Ordered, [Next]_vars, ~overlapped' PROVE Ordered'
    BY DEF OrderedInv, Ordered
  <2>0. ~overlapped
    BY DEF Next, RequestStep, Ask, Retrieve, LoadFirst, LoadSecond, LoadFails, Generate,
       RetrieveOrGenerateFails, Push, Count, ReadOverflow, ReadPrior, Summarize,
       SummarizeFails, Trim, AppendFails, Abandon, session, memory, Expire, ExpireSummary, Rest, vars
  <2>1. CASE \E r \in Request : RequestStep(r)
    <3>1. PICK r \in Request : RequestStep(r)
      BY <2>1
    <3> QED BY <2>0, <3>1, InwardKeeps, PushOrdered, TrimOrdered
  <2>2. CASE Expire
    BY <2>0, <2>2 DEF Expire, Ordered, Alone, NothingForgotten, FoldsWell, ContextWell,
       Folding, Appending, Over
  <2>4. CASE ExpireSummary
    BY <2>0, <2>4 DEF ExpireSummary, Ordered, Alone, NothingForgotten, FoldsWell, ContextWell,
       Folding, Appending
  <2>3. CASE UNCHANGED vars
    BY <2>0, <2>3 DEF vars, Ordered, Alone, NothingForgotten, FoldsWell, ContextWell,
       OldestTurns, Last
  <2> QED BY <2>1, <2>2, <2>3, <2>4 DEF Next, Rest
<1> QED BY <1>1, <1>2, ConvInvariance, PTL DEF Spec

(* Of the exchanges that were appended, and have not expired, none is lost until
   two appends overlap, unless the summariser fails: the append that rolls turns
   over reads, summarises and trims one and the same window.  An exchange whose
   append failed is not among them: the client is told `done` all the same. *)
THEOREM ForgetsOnlyInOverlapHolds == Spec => []ForgetsOnlyInOverlap
<1>1. OrderedInv => ForgetsOnlyInOverlap
  BY DEF OrderedInv, Ordered, ForgetsOnlyInOverlap
<1> QED BY <1>1, OrderedInvariance, PTL

(* Until then the context of a question has every exchange that was there when
   load() began: it reads the turns first, and what is rolled off them meanwhile
   is in the summary that it reads second. *)
THEOREM ContextCompleteHolds == Spec => []ContextComplete
<1>1. OrderedInv => ContextComplete
  BY DEF OrderedInv, Ordered, ContextWell, Pair, ContextComplete
<1> QED BY <1>1, OrderedInvariance, PTL

=============================================================================
