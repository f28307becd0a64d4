--------------------------- MODULE AgentLoopProofs ---------------------------
(***************************************************************************)
(* Theorems about AgentLoop and its queues, for any histories to start     *)
(* from, any limits, and any clients.  One invariant counts the requests   *)
(* by the place of the loop; another says where the loop keeps a prompt    *)
(* between taking it from a queue and telling it to the model.             *)
(***************************************************************************)
EXTENDS AgentLoop, SequenceTheorems, FiniteSetTheorems, TLAPS

-----------------------------------------------------------------------------
(* Requests.  The recovery attempt is taken back by each turn that ends and  *)
(* by each message that goes in; so it is the budget of one request.         *)

AtPrompt == pc \in {"arriving", "beginning", "opening"} \/ (pc = "checking" /\ check.at = "prompt")

CountsTyped ==
    /\ pc \in {"arriving", "beginning", "opening", "top", "streaming", "called", "executing",
               "settling", "checking", "pruning", "ended"}
    /\ turns \in 0 .. MaxTurns /\ requests \in Nat
    /\ attempted \in BOOLEAN
    /\ check \in [at : {"none", "prompt", "failed", "end"},
                  for : {"none", "overflow", "refusal", "threshold", "silent"},
                  stage : {"none", "model", "local", "whole"}]

Budget ==
    /\ requests <= 2 * MaxTurns
    /\ AtPrompt => requests = 0
    /\ pc = "arriving" => ~attempted
    /\ pc = "opening" => ~attempted
    /\ pc = "top" =>
         /\ requests <= 2 * turns + 1 /\ (~attempted => requests <= 2 * turns)
         /\ attempted => pending = <<>>
    /\ pc = "streaming" =>
         /\ turns < MaxTurns
         /\ requests <= 2 * turns + 2 /\ (~attempted => requests <= 2 * turns + 1)
    /\ pc \in {"called", "executing"} => ~attempted /\ turns < MaxTurns /\ requests <= 2 * turns + 2
    /\ pc = "settling" => ~attempted /\ requests <= 2 * turns
    /\ pc = "checking" =>
         /\ pending = <<>>
         /\ check.at # "none"
         /\ check.at = "failed" =>
              /\ turns < MaxTurns
              /\ requests <= 2 * turns + 2 /\ (~attempted => requests <= 2 * turns + 1)
         /\ check.at = "end" => requests <= 2 * turns
         /\ check.for \in Recoveries => ~attempted
    /\ pc \in {"pruning", "ended"} => requests <= 2 * turns + 2

\* What the loop has in hand: it overwrites the pending messages only where there are none.
InHand ==
    /\ pc \in {"arriving", "beginning", "opening", "streaming", "called", "pruning"} => pending = <<>>
    /\ pc = "executing" /\ calls # <<>> => pending = <<>>

BoundInv == CountsTyped /\ InHand /\ Budget

LEMMA TurnLimit == MaxTurns \in Nat /\ MaxTurns >= 1
BY LoopAssumption

LEMMA CheckedOnce ==
    ASSUME NEW reason \in Recoveries \cup {"threshold", "silent"}
    PROVE  reason \in {"overflow", "refusal", "threshold", "silent"}
BY DEF Recoveries

\* Where a check sends the loop: a retry has used up the recovery attempt.
LEMMA Leaving ==
    ASSUME BoundInv, pc = "checking", NEW retry \in BOOLEAN, Leave(retry),
           UNCHANGED <<pending, turns, requests>>, attempted' \in BOOLEAN,
           retry => ~attempted /\ attempted'
    PROVE  BoundInv'
<1>1. check' = [at |-> "none", for |-> "none", stage |-> "none"]
  BY DEF Leave, NoCheck
<1>2. CASE check.at = "prompt"
  <2>1. pc' = "beginning"
    BY <1>2 DEF Leave
  <2> QED BY <1>1, <1>2, <2>1, TurnLimit DEF BoundInv, CountsTyped, InHand, Budget, AtPrompt
<1>3. CASE check.at \in {"failed", "end"} /\ retry
  <2>1. pc' = "top"
    BY <1>3 DEF Leave
  <2> QED BY <1>1, <1>3, <2>1, TurnLimit DEF BoundInv, CountsTyped, InHand, Budget, AtPrompt
<1>4. CASE check.at \in {"failed", "end"} /\ ~retry
  <2>1. pc' = IF check.at = "end" THEN "pruning" ELSE "ended"
    BY <1>4 DEF Leave
  <2> QED BY <1>1, <1>4, <2>1, TurnLimit DEF BoundInv, CountsTyped, InHand, Budget, AtPrompt
<1> QED BY <1>2, <1>3, <1>4 DEF BoundInv, CountsTyped, Budget

LEMMA BoundKept ==
    ASSUME BoundInv, UNCHANGED loopVars
    PROVE  BoundInv'
BY DEF BoundInv, CountsTyped, InHand, Budget, AtPrompt, loopVars

\* From the arrival of the prompt to the first request.
LEMMA ArrivingSteps ==
    ASSUME BoundInv, Arrive \/ Begin \/ Open \/ LeaveCancelled \/ StopAtLimit \/ Ask
    PROVE  BoundInv'
<1>1. CASE Arrive
  BY <1>1, TurnLimit DEF Arrive, BoundInv, CountsTyped, InHand, Budget, AtPrompt, Go, CheckAt, NoCheck,
      talk, batch, counts, Recoveries
<1>2. CASE Begin
  BY <1>2, TurnLimit DEF Begin, BoundInv, CountsTyped, InHand, Budget, AtPrompt, Go, talk, batch, counts
<1>3. CASE Open
  BY <1>3, TurnLimit DEF Open, BoundInv, CountsTyped, InHand, Budget, AtPrompt, Go, batch, counts, policy
<1>4. CASE LeaveCancelled
  BY <1>4, TurnLimit DEF LeaveCancelled, BoundInv, CountsTyped, InHand, Budget, AtPrompt, Go, talk, batch, counts, policy
<1>5. CASE StopAtLimit
  <2>1. /\ pc = "top" /\ pc' = "ended" /\ pending' = <<>> /\ turns' = turns /\ requests' = requests
        /\ calls' = calls /\ check' = check
    BY <1>5 DEF StopAtLimit, Go, batch, counts
  <2>2. attempted' \in BOOLEAN
    BY <1>5 DEF StopAtLimit, Resets, BoundInv, CountsTyped
  <2> QED BY <2>1, <2>2, TurnLimit DEF BoundInv, CountsTyped, InHand, Budget, AtPrompt
<1>6. CASE Ask
  <2>1. /\ pc = "top" /\ pc' = "streaming" /\ pending' = <<>> /\ turns' = turns /\ requests' = requests + 1
        /\ calls' = calls /\ check' = check /\ ~(turns >= MaxTurns)
    BY <1>6 DEF Ask, Go, batch, Limited
  <2>2. turns \in Nat /\ turns < MaxTurns
    BY <2>1, TurnLimit DEF BoundInv, CountsTyped
  <2>3. attempted' \in BOOLEAN /\ (attempted' => attempted)
    BY <1>6 DEF Ask, Resets, BoundInv, CountsTyped
  <2>4. attempted => attempted'
    BY <1>6, <2>1 DEF Ask, Resets, BoundInv, Budget
  <2>5. requests' <= 2 * turns + 2 /\ (~attempted' => requests' <= 2 * turns + 1)
    BY <2>1, <2>2, <2>3, <2>4, TurnLimit DEF BoundInv, CountsTyped, Budget
  <2>6. requests' <= 2 * MaxTurns
    BY <2>1, <2>2, <2>3, <2>5, TurnLimit DEF BoundInv, CountsTyped
  <2> QED BY <2>1, <2>2, <2>3, <2>5, <2>6, TurnLimit DEF BoundInv, CountsTyped, InHand, Budget, AtPrompt
<1> QED BY <1>1, <1>2, <1>3, <1>4, <1>5, <1>6

LEMMA AnsweredSteps ==
    ASSUME BoundInv,
           \/ \E stop \in Failures : AnswerFails(stop)
           \/ \E stop \in Texts : AnswerTalks(stop)
           \/ \E n \in 1 .. MaxCalls, stop \in {"calls", "length"} : AnswerCalls(n, stop)
    PROVE  BoundInv'
<1>1. ASSUME NEW stop \in Failures, AnswerFails(stop) PROVE BoundInv'
  <2>1. /\ pc = "streaming" /\ UNCHANGED <<pending, turns, requests, calls>>
        /\ \/ attempted' = FALSE /\ pc' = "ended" /\ check' = check
           \/ attempted' = attempted /\ CheckAt("failed")
    BY <1>1 DEF AnswerFails, Go, batch, counts
  <2>2. CASE attempted' = FALSE /\ pc' = "ended" /\ check' = check
    BY <2>1, <2>2, TurnLimit DEF BoundInv, CountsTyped, InHand, Budget, AtPrompt
  <2>3. CASE attempted' = attempted /\ CheckAt("failed")
    <3>1. pc' = "checking" /\ check' = [at |-> "failed", for |-> "none", stage |-> "none"]
      BY <2>3 DEF CheckAt, NoCheck
    <3> QED BY <2>1, <2>3, <3>1 DEF BoundInv, CountsTyped, InHand, Budget, AtPrompt, Recoveries
  <2> QED BY <2>1, <2>2, <2>3
<1>2. ASSUME NEW stop \in Texts, AnswerTalks(stop) PROVE BoundInv'
  <2>1. /\ pc = "streaming" /\ pc' = "settling" /\ attempted' = FALSE /\ turns' = turns + 1
        /\ UNCHANGED <<pending, requests, calls, check>>
    BY <1>2 DEF AnswerTalks, Go, batch
  <2>2. turns' \in 0 .. MaxTurns /\ requests' \in Nat /\ requests' <= 2 * turns' /\ requests' <= 2 * MaxTurns
    BY <2>1, TurnLimit DEF BoundInv, CountsTyped, Budget
  <2> QED BY <2>1, <2>2, TurnLimit DEF BoundInv, CountsTyped, InHand, Budget, AtPrompt
<1>3. ASSUME NEW n \in 1 .. MaxCalls, NEW stop, AnswerCalls(n, stop) PROVE BoundInv'
  <2>1. /\ pc = "streaming" /\ pc' = "called" /\ attempted' = FALSE
        /\ UNCHANGED <<pending, turns, requests, check>>
    BY <1>3 DEF AnswerCalls, Go, counts
  <2> QED BY <2>1, TurnLimit DEF BoundInv, CountsTyped, InHand, Budget, AtPrompt
<1> QED BY <1>1, <1>2, <1>3

LEMMA WorkingSteps ==
    ASSUME BoundInv, SkipRepeated \/ Accept \/ Execute \/ Executed \/ Steer \/ Nudge \/ FollowUp
    PROVE  BoundInv'
<1>1. CASE SkipRepeated
  <2>1. /\ pc = "called" /\ pc' = "top" /\ turns' = turns + 1
        /\ UNCHANGED <<requests, attempted, check>>
    BY <1>1 DEF SkipRepeated, Go, policy
  <2> QED BY <2>1, TurnLimit DEF BoundInv, CountsTyped, InHand, Budget, AtPrompt
<1>2. CASE Accept
  BY <1>2, TurnLimit DEF Accept, BoundInv, CountsTyped, InHand, Budget, AtPrompt, Go, talk, policy
<1>3. CASE Execute
  BY <1>3, TurnLimit DEF Execute, BoundInv, CountsTyped, InHand, Budget, AtPrompt, counts, policy
<1>4. CASE Executed
  <2>1. /\ pc = "executing" /\ pc' = "settling" /\ turns' = turns + 1
        /\ UNCHANGED <<requests, attempted, check>>
    BY <1>4 DEF Executed, Go, policy
  <2> QED BY <2>1, TurnLimit DEF BoundInv, CountsTyped, InHand, Budget, AtPrompt
<1>5. CASE Steer
  BY <1>5, TurnLimit DEF Steer, BoundInv, CountsTyped, InHand, Budget, AtPrompt, Go, batch, counts, policy
<1>6. CASE Nudge
  BY <1>6, TurnLimit DEF Nudge, Idle, BoundInv, CountsTyped, InHand, Budget, AtPrompt, Go, batch, policy
<1>7. CASE FollowUp
  BY <1>7, TurnLimit DEF FollowUp, Idle, BoundInv, CountsTyped, InHand, Budget, AtPrompt, Go, CheckAt, NoCheck,
      batch, Recoveries
<1> QED BY <1>1, <1>2, <1>3, <1>4, <1>5, <1>6, <1>7

LEMMA CheckingSteps ==
    ASSUME BoundInv,
           \/ CheckFits \/ CheckSuppressed \/ CheckExhausted
           \/ \E reason \in Recoveries \cup {"threshold", "silent"} : CheckCompacts(reason)
           \/ PruneIsEnough \/ Summarize \/ StageFails \/ PruneAtEnd
    PROVE  BoundInv'
<1>1. CASE CheckFits \/ CheckSuppressed \/ CheckExhausted
  <2>1. /\ pc = "checking" /\ Leave(FALSE)
        /\ UNCHANGED <<pending, batch, counts, attempted>>
    BY <1>1 DEF CheckFits, CheckSuppressed, CheckExhausted
  <2>2. UNCHANGED <<pending, turns, requests>> /\ attempted' \in BOOLEAN
    BY <2>1 DEF BoundInv, CountsTyped, counts
  <2> QED BY <2>1, <2>2, Leaving
<1>2. ASSUME NEW reason \in Recoveries \cup {"threshold", "silent"}, CheckCompacts(reason) PROVE BoundInv'
  BY <1>2, CheckedOnce, TurnLimit DEF CheckCompacts, BoundInv, CountsTyped, InHand, Budget, AtPrompt, batch, counts
<1>3. CASE PruneIsEnough \/ Summarize
  <2>1. pc = "checking" /\ Succeed
    BY <1>3 DEF PruneIsEnough, Summarize
  <2>2. (check.for \in Recoveries) \in BOOLEAN /\ Leave(check.for \in Recoveries)
    BY <2>1 DEF Succeed
  <2>3. UNCHANGED <<pending, turns, requests>>
    BY <2>1 DEF Succeed, counts
  <2>4. attempted' \in BOOLEAN /\ (check.for \in Recoveries => ~attempted /\ attempted')
    BY <2>1 DEF Succeed, BoundInv, CountsTyped, Budget
  <2> QED BY <2>1, <2>2, <2>3, <2>4, Leaving
<1>4. CASE StageFails
  <2>1. /\ pc = "checking" /\ UNCHANGED <<pending, turns, requests, attempted>>
        /\ Leave(FALSE) \/ (UNCHANGED <<pc, fresh>> /\ check' = [check EXCEPT !.stage = NextStage])
    BY <1>4 DEF StageFails, counts
  <2>2. NextStage \in {"none", "local", "whole"}
    BY DEF NextStage
  <2>3. CASE Leave(FALSE)
    <3>1. attempted' \in BOOLEAN
      BY <2>1 DEF BoundInv, CountsTyped
    <3> QED BY <2>1, <2>3, <3>1, Leaving
  <2>4. CASE UNCHANGED <<pc, fresh>> /\ check' = [check EXCEPT !.stage = NextStage]
    <3>1. /\ check'.at = check.at /\ check'.for = check.for
          /\ check' \in [at : {"none", "prompt", "failed", "end"},
                  for : {"none", "overflow", "refusal", "threshold", "silent"},
                  stage : {"none", "model", "local", "whole"}]
      BY <2>2, <2>4 DEF BoundInv, CountsTyped
    <3> QED BY <2>1, <2>4, <3>1, TurnLimit DEF BoundInv, CountsTyped, InHand, Budget, AtPrompt
  <2> QED BY <2>1, <2>3, <2>4
<1>5. CASE PruneAtEnd
  BY <1>5, TurnLimit DEF PruneAtEnd, BoundInv, CountsTyped, InHand, Budget, AtPrompt, Go, batch, counts, policy
<1> QED BY <1>1, <1>2, <1>3, <1>4, <1>5

LEMMA InitBound == Init => BoundInv
<1> SUFFICES ASSUME Init PROVE BoundInv
  OBVIOUS
<1>1. /\ pc = "arriving" /\ pending = <<>> /\ turns = 0 /\ requests = 0 /\ ~attempted /\ attempted \in BOOLEAN
      /\ check = [at |-> "none", for |-> "none", stage |-> "none"]
  BY DEF Init, LoopInit, NoCheck
<1> QED BY <1>1, TurnLimit DEF BoundInv, CountsTyped, InHand, Budget, AtPrompt

LEMMA NextBound == BoundInv /\ [Next]_vars => BoundInv'
<1> SUFFICES ASSUME BoundInv, [Next]_vars PROVE BoundInv'
  OBVIOUS
<1>1. CASE Loop
  BY <1>1, ArrivingSteps, AnsweredSteps, WorkingSteps, CheckingSteps DEF Loop
<1>2. CASE Cancel
  BY <1>2, TurnLimit DEF Cancel, BoundInv, CountsTyped, InHand, Budget, AtPrompt, talk, batch, counts, policy
<1>3. CASE UNCHANGED loopVars
  BY <1>3, BoundKept
<1> QED BY <1>1, <1>2, <1>3 DEF Next, ClientActs, Ended, vars

\* A run asks the provider at most twice for each turn, and no more than its limit on turns
\* allows (RequestsAreBounded): overflow_recovery_attempted stays set from the one retry
\* to the next answer that is none, or to the next message that goes in.
THEOREM AskingIsBounded == Spec => []RequestsAreBounded
<1>1. BoundInv => RequestsAreBounded
  BY TurnLimit DEF BoundInv, CountsTyped, Budget, AtPrompt, RequestsAreBounded
<1> QED BY <1>1, InitBound, NextBound, PTL DEF Spec

-----------------------------------------------------------------------------
(* Prompts.  What a sequence of messages tells, and how a queue is numbered. *)

IsPrompt(m) == m.role = "user" /\ m.id # 0
PromptsOf(s) == {s[i].id : i \in {k \in 1 .. Len(s) : IsPrompt(s[k])}}
ToldOnce(s) ==
    \A i, j \in 1 .. Len(s) : IsPrompt(s[i]) /\ IsPrompt(s[j]) /\ s[i].id = s[j].id => i = j
Promptless(s) == \A i \in 1 .. Len(s) : ~IsPrompt(s[i])
EndsQuietly(s) == s # <<>> /\ ~IsPrompt(s[Len(s)])

EntriesOf(s) == {s[i] : i \in 1 .. Len(s)}
NumbersOf(s) == {s[i].id : i \in 1 .. Len(s)}
Numbered(s)  == \A i, j \in 1 .. Len(s) : s[i].id = s[j].id => i = j

LEMMA Silence ==
    ASSUME NEW s, Promptless(s)
    PROVE  PromptsOf(s) = {} /\ ToldOnce(s)
BY DEF Promptless, PromptsOf, ToldOnce

LEMMA Quiet ==
    /\ Promptless(<<>>) /\ Promptless(<<Note>>)
    /\ \A n, c, stop : Promptless(<<Assistant(n, c, stop)>>)
    /\ \A n \in Nat : Promptless([i \in 1 .. n |-> Note])
<1>1. Len(<<>>) = 0 /\ Note.role = "note" /\ \A n, c, stop : Assistant(n, c, stop).role = "assistant"
  BY DEF Note, Assistant, Message
<1>2. Promptless(<<>>)
  BY <1>1 DEF Promptless
<1>3. ASSUME NEW m, m.role # "user" PROVE Promptless(<<m>>)
  BY <1>3 DEF Promptless, IsPrompt
<1>4. ASSUME NEW n \in Nat PROVE Promptless([i \in 1 .. n |-> Note])
  <2>1. Len([i \in 1 .. n |-> Note]) = n
    OBVIOUS
  <2> QED BY <1>1, <2>1 DEF Promptless, IsPrompt
<1> QED BY <1>1, <1>2, <1>3, <1>4

LEMMA Told ==
    ASSUME NEW s \in Seq(Messages), NEW t \in Seq(Messages)
    PROVE  /\ s \o t \in Seq(Messages)
           /\ PromptsOf(s \o t) = PromptsOf(s) \cup PromptsOf(t)
           /\ ToldOnce(s) /\ ToldOnce(t) /\ PromptsOf(s) \cap PromptsOf(t) = {} => ToldOnce(s \o t)
           /\ Promptless(s) /\ Promptless(t) => Promptless(s \o t)
           /\ Promptless(t) /\ (EndsQuietly(s) \/ t # <<>>) => EndsQuietly(s \o t)
<1> DEFINE r == s \o t
<1>0. Len(s) \in Nat /\ Len(t) \in Nat
  BY LenProperties
<1>1. /\ r \in Seq(Messages) /\ Len(r) = Len(s) + Len(t)
      /\ \A i \in 1 .. Len(s) + Len(t) : r[i] = IF i <= Len(s) THEN s[i] ELSE t[i - Len(s)]
  BY ConcatProperties
<1> HIDE DEF r
<1>2. \A i \in 1 .. Len(s) : i \in 1 .. Len(r) /\ r[i] = s[i]
  BY <1>0, <1>1
<1>3. \A i \in 1 .. Len(t) : i + Len(s) \in 1 .. Len(r) /\ r[i + Len(s)] = t[i]
  <2> TAKE i \in 1 .. Len(t)
  <2>1. /\ i + Len(s) \in 1 .. Len(s) + Len(t)
        /\ ~(i + Len(s) <= Len(s)) /\ (i + Len(s)) - Len(s) = i
    BY <1>0
  <2> QED BY <1>1, <2>1
<1>4. \A i \in 1 .. Len(r) :
        \/ i \in 1 .. Len(s) /\ r[i] = s[i]
        \/ i \notin 1 .. Len(s) /\ i - Len(s) \in 1 .. Len(t) /\ r[i] = t[i - Len(s)]
  BY <1>0, <1>1
<1>5. PromptsOf(r) = PromptsOf(s) \cup PromptsOf(t)
  <2>1. PromptsOf(r) \subseteq PromptsOf(s) \cup PromptsOf(t)
    BY <1>4 DEF PromptsOf
  <2>2. PromptsOf(s) \subseteq PromptsOf(r)
    BY <1>2 DEF PromptsOf
  <2>3. PromptsOf(t) \subseteq PromptsOf(r)
    BY <1>3 DEF PromptsOf
  <2> QED BY <2>1, <2>2, <2>3
<1>6. ASSUME ToldOnce(s), ToldOnce(t), PromptsOf(s) \cap PromptsOf(t) = {} PROVE ToldOnce(r)
  <2> SUFFICES ASSUME NEW i \in 1 .. Len(r), NEW j \in 1 .. Len(r),
                      IsPrompt(r[i]), IsPrompt(r[j]), r[i].id = r[j].id
               PROVE  i = j
    BY DEF ToldOnce
  <2>0. i \in Nat /\ j \in Nat
    OBVIOUS
  <2>1. CASE i \in 1 .. Len(s) /\ j \in 1 .. Len(s)
    BY <1>2, <1>6, <2>1 DEF ToldOnce
  <2>2. CASE i \notin 1 .. Len(s) /\ j \notin 1 .. Len(s)
    <3>1. /\ i - Len(s) \in 1 .. Len(t) /\ r[i] = t[i - Len(s)]
          /\ j - Len(s) \in 1 .. Len(t) /\ r[j] = t[j - Len(s)]
      BY <1>4, <2>2
    <3>2. i - Len(s) = j - Len(s)
      BY <1>6, <3>1 DEF ToldOnce
    <3> QED BY <1>0, <2>0, <3>2
  <2>3. CASE i \in 1 .. Len(s) /\ j \notin 1 .. Len(s)
    <3>1. j - Len(s) \in 1 .. Len(t) /\ r[j] = t[j - Len(s)] /\ r[i] = s[i]
      BY <1>4, <2>3
    <3>2. r[i].id \in PromptsOf(s) /\ r[j].id \in PromptsOf(t)
      BY <2>3, <3>1 DEF PromptsOf
    <3> QED BY <1>6, <3>2
  <2>4. CASE i \notin 1 .. Len(s) /\ j \in 1 .. Len(s)
    <3>1. i - Len(s) \in 1 .. Len(t) /\ r[i] = t[i - Len(s)] /\ r[j] = s[j]
      BY <1>4, <2>4
    <3>2. r[j].id \in PromptsOf(s) /\ r[i].id \in PromptsOf(t)
      BY <2>4, <3>1 DEF PromptsOf
    <3> QED BY <1>6, <3>2
  <2> QED BY <2>1, <2>2, <2>3, <2>4
<1>7. Promptless(s) /\ Promptless(t) => Promptless(r)
  BY <1>4 DEF Promptless
<1>8. ASSUME Promptless(t), EndsQuietly(s) \/ t # <<>> PROVE EndsQuietly(r)
  <2>1. CASE t = <<>>
    <3>1. r = s
      BY <2>1, ConcatEmptySeq DEF r
    <3> QED BY <1>8, <2>1, <3>1
  <2>2. CASE t # <<>>
    <3>1. Len(t) >= 1
      BY <1>0, <2>2, EmptySeq
    <3>2. Len(r) \in 1 .. Len(r) /\ Len(r) \notin 1 .. Len(s)
      BY <1>0, <1>1, <3>1
    <3>3. Len(r) - Len(s) \in 1 .. Len(t) /\ r[Len(r)] = t[Len(r) - Len(s)]
      BY <1>4, <3>2
    <3>4. r # <<>>
      BY <1>0, <1>1, <3>1
    <3> QED BY <1>8, <3>3, <3>4 DEF Promptless, EndsQuietly
  <2> QED BY <2>1, <2>2
<1> QED BY <1>1, <1>5, <1>6, <1>7, <1>8 DEF r

\* A failed answer is the last message; without it the same prompts are told.
LEMMA Retold ==
    ASSUME NEW s \in Seq(Messages), EndsQuietly(s)
    PROVE  /\ Front(s) \in Seq(Messages)
           /\ PromptsOf(Front(s)) = PromptsOf(s)
           /\ ToldOnce(s) => ToldOnce(Front(s))
<1> DEFINE r == Front(s)
<1>0. Len(s) \in Nat /\ Len(s) >= 1 /\ s \in [1 .. Len(s) -> Messages]
  BY LenProperties, EmptySeq DEF EndsQuietly
<1>1. /\ r \in Seq(Messages) /\ Len(r) = Len(s) - 1
      /\ \A i \in 1 .. Len(s) - 1 : r[i] = s[i]
  <2>1. \A i \in 1 .. Len(s) - 1 : s[i] \in Messages
    BY <1>0
  <2>2. 1 \in Int /\ Len(s) - 1 \in Int
    BY <1>0
  <2>3. /\ SubSeq(s, 1, Len(s) - 1) \in Seq(Messages)
        /\ Len(SubSeq(s, 1, Len(s) - 1)) = IF 1 <= Len(s) - 1 THEN (Len(s) - 1) - 1 + 1 ELSE 0
        /\ \A i \in 1 .. (Len(s) - 1) - 1 + 1 : SubSeq(s, 1, Len(s) - 1)[i] = s[1 + i - 1]
    BY <2>1, <2>2, SubSeqProperties
  <2> QED BY <1>0, <2>3 DEF Front
<1> HIDE DEF r
<1>2. \A i \in 1 .. Len(r) : i \in 1 .. Len(s) /\ r[i] = s[i]
  BY <1>0, <1>1
<1>3. \A i \in 1 .. Len(s) : i \in 1 .. Len(r) \/ ~IsPrompt(s[i])
  <2> TAKE i \in 1 .. Len(s)
  <2>0. Len(r) = Len(s) - 1
    BY <1>1
  <2>1. i \in 1 .. Len(r) \/ i = Len(s)
    <3>1. \A n \in Nat : \A k \in 1 .. n : k \in 1 .. n - 1 \/ k = n
      OBVIOUS
    <3>2. Len(s) \in Nat
      BY <1>0
    <3> QED BY <2>0, <3>1, <3>2
  <2> QED BY <2>1 DEF EndsQuietly
<1>4. PromptsOf(r) \subseteq PromptsOf(s)
  BY <1>2 DEF PromptsOf
<1>5. PromptsOf(s) \subseteq PromptsOf(r)
  BY <1>2, <1>3 DEF PromptsOf
<1>6. ToldOnce(s) => ToldOnce(r)
  BY <1>2 DEF ToldOnce
<1> QED BY <1>1, <1>4, <1>5, <1>6 DEF r


LEMMA TakenOut ==
    ASSUME NEW E, NEW s \in Seq(E), NEW i \in 1 .. Len(s), Numbered(s)
    PROVE  /\ RemoveAt(s, i) \in Seq(E)
           /\ Numbered(RemoveAt(s, i))
           /\ NumbersOf(RemoveAt(s, i)) = NumbersOf(s) \ {s[i].id}
           /\ EntriesOf(RemoveAt(s, i)) \subseteq EntriesOf(s)
<1> DEFINE a == SubSeq(s, 1, i - 1)
           b == SubSeq(s, i + 1, Len(s))
           r == a \o b
<1>0. Len(s) \in Nat /\ i \in Nat /\ i >= 1 /\ i <= Len(s) /\ \A k \in 1 .. Len(s) : s[k] \in E
  BY LenProperties, ElementOfSeq
<1>1. a \in Seq(E) /\ Len(a) = i - 1 /\ \A k \in 1 .. i - 1 : a[k] = s[k]
  <2>1. \A k \in 1 .. i - 1 : s[k] \in E
    BY <1>0
  <2>2. 1 \in Int /\ i - 1 \in Int
    BY <1>0
  <2>3. /\ a \in Seq(E) /\ Len(a) = IF 1 <= i - 1 THEN (i - 1) - 1 + 1 ELSE 0
        /\ \A k \in 1 .. (i - 1) - 1 + 1 : a[k] = s[1 + k - 1]
    BY <2>1, <2>2, SubSeqProperties
  <2> QED BY <1>0, <2>3
<1>2. b \in Seq(E) /\ Len(b) = Len(s) - i /\ \A k \in 1 .. Len(s) - i : b[k] = s[i + k]
  <2>1. \A k \in i + 1 .. Len(s) : s[k] \in E
    BY <1>0
  <2>2. i + 1 \in Int /\ Len(s) \in Int
    BY <1>0
  <2>3. /\ b \in Seq(E) /\ Len(b) = IF i + 1 <= Len(s) THEN Len(s) - (i + 1) + 1 ELSE 0
        /\ \A k \in 1 .. Len(s) - (i + 1) + 1 : b[k] = s[(i + 1) + k - 1]
    BY <2>1, <2>2, SubSeqProperties
  <2> QED BY <1>0, <2>3
<1> HIDE DEF a, b
<1>3. /\ r \in Seq(E) /\ Len(r) = Len(a) + Len(b)
      /\ \A k \in 1 .. Len(a) + Len(b) : r[k] = IF k <= Len(a) THEN a[k] ELSE b[k - Len(a)]
  BY <1>1, <1>2, ConcatProperties
<1> HIDE DEF r
<1>4. Len(r) = Len(s) - 1
  BY <1>0, <1>1, <1>2, <1>3
<1>5. \A k \in 1 .. Len(r) : r[k] = IF k < i THEN s[k] ELSE s[k + 1]
  <2> TAKE k \in 1 .. Len(r)
  <2>1. CASE k < i
    <3>1. k \in 1 .. i - 1 /\ k \in 1 .. Len(a) + Len(b) /\ k <= Len(a)
      BY <1>0, <1>1, <1>3, <2>1
    <3> QED BY <1>1, <1>3, <2>1, <3>1
  <2>2. CASE ~(k < i)
    <3>1. /\ k \in 1 .. Len(a) + Len(b) /\ ~(k <= Len(a)) /\ k - Len(a) \in 1 .. Len(s) - i
          /\ i + (k - Len(a)) = k + 1
      BY <1>0, <1>1, <1>2, <1>3, <1>4, <2>2
    <3> QED BY <1>2, <1>3, <2>2, <3>1
  <2> QED BY <2>1, <2>2
<1>6. \A k \in 1 .. Len(r) : \E j \in 1 .. Len(s) : j # i /\ r[k] = s[j] /\ j = IF k < i THEN k ELSE k + 1
  <2> TAKE k \in 1 .. Len(r)
  <2>1. CASE k < i
    BY <1>0, <1>4, <1>5, <2>1
  <2>2. CASE ~(k < i)
    <3>1. k + 1 \in 1 .. Len(s) /\ k + 1 # i
      BY <1>0, <1>4, <2>2
    <3> QED BY <1>5, <2>2, <3>1
  <2> QED BY <2>1, <2>2
<1>7. \A j \in 1 .. Len(s) : j # i => \E k \in 1 .. Len(r) : r[k] = s[j]
  <2> TAKE j \in 1 .. Len(s)
  <2>1. CASE j < i
    <3>1. j \in 1 .. Len(r)
      BY <1>0, <1>4, <2>1
    <3> QED BY <1>5, <2>1, <3>1
  <2>2. CASE j > i
    <3>1. j - 1 \in 1 .. Len(r) /\ ~(j - 1 < i) /\ (j - 1) + 1 = j
      BY <1>0, <1>4, <2>2
    <3> QED BY <1>5, <3>1
  <2> QED BY <1>0, <2>1, <2>2
<1>8. Numbered(r)
  <2> SUFFICES ASSUME NEW k \in 1 .. Len(r), NEW l \in 1 .. Len(r), r[k].id = r[l].id PROVE k = l
    BY DEF Numbered
  <2>1. PICK j \in 1 .. Len(s) : r[k] = s[j] /\ j = IF k < i THEN k ELSE k + 1
    BY <1>6
  <2>2. PICK m \in 1 .. Len(s) : r[l] = s[m] /\ m = IF l < i THEN l ELSE l + 1
    BY <1>6
  <2>3. j = m
    BY <2>1, <2>2 DEF Numbered
  <2> QED BY <1>0, <2>1, <2>2, <2>3
<1>9. NumbersOf(r) \subseteq NumbersOf(s) \ {s[i].id}
  <2> SUFFICES ASSUME NEW k \in 1 .. Len(r) PROVE r[k].id \in NumbersOf(s) \ {s[i].id}
    BY DEF NumbersOf
  <2>1. PICK j \in 1 .. Len(s) : j # i /\ r[k] = s[j]
    BY <1>6
  <2> QED BY <2>1 DEF Numbered, NumbersOf
<1>10. NumbersOf(s) \ {s[i].id} \subseteq NumbersOf(r)
  BY <1>7 DEF NumbersOf
<1>11. EntriesOf(r) \subseteq EntriesOf(s)
  BY <1>6 DEF EntriesOf
<1> QED BY <1>3, <1>8, <1>9, <1>10, <1>11 DEF r, a, b, RemoveAt

LEMMA PutLast ==
    ASSUME NEW E, NEW s \in Seq(E), NEW e \in E
    PROVE  /\ Append(s, e) \in Seq(E)
           /\ NumbersOf(Append(s, e)) = NumbersOf(s) \cup {e.id}
           /\ Numbered(s) /\ e.id \notin NumbersOf(s) => Numbered(Append(s, e))
           /\ EntriesOf(Append(s, e)) \subseteq EntriesOf(s) \cup {e}
<1> DEFINE r == Append(s, e)
<1>0. Len(s) \in Nat
  BY LenProperties
<1>1. /\ r \in Seq(E) /\ Len(r) = Len(s) + 1 /\ r[Len(s) + 1] = e
      /\ \A i \in 1 .. Len(s) : r[i] = s[i]
  BY AppendProperties
<1> HIDE DEF r
<1>2. \A i \in 1 .. Len(s) : i \in 1 .. Len(r) /\ r[i] = s[i]
  BY <1>0, <1>1
<1>3. Len(s) + 1 \in 1 .. Len(r)
  BY <1>0, <1>1
<1>4. \A i \in 1 .. Len(r) : (i \in 1 .. Len(s) /\ r[i] = s[i]) \/ (i = Len(s) + 1 /\ r[i] = e)
  <2> TAKE i \in 1 .. Len(r)
  <2>1. i \in 1 .. Len(s) \/ i = Len(s) + 1
    BY <1>0, <1>1
  <2> QED BY <1>1, <1>2, <2>1
<1>5. NumbersOf(r) \subseteq NumbersOf(s) \cup {e.id}
  BY <1>4 DEF NumbersOf
<1>6. NumbersOf(s) \cup {e.id} \subseteq NumbersOf(r)
  BY <1>1, <1>2, <1>3 DEF NumbersOf
<1>7. ASSUME Numbered(s), e.id \notin NumbersOf(s) PROVE Numbered(r)
  BY <1>4, <1>7 DEF Numbered, NumbersOf
<1>8. EntriesOf(r) \subseteq EntriesOf(s) \cup {e}
  BY <1>4 DEF EntriesOf
<1> QED BY <1>1, <1>5, <1>6, <1>7, <1>8 DEF r

\* The first entry of a queue leaves it, where there is one.
LEMMA TakenFirst ==
    ASSUME NEW E, NEW s \in Seq(E), Numbered(s)
    PROVE  /\ SubSeq(s, 2, Len(s)) \in Seq(E)
           /\ Numbered(SubSeq(s, 2, Len(s)))
           /\ s = <<>> => SubSeq(s, 2, Len(s)) = <<>>
           /\ s # <<>> => NumbersOf(SubSeq(s, 2, Len(s))) = NumbersOf(s) \ {s[1].id}
           /\ EntriesOf(SubSeq(s, 2, Len(s))) \subseteq EntriesOf(s)
<1>0. Len(s) \in Nat
  BY LenProperties
<1>1. CASE s = <<>>
  <2>1. SubSeq(s, 2, Len(s)) = <<>>
    BY <1>1, SubSeqEmpty
  <2> QED BY <1>1, <2>1
<1>2. CASE s # <<>>
  <2>1. 1 \in 1 .. Len(s)
    BY <1>0, <1>2, EmptySeq
  <2>2. SubSeq(s, 1, 0) = <<>>
    BY SubSeqEmpty
  <2>3. \A k \in 2 .. Len(s) : s[k] \in E
    BY <1>0, ElementOfSeq
  <2>4. SubSeq(s, 2, Len(s)) \in Seq(E)
    BY <1>0, <2>3, SubSeqProperties
  <2>5. RemoveAt(s, 1) = SubSeq(s, 2, Len(s))
    BY <2>2, <2>4, ConcatEmptySeq DEF RemoveAt
  <2>6. /\ RemoveAt(s, 1) \in Seq(E) /\ Numbered(RemoveAt(s, 1))
        /\ NumbersOf(RemoveAt(s, 1)) = NumbersOf(s) \ {s[1].id}
        /\ EntriesOf(RemoveAt(s, 1)) \subseteq EntriesOf(s)
    BY <2>1, TakenOut
  <2> QED BY <1>2, <2>5, <2>6
<1> QED BY <1>1, <1>2

\* Entries that keep their numbers.
LEMMA SameNumbers ==
    ASSUME NEW E, NEW s \in Seq(E), NEW t \in Seq(E), Len(t) = Len(s), Numbered(s),
           \A k \in 1 .. Len(s) : t[k].id = s[k].id
    PROVE  Numbered(t) /\ NumbersOf(t) = NumbersOf(s)
BY DEF Numbered, NumbersOf

\* The messages of a run.
LEMMA MessagesTyped ==
    /\ \A n \in Nat : User(n) \in Messages
    /\ Note \in Messages
    /\ \A n \in Nat, cs \in Seq(Calls), stop \in Failures \cup Texts \cup {"calls", "length"} :
          Assistant(n, cs, stop) \in Messages
    /\ \A c \in Calls, how \in {"done", "skipped", "truncated"} : Result(c, how) \in Messages
<1>1. <<>> \in Seq(Calls) /\ 0 \in Nat
  OBVIOUS
<1>2. \A n \in Nat : User(n) \in Messages
  BY <1>1 DEF User, Message, Messages
<1>3. Note \in Messages
  BY <1>1 DEF Note, Message, Messages
<1>4. ASSUME NEW n \in Nat, NEW cs \in Seq(Calls), NEW stop \in Failures \cup Texts \cup {"calls", "length"}
      PROVE  Assistant(n, cs, stop) \in Messages
  <2>1. stop \in {"stop", "thoughts", "empty", "calls", "length", "error", "overflow", "refused", "aborted"}
    BY DEF Failures, Texts
  <2> QED BY <2>1 DEF Assistant, Message, Messages
<1>5. ASSUME NEW c \in Calls, NEW how \in {"done", "skipped", "truncated"} PROVE Result(c, how) \in Messages
  <2>1. <<c>> \in Seq(Calls)
    OBVIOUS
  <2> QED BY <1>1, <2>1 DEF Result, Message, Messages
<1> QED BY <1>2, <1>3, <1>4, <1>5

LEMMA CallsTyped ==
    ASSUME NEW n \in Nat, requests \in Nat
    PROVE  CallsOf(n) \in Seq(Calls)
<1>1. \A k \in 1 .. n : <<requests, k>> \in Calls
  BY DEF Calls
<1> QED BY <1>1 DEF CallsOf

LEMMA ResultsTyped ==
    ASSUME NEW cs \in Seq(Calls), NEW how \in {"done", "skipped", "truncated"}
    PROVE  /\ Every(cs, how) \in Seq(Messages)
           /\ Promptless(Every(cs, how))
<1>1. \A k \in 1 .. Len(cs) : cs[k] \in Calls
  BY ElementOfSeq
<1>2. \A k \in 1 .. Len(cs) : Result(cs[k], how) \in Messages
  BY <1>1, MessagesTyped
<1>3. Len(cs) \in Nat /\ DOMAIN cs = 1 .. Len(cs)
  BY LenProperties
<1>4. Every(cs, how) = [k \in 1 .. Len(cs) |-> Result(cs[k], how)]
  BY <1>3 DEF Every
<1>5. Every(cs, how) \in Seq(Messages) /\ Len(Every(cs, how)) = Len(cs)
  BY <1>2, <1>3, <1>4
<1>6. \A k \in 1 .. Len(cs) : ~IsPrompt(Every(cs, how)[k])
  BY <1>4 DEF IsPrompt, Result, Message
<1> QED BY <1>5, <1>6 DEF Promptless

LEMMA PartsTyped ==
    ASSUME NEW cs \in Seq(Calls), NEW n \in Nat, n <= Len(cs)
    PROVE  SubSeq(cs, 1, n) \in Seq(Calls) /\ SubSeq(cs, n + 1, Len(cs)) \in Seq(Calls)
<1>1. Len(cs) \in Nat /\ \A k \in 1 .. Len(cs) : cs[k] \in Calls
  BY LenProperties, ElementOfSeq
<1>2. (\A k \in 1 .. n : cs[k] \in Calls) /\ (\A k \in n + 1 .. Len(cs) : cs[k] \in Calls)
  BY <1>1
<1>3. 1 \in Int /\ n \in Int /\ n + 1 \in Int /\ Len(cs) \in Int
  BY <1>1
<1> QED BY <1>2, <1>3, SubSeqProperties

\* The run takes one prompt from a queue, if it holds one.
LEMMA LeastOfTwo ==
    ASSUME NEW m \in Nat, NEW n \in Nat
    PROVE  Min({m, n}) = IF m <= n THEN m ELSE n
<1>1. \E x \in {m, n} : \A y \in {m, n} : x <= y
  OBVIOUS
<1>2. Min({m, n}) \in {m, n} /\ \A y \in {m, n} : Min({m, n}) <= y
  BY <1>1 DEF Min
<1> QED BY <1>2

LEMMA Delivered ==
    ASSUME NEW q \in Queues, queue[q] \in Seq(Entry)
    PROVE  /\ Injected(Taken(q)) \in Seq(Messages)
           /\ ToldOnce(Injected(Taken(q)))
           /\ PromptsOf(Injected(Taken(q))) = IF queue[q] = <<>> THEN {} ELSE {queue[q][1].id}
<1> DEFINE s == queue[q]
           r == Injected(Taken(q))
<1>0. Len(s) \in Nat
  BY LenProperties
<1>1. CASE s = <<>>
  <2>1. Min({1, Len(s)}) = 0
    BY <1>0, <1>1, LeastOfTwo, EmptySeq
  <2>2. Taken(q) = <<>>
    <3>1. Taken(q) = [i \in 1 .. 0 |-> queue[q][i].id]
      BY <2>1 DEF Taken
    <3>2. Taken(q) \in Seq(Nat) /\ Len(Taken(q)) = 0
      BY <3>1
    <3> QED BY <3>2, EmptySeq
  <2>3. r = <<>>
    BY <2>2 DEF Injected
  <2> QED BY <1>1, <2>3, Quiet, Silence
<1>2. CASE s # <<>>
  <2>1. Len(s) >= 1
    BY <1>0, <1>2, EmptySeq
  <2>2. Min({1, Len(s)}) = 1
    BY <1>0, <2>1, LeastOfTwo
  <2>3. Taken(q) = <<s[1].id>>
    <3>1. Taken(q) = [i \in 1 .. 1 |-> queue[q][i].id]
      BY <2>2 DEF Taken
    <3>2. 1 .. 1 = {1}
      OBVIOUS
    <3> QED BY <3>1, <3>2
  <2>4. r = <<User(s[1].id)>>
    BY <2>3 DEF Injected
  <2>5. s[1].id \in Nat /\ s[1].id # 0
    <3>1. s[1] \in Entry
      BY <2>1, <1>0, ElementOfSeq
    <3> QED BY <3>1, PromptsAssumption DEF Entry, Prompts
  <2>6. r \in Seq(Messages) /\ Len(r) = 1 /\ r[1] = User(s[1].id)
    BY <2>4, <2>5, MessagesTyped
  <2>7. IsPrompt(r[1]) /\ r[1].id = s[1].id
    BY <2>5, <2>6 DEF IsPrompt, User, Message
  <2> HIDE DEF r, s
  <2>8. 1 .. Len(r) = {1}
    BY <2>6
  <2>9. ToldOnce(r)
    BY <2>8 DEF ToldOnce
  <2>10. PromptsOf(r) = {s[1].id}
    BY <2>7, <2>8 DEF PromptsOf
  <2> QED BY <1>2, <2>6, <2>9, <2>10 DEF r, s
<1> QED BY <1>1, <1>2

-----------------------------------------------------------------------------
(* Where the prompts are.                                                    *)

QueueTyped ==
    /\ queue \in [Queues -> Seq(Entry)]
    /\ \A q \in Queues : Numbered(queue[q])
    /\ moving \subseteq {e \in Entry : e.version < MaxVersion}
    /\ \A d, e \in moving : d.id = e.id => d = e
    /\ seen \subseteq Listed
    /\ sent \in 0 .. MaxPrompts

SpeechTyped ==
    /\ fresh \in Seq(Messages) /\ pending \in Seq(Messages) /\ results \in Seq(Messages)
    /\ calls \in Seq(Calls)
    /\ ToldOnce(fresh) /\ ToldOnce(pending) /\ Promptless(results)

\* Every prompt up to n is in exactly one of six sets.
Split(n, w, s, f, m, t, p) ==
    /\ w \cup s \cup f \cup m \cup t \cup p = 1 .. n
    /\ w \cap s = {} /\ w \cap f = {} /\ w \cap m = {} /\ w \cap t = {} /\ w \cap p = {}
    /\ s \cap f = {} /\ s \cap m = {} /\ s \cap t = {} /\ s \cap p = {}
    /\ f \cap m = {} /\ f \cap t = {} /\ f \cap p = {}
    /\ m \cap t = {} /\ m \cap p = {}
    /\ t \cap p = {}

Places ==
    Split(sent, withdrawn, NumbersOf(queue["steer"]), NumbersOf(queue["follow"]), IdsOf(moving),
          PromptsOf(fresh), PromptsOf(pending))

\* A check that sends a failed answer again takes it out of the report: while it
\* may do so, the last message is no prompt.
QuietEnd ==
    pc \in {"called", "executing", "settling"} \/ (pc = "checking" /\ check.at # "prompt") => EndsQuietly(fresh)

OnlyCancelled == pc = "ended" /\ pending # <<>> => cancelled

PromptInv == QueueTyped /\ SpeechTyped /\ Places /\ QuietEnd /\ OnlyCancelled

LEMMA QueueSet ==
    ASSUME QueueTyped, NEW q \in Queues, NEW s \in Seq(Entry), Numbered(s), queue' = [queue EXCEPT ![q] = s]
    PROVE  /\ queue' \in [Queues -> Seq(Entry)]
           /\ \A o \in Queues : Numbered(queue'[o])
           /\ queue'[q] = s
           /\ \A o \in Queues : o # q => queue'[o] = queue[o]
BY DEF QueueTyped

\* Prompts that leave a queue and are put in one other place, or none that leave it.
LEMMA PlacesAfterLeaving ==
    ASSUME QueueTyped, Places, NEW q \in Queues, NEW s \in Seq(Entry), queue' = [queue EXCEPT ![q] = s],
           NEW W, NEW M, NEW P, W \cap M = {}, W \cap P = {}, M \cap P = {},
           W \cup M \cup P \subseteq NumbersOf(queue[q]),
           NumbersOf(s) = NumbersOf(queue[q]) \ (W \cup M \cup P),
           sent' = sent, withdrawn' = withdrawn \cup W, IdsOf(moving') = IdsOf(moving) \cup M,
           PromptsOf(fresh') = PromptsOf(fresh), PromptsOf(pending') = PromptsOf(pending) \cup P
    PROVE  Places'
<1>1. CASE q = "steer"
  <2>1. queue'["steer"] = s /\ queue'["follow"] = queue["follow"]
    BY <1>1 DEF QueueTyped, Queues
  <2> QED BY <1>1, <2>1 DEF Places, Split
<1>2. CASE q = "follow"
  <2>1. queue'["follow"] = s /\ queue'["steer"] = queue["steer"]
    BY <1>2 DEF QueueTyped, Queues
  <2> QED BY <1>2, <2>1 DEF Places, Split
<1> QED BY <1>1, <1>2 DEF Queues

\* A prompt that comes into a queue, new or on its way between the two.
LEMMA PlacesAfterComing ==
    ASSUME QueueTyped, Places, NEW q \in Queues, NEW s \in Seq(Entry), queue' = [queue EXCEPT ![q] = s],
           NEW n, n \notin NumbersOf(queue[q]), NumbersOf(s) = NumbersOf(queue[q]) \cup {n},
           \/ /\ n = sent + 1 /\ sent' = sent + 1 /\ IdsOf(moving') = IdsOf(moving)
           \/ /\ n \in IdsOf(moving) /\ IdsOf(moving') = IdsOf(moving) \ {n}
              /\ sent' = sent,
           withdrawn' = withdrawn, fresh' = fresh, pending' = pending
    PROVE  Places'
<1>0. sent \in Nat /\ 1 .. (sent + 1) = (1 .. sent) \cup {sent + 1} /\ sent + 1 \notin 1 .. sent
  BY PromptsAssumption DEF QueueTyped
<1>1. CASE q = "steer"
  <2>1. queue'["steer"] = s /\ queue'["follow"] = queue["follow"]
    BY <1>1 DEF QueueTyped, Queues
  <2>2. CASE n = sent + 1 /\ sent' = sent + 1 /\ IdsOf(moving') = IdsOf(moving)
    BY <1>0, <1>1, <2>1, <2>2 DEF Places, Split
  <2>3. CASE n \in IdsOf(moving) /\ IdsOf(moving') = IdsOf(moving) \ {n} /\ sent' = sent
    BY <1>1, <2>1, <2>3 DEF Places, Split
  <2> QED BY <2>2, <2>3
<1>2. CASE q = "follow"
  <2>1. queue'["follow"] = s /\ queue'["steer"] = queue["steer"]
    BY <1>2 DEF QueueTyped, Queues
  <2>2. CASE n = sent + 1 /\ sent' = sent + 1 /\ IdsOf(moving') = IdsOf(moving)
    BY <1>0, <1>2, <2>1, <2>2 DEF Places, Split
  <2>3. CASE n \in IdsOf(moving) /\ IdsOf(moving') = IdsOf(moving) \ {n} /\ sent' = sent
    BY <1>2, <2>1, <2>3 DEF Places, Split
  <2> QED BY <2>2, <2>3
<1> QED BY <1>1, <1>2 DEF Queues

\* What a client can name.
LEMMA RequestsTyped ==
    ASSUME QueueTyped, NEW r \in Requests
    PROVE  r \in Listed
<1>1. ASSUME NEW q \in Queues, NEW e \in List(q) PROVE Noted(e, q) \in Listed
  <2>1. queue[q] \in Seq(Entry)
    BY DEF QueueTyped
  <2>2. PICK i \in DOMAIN queue[q] : e = queue[q][i]
    BY DEF List, ToSet
  <2>3. e \in Entry
    BY <2>1, <2>2
  <2> QED BY <2>3 DEF Noted, Entry, Listed
<1> QED BY <1>1 DEF Requests, QueueTyped

LEMMA FoundTyped ==
    ASSUME QueueTyped, NEW r \in Listed, NEW i, Found(r, i)
    PROVE  /\ r.from \in Queues /\ queue[r.from] \in Seq(Entry) /\ Numbered(queue[r.from])
           /\ i \in 1 .. Len(queue[r.from]) /\ queue[r.from][i] \in Entry
           /\ queue[r.from][i].id = r.id /\ r.id \in NumbersOf(queue[r.from])
<1>1. r.from \in Queues
  BY DEF Listed
<1>2. queue[r.from] \in Seq(Entry) /\ Numbered(queue[r.from])
  BY <1>1 DEF QueueTyped
<1>3. i \in DOMAIN queue[r.from] /\ queue[r.from][i].id = r.id
  BY DEF Found
<1>4. i \in 1 .. Len(queue[r.from]) /\ queue[r.from][i] \in Entry
  BY <1>2, <1>3
<1> QED BY <1>1, <1>2, <1>3, <1>4 DEF NumbersOf

LEMMA EntriesTyped ==
    ASSUME NEW e \in Entry
    PROVE  /\ e.version < MaxVersion => Bumped(e) \in Entry
           /\ Bumped(e).id = e.id
           /\ Reworded(e) \in Entry /\ Reworded(e).id = e.id /\ Reworded(e).version = e.version
<1>1. MaxVersion \in Nat
  BY PromptsAssumption
<1>2. e.version \in 0 .. MaxVersion /\ e.text \in Nat
  BY DEF Entry
<1>3. e.version < MaxVersion => e.version + 1 \in 0 .. MaxVersion
  BY <1>1, <1>2
<1>4. e.version < MaxVersion => Bumped(e) \in Entry
  BY <1>3 DEF Bumped, Entry
<1>5. Bumped(e).id = e.id
  BY DEF Bumped, Entry
<1>6. Reworded(e) \in Entry /\ Reworded(e).id = e.id /\ Reworded(e).version = e.version
  BY <1>2 DEF Reworded, Entry
<1> QED BY <1>4, <1>5, <1>6

LEMMA EnqueueKeeps ==
    ASSUME QueueTyped, Places, NEW q \in Queues, Enqueue(q), UNCHANGED <<fresh, pending>>
    PROVE  QueueTyped' /\ Places'
<1> DEFINE e == [id |-> sent + 1, version |-> 0, text |-> 0]
           s == Append(queue[q], e)
<1>0. /\ sent \in Nat /\ sent < MaxPrompts /\ sent' = sent + 1 /\ UNCHANGED <<moving, seen, withdrawn>>
      /\ queue' = [queue EXCEPT ![q] = s]
  BY PromptsAssumption DEF Enqueue, QueueTyped
<1>1. e \in Entry /\ e.id = sent + 1
  BY <1>0, PromptsAssumption DEF Entry, Prompts
<1>2. queue[q] \in Seq(Entry) /\ Numbered(queue[q])
  BY DEF QueueTyped
<1>3. NumbersOf(queue[q]) \subseteq 1 .. sent
  BY DEF Places, Split, Queues
<1>4. e.id \notin NumbersOf(queue[q])
  BY <1>0, <1>1, <1>3
<1>5. s \in Seq(Entry) /\ Numbered(s) /\ NumbersOf(s) = NumbersOf(queue[q]) \cup {sent + 1}
  BY <1>1, <1>2, <1>4, PutLast
<1> HIDE DEF e, s
<1>6. QueueTyped'
  <2>1. /\ queue' \in [Queues -> Seq(Entry)]
        /\ \A o \in Queues : Numbered(queue'[o])
    BY <1>0, <1>5, QueueSet
  <2>2. sent' \in 0 .. MaxPrompts
    BY <1>0, PromptsAssumption
  <2> QED BY <1>0, <2>1, <2>2 DEF QueueTyped
<1>7. Places'
  BY <1>0, <1>1, <1>4, <1>5, PlacesAfterComing
<1> QED BY <1>6, <1>7

LEMMA LookKeeps ==
    ASSUME QueueTyped, Places, Look, UNCHANGED <<fresh, pending>>
    PROVE  QueueTyped' /\ Places'
<1>1. PICK q \in Queues : \E e \in List(q) : seen' = {Noted(e, q)}
  BY DEF Look
<1>2. PICK e \in List(q) : seen' = {Noted(e, q)}
  BY <1>1
<1>3. Noted(e, q) \in Requests
  BY DEF Requests
<1>4. seen' \subseteq Listed
  BY <1>2, <1>3, RequestsTyped
<1>5. UNCHANGED <<queue, moving, sent, withdrawn>>
  BY DEF Look
<1>6. QueueTyped'
  BY <1>4, <1>5 DEF QueueTyped
<1>7. Places'
  BY <1>5 DEF Places
<1> QED BY <1>6, <1>7

\* An entry gets a new version, in its place or in that of its neighbour.
LEMMA UpdateKeeps ==
    ASSUME QueueTyped, Places, NEW r \in Listed, Update(r), UNCHANGED <<fresh, pending>>
    PROVE  QueueTyped' /\ Places'
<1> DEFINE q == r.from
<1>1. PICK i \in DOMAIN queue[q] :
         /\ Matches(r, i)
         /\ queue' = [queue EXCEPT ![r.from][i] = Bumped(Reworded(queue[r.from][i]))]
  BY DEF Update
<1>2. UNCHANGED <<moving, seen, sent, withdrawn>> /\ r.version < MaxVersion
  BY DEF Update
<1>3. /\ q \in Queues /\ queue[q] \in Seq(Entry) /\ Numbered(queue[q])
      /\ i \in 1 .. Len(queue[q]) /\ queue[q][i] \in Entry
  BY <1>1, FoundTyped DEF Matches
<1> DEFINE e == Bumped(Reworded(queue[q][i]))
           s == [queue[q] EXCEPT ![i] = e]
<1>4. e \in Entry /\ e.id = queue[q][i].id
  <2>1. queue[q][i].version < MaxVersion
    BY <1>1, <1>2 DEF Matches
  <2> QED BY <1>3, <2>1, EntriesTyped
<1>5. queue' = [queue EXCEPT ![q] = s]
  BY <1>1, <1>3 DEF QueueTyped
<1> HIDE DEF e
<1>6. s \in Seq(Entry) /\ Len(s) = Len(queue[q]) /\ s[i] = e /\ \A k \in 1 .. Len(queue[q]) : k # i => s[k] = queue[q][k]
  BY <1>3, <1>4
<1> HIDE DEF s, q
<1>7. Numbered(s) /\ NumbersOf(s) = NumbersOf(queue[q])
  <2>1. \A k \in 1 .. Len(queue[q]) : s[k].id = queue[q][k].id
    BY <1>3, <1>4, <1>6
  <2> QED BY <1>3, <1>6, <2>1, SameNumbers
<1>8. QueueTyped'
  <2>1. queue' \in [Queues -> Seq(Entry)] /\ \A o \in Queues : Numbered(queue'[o])
    BY <1>3, <1>5, <1>6, <1>7, QueueSet
  <2> QED BY <1>2, <2>1 DEF QueueTyped
<1>9. Places'
  <2> DEFINE N == {}
  <2>1. /\ N \cap N = {} /\ N \cup N \cup N \subseteq NumbersOf(queue[q])
        /\ NumbersOf(s) = NumbersOf(queue[q]) \ (N \cup N \cup N)
        /\ withdrawn' = withdrawn \cup N /\ IdsOf(moving') = IdsOf(moving) \cup N
        /\ PromptsOf(pending') = PromptsOf(pending) \cup N /\ PromptsOf(fresh') = PromptsOf(fresh)
        /\ sent' = sent
    BY <1>2, <1>7
  <2> HIDE DEF N
  <2> QED BY <1>3, <1>5, <1>6, <2>1, PlacesAfterLeaving
<1> QED BY <1>8, <1>9

LEMMA MoveKeeps ==
    ASSUME QueueTyped, Places, NEW r \in Listed, Move(r), UNCHANGED <<fresh, pending>>
    PROVE  QueueTyped' /\ Places'
<1> DEFINE q == r.from
<1>1. PICK i \in DOMAIN queue[q], j \in DOMAIN queue[q] :
         /\ Matches(r, i)
         /\ j \in {i - 1, i + 1}
         /\ queue[r.from][j].version < MaxVersion
         /\ queue' = [queue EXCEPT ![r.from][i] = Bumped(queue[r.from][j]),
                                   ![r.from][j] = Bumped(queue[r.from][i])]
  BY DEF Move
<1>2. UNCHANGED <<moving, seen, sent, withdrawn>> /\ r.version < MaxVersion
  BY DEF Move
<1>3. /\ q \in Queues /\ queue[q] \in Seq(Entry) /\ Numbered(queue[q])
      /\ i \in 1 .. Len(queue[q]) /\ queue[q][i] \in Entry
  BY <1>1, FoundTyped DEF Matches
<1>4. j \in 1 .. Len(queue[q]) /\ queue[q][j] \in Entry /\ i # j
  BY <1>1, <1>3
<1> DEFINE d == Bumped(queue[q][i])
           e == Bumped(queue[q][j])
           s == [queue[q] EXCEPT ![i] = e, ![j] = d]
<1>5. d \in Entry /\ d.id = queue[q][i].id /\ e \in Entry /\ e.id = queue[q][j].id
  <2>1. queue[q][i].version < MaxVersion
    BY <1>1, <1>2 DEF Matches
  <2> QED BY <1>1, <1>3, <1>4, <2>1, EntriesTyped
<1>6. queue' = [queue EXCEPT ![q] = s]
  BY <1>1, <1>3, <1>4 DEF QueueTyped
<1> HIDE DEF d, e
<1>7. /\ s \in Seq(Entry) /\ Len(s) = Len(queue[q]) /\ s[i] = e /\ s[j] = d
      /\ \A k \in 1 .. Len(queue[q]) : k # i /\ k # j => s[k] = queue[q][k]
  BY <1>3, <1>4, <1>5
<1> HIDE DEF s, q
<1>8. Numbered(s) /\ NumbersOf(s) = NumbersOf(queue[q])
  <2>1. s[i].id = queue[q][j].id /\ s[j].id = queue[q][i].id
    BY <1>5, <1>7
  <2> DEFINE o == queue[q]
  <2>2. /\ o \in Seq(Entry) /\ Numbered(o) /\ i \in 1 .. Len(o) /\ j \in 1 .. Len(o)
        /\ s \in Seq(Entry) /\ Len(s) = Len(o) /\ s[i].id = o[j].id /\ s[j].id = o[i].id
        /\ \A k \in 1 .. Len(o) : k # i /\ k # j => s[k] = o[k]
    BY <1>3, <1>4, <1>7, <2>1
  <2> HIDE DEF o
  <2>3. Numbered(s) /\ NumbersOf(s) = NumbersOf(o)
    <3>1. \A k \in 1 .. Len(o) : s[k].id = IF k = i THEN o[j].id ELSE IF k = j THEN o[i].id ELSE o[k].id
      BY <2>2
    <3>2. NumbersOf(s) \subseteq NumbersOf(o)
      BY <2>2, <3>1 DEF NumbersOf
    <3>3. NumbersOf(o) \subseteq NumbersOf(s)
      BY <2>2, <3>1 DEF NumbersOf
    <3>4. Numbered(s)
      BY <2>2, <3>1 DEF Numbered
    <3> QED BY <3>2, <3>3, <3>4
  <2> QED BY <2>3 DEF o
<1>9. QueueTyped'
  <2>1. queue' \in [Queues -> Seq(Entry)] /\ \A o \in Queues : Numbered(queue'[o])
    BY <1>3, <1>6, <1>7, <1>8, QueueSet
  <2> QED BY <1>2, <2>1 DEF QueueTyped
<1>10. Places'
  <2> DEFINE N == {}
  <2>1. /\ N \cap N = {} /\ N \cup N \cup N \subseteq NumbersOf(queue[q])
        /\ NumbersOf(s) = NumbersOf(queue[q]) \ (N \cup N \cup N)
        /\ withdrawn' = withdrawn \cup N /\ IdsOf(moving') = IdsOf(moving) \cup N
        /\ PromptsOf(pending') = PromptsOf(pending) \cup N /\ PromptsOf(fresh') = PromptsOf(fresh)
        /\ sent' = sent
    BY <1>2, <1>8
  <2> HIDE DEF N
  <2> QED BY <1>3, <1>6, <1>7, <2>1, PlacesAfterLeaving
<1> QED BY <1>9, <1>10

\* Out of a queue: withdrawn, promoted, or all at once.
LEMMA WithdrawKeeps ==
    ASSUME QueueTyped, Places, NEW r \in Listed, Withdraw(r), UNCHANGED <<fresh, pending>>
    PROVE  QueueTyped' /\ Places'
<1> DEFINE q == r.from
<1>1. PICK i \in DOMAIN queue[q] : Found(r, i) /\ queue' = [queue EXCEPT ![q] = RemoveAt(queue[q], i)]
  BY DEF Withdraw
<1>2. UNCHANGED <<moving, seen, sent>> /\ withdrawn' = withdrawn \cup {r.id}
  BY DEF Withdraw
<1> DEFINE s == RemoveAt(queue[q], i)
<1>3. /\ q \in Queues /\ queue[q] \in Seq(Entry) /\ Numbered(queue[q])
      /\ i \in 1 .. Len(queue[q]) /\ queue[q][i].id = r.id /\ r.id \in NumbersOf(queue[q])
  BY <1>1, FoundTyped
<1>4. s \in Seq(Entry) /\ Numbered(s) /\ NumbersOf(s) = NumbersOf(queue[q]) \ {r.id}
  BY <1>3, TakenOut
<1>5. queue' = [queue EXCEPT ![q] = s]
  BY <1>1
<1> HIDE DEF s, q
<1>6. QueueTyped'
  <2>1. queue' \in [Queues -> Seq(Entry)] /\ \A o \in Queues : Numbered(queue'[o])
    BY <1>3, <1>4, <1>5, QueueSet
  <2> QED BY <1>2, <2>1 DEF QueueTyped
<1>7. Places'
  <2> DEFINE N == {}
             W == {r.id}
  <2>1. /\ W \cap N = {} /\ N \cap N = {} /\ W \cup N \cup N \subseteq NumbersOf(queue[q])
        /\ NumbersOf(s) = NumbersOf(queue[q]) \ (W \cup N \cup N)
        /\ withdrawn' = withdrawn \cup W /\ IdsOf(moving') = IdsOf(moving) \cup N
        /\ PromptsOf(pending') = PromptsOf(pending) \cup N /\ PromptsOf(fresh') = PromptsOf(fresh)
        /\ sent' = sent
    BY <1>2, <1>3, <1>4
  <2> HIDE DEF N, W
  <2> QED BY <1>3, <1>4, <1>5, <2>1, PlacesAfterLeaving
<1> QED BY <1>6, <1>7

LEMMA PromoteKeeps ==
    ASSUME QueueTyped, Places, NEW r \in Listed, Promote(r), UNCHANGED <<fresh, pending>>
    PROVE  QueueTyped' /\ Places'
<1> DEFINE q == "follow"
<1>1. PICK i \in DOMAIN queue[q] :
         /\ Matches(r, i) /\ moving' = moving \cup {queue[q][i]}
         /\ queue' = [queue EXCEPT ![q] = RemoveAt(queue[q], i)]
  BY DEF Promote
<1>2. UNCHANGED <<seen, sent, withdrawn>> /\ r.from = q /\ r.version < MaxVersion
  BY DEF Promote
<1> DEFINE e == queue[q][i]
           s == RemoveAt(queue[q], i)
<1>3. /\ q \in Queues /\ queue[q] \in Seq(Entry) /\ Numbered(queue[q])
      /\ i \in 1 .. Len(queue[q]) /\ e \in Entry /\ e.id = r.id /\ r.id \in NumbersOf(queue[q])
  BY <1>1, <1>2, FoundTyped DEF Matches
<1>4. e.version < MaxVersion
  BY <1>1, <1>2 DEF Matches
<1>5. s \in Seq(Entry) /\ Numbered(s) /\ NumbersOf(s) = NumbersOf(queue[q]) \ {r.id}
  BY <1>3, TakenOut
<1>6. queue' = [queue EXCEPT ![q] = s] /\ moving' = moving \cup {e}
  BY <1>1
<1> HIDE DEF s, e
<1>7. IdsOf(moving') = IdsOf(moving) \cup {r.id}
  BY <1>3, <1>6 DEF IdsOf
<1>8. \A d \in moving : d.id # r.id
  BY <1>3 DEF Places, Split, IdsOf
<1>9. QueueTyped'
  <2>1. queue' \in [Queues -> Seq(Entry)] /\ \A o \in Queues : Numbered(queue'[o])
    BY <1>3, <1>5, <1>6, QueueSet
  <2>2. moving' \subseteq {d \in Entry : d.version < MaxVersion}
    BY <1>3, <1>4, <1>6 DEF QueueTyped
  <2>3. \A c, d \in moving' : c.id = d.id => c = d
    BY <1>3, <1>6, <1>8 DEF QueueTyped
  <2> QED BY <1>2, <2>1, <2>2, <2>3 DEF QueueTyped
<1>10. Places'
  <2> DEFINE N == {}
             M == {r.id}
  <2>1. /\ N \cap M = {} /\ N \cap N = {} /\ M \cap N = {} /\ N \cup M \cup N \subseteq NumbersOf(queue[q])
        /\ NumbersOf(s) = NumbersOf(queue[q]) \ (N \cup M \cup N)
        /\ withdrawn' = withdrawn \cup N /\ IdsOf(moving') = IdsOf(moving) \cup M
        /\ PromptsOf(pending') = PromptsOf(pending) \cup N /\ PromptsOf(fresh') = PromptsOf(fresh)
        /\ sent' = sent
    BY <1>2, <1>3, <1>5, <1>7
  <2>2. q \in Queues /\ s \in Seq(Entry) /\ queue' = [queue EXCEPT ![q] = s]
    BY <1>3, <1>5, <1>6
  <2> HIDE DEF N, M, q
  <2> QED BY <2>1, <2>2, PlacesAfterLeaving
<1> QED BY <1>9, <1>10

LEMMA PushKeeps ==
    ASSUME QueueTyped, Places, PushExisting, UNCHANGED <<fresh, pending>>
    PROVE  QueueTyped' /\ Places'
<1> DEFINE q == "steer"
<1>1. PICK e \in moving : /\ moving' = moving \ {e}
                          /\ queue' = [queue EXCEPT ![q] = Append(queue[q], Bumped(e))]
  BY DEF PushExisting
<1>2. UNCHANGED <<seen, sent, withdrawn>>
  BY DEF PushExisting
<1> DEFINE b == Bumped(e)
           s == Append(queue[q], b)
<1>3. e \in Entry /\ e.version < MaxVersion /\ q \in Queues /\ queue[q] \in Seq(Entry) /\ Numbered(queue[q])
  BY DEF QueueTyped, Queues
<1>4. b \in Entry /\ b.id = e.id
  BY <1>3, EntriesTyped
<1>5. e.id \in IdsOf(moving) /\ e.id \notin NumbersOf(queue[q])
  BY DEF Places, Split, IdsOf
<1>6. s \in Seq(Entry) /\ Numbered(s) /\ NumbersOf(s) = NumbersOf(queue[q]) \cup {e.id}
  BY <1>3, <1>4, <1>5, PutLast
<1>7. queue' = [queue EXCEPT ![q] = s]
  BY <1>1
<1> HIDE DEF s, b
<1>8. IdsOf(moving') = IdsOf(moving) \ {e.id}
  BY <1>1 DEF QueueTyped, IdsOf
<1>9. QueueTyped'
  <2>1. queue' \in [Queues -> Seq(Entry)] /\ \A o \in Queues : Numbered(queue'[o])
    BY <1>3, <1>6, <1>7, QueueSet
  <2> QED BY <1>1, <1>2, <2>1 DEF QueueTyped
<1>10. Places'
  <2> HIDE DEF q
  <2> QED BY <1>2, <1>3, <1>5, <1>6, <1>7, <1>8, PlacesAfterComing
<1> QED BY <1>9, <1>10

LEMMA ClearKeeps ==
    ASSUME QueueTyped, Places, NEW q \in Queues, Clear(q), UNCHANGED <<fresh, pending>>
    PROVE  QueueTyped' /\ Places'
<1> DEFINE s == <<>>
<1>1. /\ withdrawn' = withdrawn \cup Queued(q) /\ UNCHANGED <<moving, seen, sent>>
      /\ queue' = [queue EXCEPT ![q] = s]
  BY DEF Clear
<1>2. queue[q] \in Seq(Entry) /\ DOMAIN queue[q] = 1 .. Len(queue[q])
  BY DEF QueueTyped
<1>3. Queued(q) = NumbersOf(queue[q])
  BY <1>2 DEF Queued, IdsOf, List, ToSet, NumbersOf
<1>4. s \in Seq(Entry) /\ Numbered(s) /\ NumbersOf(s) = {}
  <2>1. s \in Seq(Entry) /\ Len(s) = 0
    OBVIOUS
  <2>2. 1 .. Len(s) = {}
    BY <2>1
  <2> HIDE DEF s
  <2> QED BY <2>1, <2>2 DEF Numbered, NumbersOf
<1> HIDE DEF s
<1>5. QueueTyped'
  <2>1. queue' \in [Queues -> Seq(Entry)] /\ \A o \in Queues : Numbered(queue'[o])
    BY <1>1, <1>4, QueueSet
  <2> QED BY <1>1, <2>1 DEF QueueTyped
<1>6. Places'
  <2> DEFINE N == {}
             W == NumbersOf(queue[q])
  <2>1. /\ W \cap N = {} /\ N \cap N = {} /\ W \cup N \cup N \subseteq NumbersOf(queue[q])
        /\ NumbersOf(s) = NumbersOf(queue[q]) \ (W \cup N \cup N)
        /\ withdrawn' = withdrawn \cup W /\ IdsOf(moving') = IdsOf(moving) \cup N
        /\ PromptsOf(pending') = PromptsOf(pending) \cup N /\ PromptsOf(fresh') = PromptsOf(fresh)
        /\ sent' = sent
    BY <1>1, <1>3, <1>4
  <2> HIDE DEF N, W
  <2> QED BY <1>1, <1>4, <2>1, PlacesAfterLeaving
<1> QED BY <1>5, <1>6

LEMMA ClientsKeep ==
    ASSUME QueueTyped, Places, Clients, UNCHANGED <<fresh, pending>>
    PROVE  QueueTyped' /\ Places'
BY RequestsTyped, EnqueueKeeps, LookKeeps, UpdateKeeps, MoveKeeps, WithdrawKeeps, PromoteKeeps, PushKeeps,
   ClearKeeps DEF Clients, Dispatch, Edit

-----------------------------------------------------------------------------
(* What the steps of the loop do to the prompts.                             *)

LEMMA Rests ==
    ASSUME QueueTyped, SpeechTyped, Places, UNCHANGED <<queueVars, fresh, pending>>
    PROVE  /\ QueueTyped' /\ Places'
           /\ fresh' \in Seq(Messages) /\ ToldOnce(fresh') /\ pending' \in Seq(Messages) /\ ToldOnce(pending')
<1>1. UNCHANGED <<queue, moving, seen, sent, withdrawn, fresh, pending>>
  BY DEF queueVars
<1> QED BY <1>1 DEF QueueTyped, SpeechTyped, Places

\* Messages that tell no prompt are said, or wait.
LEMMA Adds ==
    ASSUME NEW s \in Seq(Messages), ToldOnce(s), NEW t \in Seq(Messages), Promptless(t)
    PROVE  /\ s \o t \in Seq(Messages) /\ ToldOnce(s \o t)
           /\ PromptsOf(s \o t) = PromptsOf(s)
           /\ EndsQuietly(s) \/ t # <<>> => EndsQuietly(s \o t)
<1>1. PromptsOf(t) = {} /\ ToldOnce(t)
  BY Silence
<1> QED BY <1>1, Told

\* The pending messages are said, and a note after them.
LEMMA Tells ==
    ASSUME QueueTyped, SpeechTyped, Places, NEW t \in Seq(Messages), Promptless(t),
           fresh' = fresh \o (pending \o t), pending' = <<>>, UNCHANGED queueVars
    PROVE  /\ QueueTyped' /\ Places'
           /\ fresh' \in Seq(Messages) /\ ToldOnce(fresh') /\ pending' \in Seq(Messages) /\ ToldOnce(pending')
<1>1. UNCHANGED <<queue, moving, seen, sent, withdrawn>>
  BY DEF queueVars
<1> DEFINE s == pending \o t
<1>2. s \in Seq(Messages) /\ ToldOnce(s) /\ PromptsOf(s) = PromptsOf(pending)
  BY Adds DEF SpeechTyped
<1>3. PromptsOf(fresh) \cap PromptsOf(pending) = {}
  BY DEF Places, Split
<1>4. /\ fresh' \in Seq(Messages) /\ ToldOnce(fresh')
      /\ PromptsOf(fresh') = PromptsOf(fresh) \cup PromptsOf(pending)
  <2> HIDE DEF s
  <2>1. fresh \in Seq(Messages) /\ ToldOnce(fresh)
    BY DEF SpeechTyped
  <2>2. fresh \o s \in Seq(Messages) /\ ToldOnce(fresh \o s) /\ PromptsOf(fresh \o s) = PromptsOf(fresh) \cup PromptsOf(s)
    BY <1>2, <1>3, <2>1, Told
  <2>3. fresh' = fresh \o s
    BY DEF s
  <2> QED BY <1>2, <2>2, <2>3
<1>5. pending' \in Seq(Messages) /\ ToldOnce(pending') /\ PromptsOf(pending') = {}
  BY Quiet, Silence
<1>6. QueueTyped'
  BY <1>1 DEF QueueTyped
<1>7. Places'
  BY <1>1, <1>4, <1>5 DEF Places, Split
<1> QED BY <1>4, <1>5, <1>6, <1>7

\* A prompt is taken from a queue to wait, with messages that tell none.
LEMMA Takes ==
    ASSUME QueueTyped, SpeechTyped, Places, pending = <<>>, NEW q \in Queues, Drain(q),
           NEW t \in Seq(Messages), Promptless(t), pending' = Injected(Taken(q)) \o t,
           PromptsOf(fresh') = PromptsOf(fresh)
    PROVE  QueueTyped' /\ Places' /\ pending' \in Seq(Messages) /\ ToldOnce(pending')
<1> DEFINE s == SubSeq(queue[q], 2, Len(queue[q]))
           P == IF queue[q] = <<>> THEN {} ELSE {queue[q][1].id}
<1>1. queue' = [queue EXCEPT ![q] = s] /\ UNCHANGED <<moving, seen, sent, withdrawn>>
  BY DEF Drain
<1>2. queue[q] \in Seq(Entry) /\ Numbered(queue[q])
  BY DEF QueueTyped
<1>3. /\ s \in Seq(Entry) /\ Numbered(s)
      /\ queue[q] = <<>> => s = <<>>
      /\ queue[q] # <<>> => NumbersOf(s) = NumbersOf(queue[q]) \ {queue[q][1].id}
  BY <1>2, TakenFirst
<1>4. /\ Injected(Taken(q)) \in Seq(Messages) /\ ToldOnce(Injected(Taken(q)))
      /\ PromptsOf(Injected(Taken(q))) = P
  BY <1>2, Delivered
<1> HIDE DEF s
<1>5. P \subseteq NumbersOf(queue[q]) /\ NumbersOf(s) = NumbersOf(queue[q]) \ P
  <2>1. CASE queue[q] = <<>>
    BY <1>3, <2>1
  <2>2. CASE queue[q] # <<>>
    <3>1. 1 \in 1 .. Len(queue[q])
      BY <1>2, <2>2, EmptySeq
    <3>2. queue[q][1].id \in NumbersOf(queue[q])
      BY <3>1 DEF NumbersOf
    <3> QED BY <1>3, <2>2, <3>2
  <2> QED BY <2>1, <2>2
<1> HIDE DEF P
<1>6. pending' \in Seq(Messages) /\ ToldOnce(pending') /\ PromptsOf(pending') = P
  BY <1>4, Adds
<1>7. PromptsOf(pending) = {}
  BY Quiet, Silence
<1>8. QueueTyped'
  <2>1. queue' \in [Queues -> Seq(Entry)] /\ \A o \in Queues : Numbered(queue'[o])
    BY <1>1, <1>3, QueueSet
  <2> QED BY <1>1, <2>1 DEF QueueTyped
<1>9. Places'
  <2> DEFINE N == {}
  <2>1. /\ N \cap N = {} /\ N \cap P = {} /\ N \cup N \cup P \subseteq NumbersOf(queue[q])
        /\ NumbersOf(s) = NumbersOf(queue[q]) \ (N \cup N \cup P)
        /\ withdrawn' = withdrawn \cup N /\ IdsOf(moving') = IdsOf(moving) \cup N
        /\ PromptsOf(pending') = PromptsOf(pending) \cup P /\ PromptsOf(fresh') = PromptsOf(fresh)
        /\ sent' = sent
    BY <1>1, <1>5, <1>6, <1>7
  <2> HIDE DEF N
  <2>2. s \in Seq(Entry) /\ queue' = [queue EXCEPT ![q] = s]
    BY <1>1, <1>3
  <2> QED BY <2>1, <2>2, PlacesAfterLeaving
<1> QED BY <1>6, <1>8, <1>9

\* The same with nothing after the prompt.
LEMMA TakesAlone ==
    ASSUME QueueTyped, SpeechTyped, Places, pending = <<>>, NEW q \in Queues, Drain(q),
           pending' = Injected(Taken(q)), PromptsOf(fresh') = PromptsOf(fresh)
    PROVE  QueueTyped' /\ Places' /\ pending' \in Seq(Messages) /\ ToldOnce(pending')
<1>1. queue[q] \in Seq(Entry)
  BY DEF QueueTyped
<1>2. Injected(Taken(q)) \o <<>> = Injected(Taken(q))
  BY <1>1, Delivered, ConcatEmptySeq
<1>3. <<>> \in Seq(Messages) /\ Promptless(<<>>)
  BY Quiet
<1>4. pending' = Injected(Taken(q)) \o <<>>
  BY <1>2
<1> QED BY <1>3, <1>4, Takes

LEMMA PromptArriving ==
    ASSUME PromptInv, BoundInv, Arrive \/ Begin \/ Open \/ LeaveCancelled \/ StopAtLimit \/ Ask
    PROVE  PromptInv'
<1>0. QueueTyped /\ SpeechTyped /\ Places /\ <<>> \in Seq(Messages)
  BY DEF PromptInv
<1>1. CASE Arrive \/ Begin \/ LeaveCancelled
  <2>1. UNCHANGED <<fresh, pending, calls, results, queueVars>>
    BY <1>1 DEF Arrive, Begin, LeaveCancelled, talk, batch
  <2>2. QuietEnd' /\ OnlyCancelled'
    BY <1>1 DEF Arrive, Begin, LeaveCancelled, Go, CheckAt, NoCheck, QuietEnd, OnlyCancelled
  <2> QED BY <1>0, <2>1, <2>2, Rests DEF PromptInv, SpeechTyped
<1>2. CASE Open
  <2>1. /\ pc = "opening" /\ pc' = "top" /\ UNCHANGED <<fresh, calls, results>>
        /\ pending' = Injected(Taken("steer")) /\ Drain("steer")
    BY <1>2 DEF Open, Go, batch
  <2>2. pending = <<>> /\ "steer" \in Queues /\ PromptsOf(fresh') = PromptsOf(fresh)
    BY <2>1 DEF BoundInv, InHand, Queues
  <2>3. QueueTyped' /\ Places' /\ pending' \in Seq(Messages) /\ ToldOnce(pending')
    BY <1>0, <2>1, <2>2, TakesAlone
  <2>4. QuietEnd' /\ OnlyCancelled'
    BY <2>1 DEF QuietEnd, OnlyCancelled
  <2> QED BY <1>0, <2>1, <2>3, <2>4 DEF PromptInv, SpeechTyped
<1>3. CASE StopAtLimit
  <2>1. /\ pc' = "ended" /\ fresh' = fresh \o Append(pending, Note) /\ pending' = <<>>
        /\ UNCHANGED <<calls, results, queueVars>>
    BY <1>3 DEF StopAtLimit, Go, Say, batch
  <2>2. Append(pending, Note) = pending \o <<Note>>
    BY <1>0, MessagesTyped, AppendIsConcat DEF SpeechTyped
  <2>3. <<Note>> \in Seq(Messages) /\ Promptless(<<Note>>)
    BY MessagesTyped, Quiet
  <2>4. /\ QueueTyped' /\ Places'
        /\ fresh' \in Seq(Messages) /\ ToldOnce(fresh') /\ pending' \in Seq(Messages) /\ ToldOnce(pending')
    BY <1>0, <2>1, <2>2, <2>3, Tells
  <2>5. QuietEnd' /\ OnlyCancelled'
    BY <2>1 DEF QuietEnd, OnlyCancelled
  <2> QED BY <1>0, <2>1, <2>4, <2>5 DEF PromptInv, SpeechTyped
<1>4. CASE Ask
  <2>1. /\ pc' = "streaming" /\ fresh' = fresh \o pending /\ pending' = <<>>
        /\ UNCHANGED <<calls, results, queueVars>>
    BY <1>4 DEF Ask, Go, Say, batch
  <2>2. pending \o <<>> = pending
    BY <1>0, ConcatEmptySeq DEF SpeechTyped
  <2>3. <<>> \in Seq(Messages) /\ Promptless(<<>>) /\ fresh' = fresh \o (pending \o <<>>)
    BY <2>1, <2>2, Quiet
  <2>4. /\ QueueTyped' /\ Places'
        /\ fresh' \in Seq(Messages) /\ ToldOnce(fresh') /\ pending' \in Seq(Messages) /\ ToldOnce(pending')
    BY <1>0, <2>1, <2>3, Tells
  <2>5. QuietEnd' /\ OnlyCancelled'
    BY <2>1 DEF QuietEnd, OnlyCancelled
  <2> QED BY <1>0, <2>1, <2>4, <2>5 DEF PromptInv, SpeechTyped
<1> QED BY <1>1, <1>2, <1>3, <1>4

\* A step that says messages without prompts, and leaves the queues alone.
LEMMA Says ==
    ASSUME QueueTyped, SpeechTyped, Places, NEW t \in Seq(Messages), Promptless(t), NEW u \in Seq(Messages),
           Promptless(u), fresh' = fresh \o t, pending' = pending \o u, UNCHANGED queueVars
    PROVE  /\ QueueTyped' /\ Places'
           /\ fresh' \in Seq(Messages) /\ ToldOnce(fresh') /\ pending' \in Seq(Messages) /\ ToldOnce(pending')
           /\ EndsQuietly(fresh) \/ t # <<>> => EndsQuietly(fresh')
<1>1. UNCHANGED <<queue, moving, seen, sent, withdrawn>>
  BY DEF queueVars
<1>2. /\ fresh' \in Seq(Messages) /\ ToldOnce(fresh') /\ PromptsOf(fresh') = PromptsOf(fresh)
      /\ EndsQuietly(fresh) \/ t # <<>> => EndsQuietly(fresh')
  BY Adds DEF SpeechTyped
<1>3. pending' \in Seq(Messages) /\ ToldOnce(pending') /\ PromptsOf(pending') = PromptsOf(pending)
  BY Adds DEF SpeechTyped
<1>4. QueueTyped'
  BY <1>1 DEF QueueTyped
<1>5. Places'
  BY <1>1, <1>2, <1>3 DEF Places
<1> QED BY <1>2, <1>3, <1>4, <1>5

LEMMA PromptAnswered ==
    ASSUME PromptInv, BoundInv,
           \/ \E stop \in Failures : AnswerFails(stop)
           \/ \E stop \in Texts : AnswerTalks(stop)
           \/ \E n \in 1 .. MaxCalls, stop \in {"calls", "length"} : AnswerCalls(n, stop)
    PROVE  PromptInv'
<1>0. QueueTyped /\ SpeechTyped /\ Places /\ requests \in Nat /\ <<>> \in Seq(Messages) /\ Promptless(<<>>)
  BY Quiet DEF PromptInv, BoundInv, CountsTyped
<1>1. PICK n \in Nat, stop \in Failures \cup Texts \cup {"calls", "length"} :
         /\ fresh' = fresh \o <<Assistant(requests, CallsOf(n), stop)>>
         /\ calls' = calls \/ calls' = CallsOf(n)
  <2>1. ASSUME NEW stop \in Failures, AnswerFails(stop)
        PROVE  \E n \in Nat : /\ fresh' = fresh \o <<Assistant(requests, CallsOf(n), stop)>>
                              /\ calls' = calls \/ calls' = CallsOf(n)
    <3>1. calls' = calls /\ \E n \in Nat : Say(<<Assistant(requests, CallsOf(n), stop)>>)
      BY <2>1 DEF AnswerFails, batch
    <3> QED BY <3>1 DEF Say
  <2>2. ASSUME NEW stop \in Texts, AnswerTalks(stop)
        PROVE  \E n \in Nat : /\ fresh' = fresh \o <<Assistant(requests, CallsOf(n), stop)>>
                              /\ calls' = calls \/ calls' = CallsOf(n)
    <3>1. CallsOf(0) = <<>>
      <4>1. CallsOf(0) \in Seq(Calls)
        BY <1>0, CallsTyped
      <4>2. Len(CallsOf(0)) = 0
        BY DEF CallsOf
      <4> QED BY <4>1, <4>2, EmptySeq
    <3>2. calls' = calls /\ fresh' = fresh \o <<Assistant(requests, <<>>, stop)>>
      BY <2>2 DEF AnswerTalks, Say, batch
    <3> QED BY <3>1, <3>2
  <2>3. ASSUME NEW n \in 1 .. MaxCalls, NEW stop \in {"calls", "length"}, AnswerCalls(n, stop)
        PROVE  /\ n \in Nat /\ fresh' = fresh \o <<Assistant(requests, CallsOf(n), stop)>>
               /\ calls' = calls \/ calls' = CallsOf(n)
    BY <2>3, LoopAssumption DEF AnswerCalls, Say
  <2> QED BY <2>1, <2>2, <2>3
<1> DEFINE m == Assistant(requests, CallsOf(n), stop)
<1>2. CallsOf(n) \in Seq(Calls) /\ m \in Messages
  <2>1. CallsOf(n) \in Seq(Calls)
    BY <1>0, CallsTyped
  <2> QED BY <1>0, <2>1, MessagesTyped
<1>3. <<m>> \in Seq(Messages) /\ Promptless(<<m>>) /\ <<m>> # <<>>
  BY <1>2, Quiet
<1> HIDE DEF m
<1>4. /\ pc = "streaming" /\ UNCHANGED <<pending, results, queueVars>>
      /\ pc' \in {"ended", "checking", "settling", "called"} /\ cancelled' = cancelled
  BY DEF AnswerFails, AnswerTalks, AnswerCalls, CheckAt, Go, batch
<1>5. pending = <<>>
  BY <1>4 DEF BoundInv, InHand
<1>6. pending' = pending \o <<>> /\ fresh' = fresh \o <<m>>
  BY <1>0, <1>1, <1>4, ConcatEmptySeq DEF SpeechTyped, m
<1>7. /\ QueueTyped' /\ Places'
      /\ fresh' \in Seq(Messages) /\ ToldOnce(fresh') /\ pending' \in Seq(Messages) /\ ToldOnce(pending')
      /\ EndsQuietly(fresh')
  BY <1>0, <1>3, <1>4, <1>6, Says
<1>8. QuietEnd' /\ OnlyCancelled'
  BY <1>4, <1>5, <1>7 DEF QuietEnd, OnlyCancelled
<1>9. results' \in Seq(Messages) /\ Promptless(results') /\ calls' \in Seq(Calls)
  BY <1>0, <1>1, <1>2, <1>4 DEF SpeechTyped
<1> QED BY <1>7, <1>8, <1>9 DEF PromptInv, SpeechTyped

\* The counters and flags that no bound is about.
OthersTyped ==
    /\ repeats \in Nat /\ nudges \in Nat /\ notices \in Nat
    /\ suppressed \in BOOLEAN /\ cancelled \in BOOLEAN

LEMMA OthersStayTyped == OthersTyped /\ [Next]_vars => OthersTyped'
<1> SUFFICES ASSUME OthersTyped, [Next]_vars PROVE OthersTyped'
  OBVIOUS
<1>1. CASE Loop
  <2>1. cancelled' = cancelled /\ repeats' \in {repeats, 1, repeats + 1}
    BY <1>1 DEF Loop, Arrive, Begin, Open, LeaveCancelled, StopAtLimit, Ask, AnswerFails, AnswerTalks,
        AnswerCalls, SkipRepeated, Accept, Execute, Executed, Steer, Nudge, FollowUp, CheckFits,
        CheckSuppressed, CheckExhausted, CheckCompacts, PruneIsEnough, Summarize, Succeed, StageFails,
        PruneAtEnd, counts
  <2>2. nudges' \in {nudges, 0, nudges + 1}
    BY <1>1 DEF Loop, Arrive, Begin, Open, LeaveCancelled, StopAtLimit, Ask, AnswerFails, AnswerTalks,
        AnswerCalls, SkipRepeated, Accept, Execute, Executed, Steer, Nudge, FollowUp, CheckFits,
        CheckSuppressed, CheckExhausted, CheckCompacts, PruneIsEnough, Summarize, Succeed, StageFails,
        PruneAtEnd, counts
  <2>3. notices' = notices \/ \E n \in 0 .. MaxNotices - notices : notices' = notices + n
    BY <1>1 DEF Loop, Arrive, Begin, Open, LeaveCancelled, StopAtLimit, Ask, AnswerFails, AnswerTalks,
        AnswerCalls, SkipRepeated, Accept, Execute, Executed, Steer, Nudge, FollowUp, CheckFits,
        CheckSuppressed, CheckExhausted, CheckCompacts, PruneIsEnough, Summarize, Succeed, StageFails,
        PruneAtEnd, counts
  <2>4. suppressed' \in {suppressed, FALSE} \/ suppressed' = (suppressed \/ check.for = "threshold")
    BY <1>1 DEF Loop, Arrive, Begin, Open, LeaveCancelled, StopAtLimit, Ask, AnswerFails, AnswerTalks,
        AnswerCalls, SkipRepeated, Accept, Execute, Executed, Steer, Nudge, FollowUp, CheckFits,
        CheckSuppressed, CheckExhausted, CheckCompacts, PruneIsEnough, Summarize, Succeed, StageFails,
        PruneAtEnd, policy
  <2>5. repeats' \in Nat /\ nudges' \in Nat /\ cancelled' \in BOOLEAN
    BY <2>1, <2>2 DEF OthersTyped
  <2>6. notices' \in Nat
    BY <2>3, LoopAssumption DEF OthersTyped
  <2>7. suppressed' \in BOOLEAN
    BY <2>4 DEF OthersTyped
  <2> QED BY <2>5, <2>6, <2>7 DEF OthersTyped
<1>2. CASE Cancel
  BY <1>2 DEF Cancel, OthersTyped, counts, policy
<1>3. CASE UNCHANGED loopVars
  BY <1>3 DEF OthersTyped, loopVars
<1> QED BY <1>1, <1>2, <1>3 DEF Next, ClientActs, Ended, vars

LEMMA PromptWorking ==
    ASSUME PromptInv, BoundInv, SkipRepeated \/ Accept \/ Execute \/ Executed
    PROVE  PromptInv'
<1>0. /\ QueueTyped /\ SpeechTyped /\ Places
      /\ <<>> \in Seq(Messages) /\ Promptless(<<>>)
      /\ calls \in Seq(Calls) /\ <<>> \in Seq(Calls)
  BY Quiet DEF PromptInv, SpeechTyped
<1>1. CASE SkipRepeated
  <2>1. /\ pc = "called" /\ pc' = "top" /\ fresh' = fresh \o Every(calls, "skipped")
        /\ pending' = Append(pending, Note) /\ calls' = <<>> /\ UNCHANGED <<results, queueVars>>
    BY <1>1 DEF SkipRepeated, Go, Say, Skipped
  <2>2. <<Note>> \in Seq(Messages) /\ Promptless(<<Note>>) /\ Append(pending, Note) = pending \o <<Note>>
    BY <1>0, MessagesTyped, Quiet, AppendIsConcat DEF SpeechTyped
  <2>3. Every(calls, "skipped") \in Seq(Messages) /\ Promptless(Every(calls, "skipped"))
    BY <1>0, ResultsTyped
  <2>4. /\ QueueTyped' /\ Places'
        /\ fresh' \in Seq(Messages) /\ ToldOnce(fresh') /\ pending' \in Seq(Messages) /\ ToldOnce(pending')
    BY <1>0, <2>1, <2>2, <2>3, Says
  <2>5. QuietEnd' /\ OnlyCancelled' /\ calls' \in Seq(Calls)
    BY <2>1 DEF QuietEnd, OnlyCancelled
  <2> QED BY <1>0, <2>1, <2>4, <2>5 DEF PromptInv, SpeechTyped
<1>2. CASE Accept
  <2>1. /\ pc = "called" /\ pc' = "executing" /\ UNCHANGED <<fresh, pending, queueVars>>
        /\ \/ calls' = <<>> /\ results' = Every(calls, "truncated")
           \/ UNCHANGED <<calls, results>>
    BY <1>2 DEF Accept, Go, talk, batch, Truncated
  <2>2. Every(calls, "truncated") \in Seq(Messages) /\ Promptless(Every(calls, "truncated"))
    BY <1>0, ResultsTyped
  <2>3. /\ QueueTyped' /\ Places'
        /\ fresh' \in Seq(Messages) /\ ToldOnce(fresh') /\ pending' \in Seq(Messages) /\ ToldOnce(pending')
    BY <1>0, <2>1, Rests
  <2>4. calls' \in Seq(Calls) /\ results' \in Seq(Messages) /\ Promptless(results')
    BY <1>0, <2>1, <2>2 DEF SpeechTyped
  <2>5. QuietEnd' /\ OnlyCancelled'
    BY <2>1 DEF PromptInv, QuietEnd, OnlyCancelled
  <2> QED BY <2>3, <2>4, <2>5 DEF PromptInv, SpeechTyped
<1>3. CASE Execute
  <2> DEFINE n    == Min({BatchSize, Len(calls)})
             now  == SubSeq(calls, 1, n)
             left == SubSeq(calls, n + 1, Len(calls))
             done == Every(now, "done")
             gone == Every(left, "skipped")
  <2>1. /\ pc = "executing" /\ pc' = pc /\ calls # <<>> /\ UNCHANGED <<fresh, cancelled>>
        /\ \/ /\ results' = results \o done /\ calls' = left
              /\ UNCHANGED <<pending, queueVars>>
           \/ /\ results' = results \o done \o gone /\ calls' = <<>>
              /\ pending' = Injected(Taken("steer"))
              /\ Drain("steer")
    BY <1>3 DEF Execute, Skipped
  <2>2. pending = <<>> /\ "steer" \in Queues
    BY <2>1 DEF BoundInv, InHand, Queues
  <2>3. n \in Nat /\ n <= Len(calls)
    BY <1>0, LeastOfTwo, LenProperties, LoopAssumption
  <2> HIDE DEF n
  <2>4. now \in Seq(Calls) /\ left \in Seq(Calls)
    BY <1>0, <2>3, PartsTyped
  <2> HIDE DEF now, left
  <2>5. done \in Seq(Messages) /\ Promptless(done) /\ gone \in Seq(Messages) /\ Promptless(gone)
    BY <2>4, ResultsTyped
  <2> HIDE DEF done, gone
  <2>6. results \in Seq(Messages) /\ Promptless(results)
    BY <1>0 DEF SpeechTyped
  <2>7. results \o done \in Seq(Messages) /\ Promptless(results \o done)
    BY <2>5, <2>6, Told
  <2>8. results \o done \o gone \in Seq(Messages) /\ Promptless(results \o done \o gone)
    BY <2>5, <2>7, Told
  <2>9. results' \in Seq(Messages) /\ Promptless(results') /\ calls' \in Seq(Calls)
    BY <1>0, <2>1, <2>4, <2>7, <2>8
  <2>10. /\ QueueTyped' /\ Places'
         /\ fresh' \in Seq(Messages) /\ ToldOnce(fresh') /\ pending' \in Seq(Messages) /\ ToldOnce(pending')
    <3>1. CASE UNCHANGED <<pending, queueVars>>
      BY <1>0, <2>1, <3>1, Rests
    <3>2. CASE pending' = Injected(Taken("steer")) /\ Drain("steer")
      <4>1. PromptsOf(fresh') = PromptsOf(fresh) /\ fresh' \in Seq(Messages) /\ ToldOnce(fresh')
        BY <1>0, <2>1 DEF SpeechTyped
      <4> QED BY <1>0, <2>2, <3>2, <4>1, TakesAlone
    <3> QED BY <2>1, <3>1, <3>2
  <2>11. QuietEnd' /\ OnlyCancelled'
    BY <2>1 DEF PromptInv, QuietEnd, OnlyCancelled
  <2> QED BY <2>9, <2>10, <2>11 DEF PromptInv, SpeechTyped
<1>4. CASE Executed
  <2>1. /\ pc = "executing" /\ pc' = "settling" /\ fresh' = fresh \o results /\ results' = <<>> /\ calls' = calls
        /\ \/ /\ pending = <<>> /\ pending' = Injected(Taken("steer")) /\ Drain("steer")
           \/ UNCHANGED <<pending, queueVars>>
    BY <1>4 DEF Executed, Go, Say
  <2>2. results \in Seq(Messages) /\ Promptless(results)
    BY <1>0 DEF SpeechTyped
  <2>3. /\ fresh' \in Seq(Messages) /\ ToldOnce(fresh') /\ PromptsOf(fresh') = PromptsOf(fresh)
        /\ EndsQuietly(fresh) => EndsQuietly(fresh')
    BY <1>0, <2>1, <2>2, Adds DEF SpeechTyped
  <2>4. QueueTyped' /\ Places' /\ pending' \in Seq(Messages) /\ ToldOnce(pending')
    <3>1. CASE UNCHANGED <<pending, queueVars>>
      <4>1. UNCHANGED <<queue, moving, seen, sent, withdrawn, pending>>
        BY <3>1 DEF queueVars
      <4> QED BY <1>0, <2>3, <4>1 DEF QueueTyped, SpeechTyped, Places
    <3>2. CASE pending = <<>> /\ pending' = Injected(Taken("steer")) /\ Drain("steer")
      <4>1. "steer" \in Queues
        BY DEF Queues
      <4> QED BY <1>0, <2>3, <3>2, <4>1, TakesAlone
    <3> QED BY <2>1, <3>1, <3>2
  <2>5. QuietEnd' /\ OnlyCancelled'
    BY <2>1, <2>3 DEF PromptInv, QuietEnd, OnlyCancelled
  <2> QED BY <1>0, <2>1, <2>3, <2>4, <2>5 DEF PromptInv, SpeechTyped
<1> QED BY <1>1, <1>2, <1>3, <1>4

LEMMA PromptSettling ==
    ASSUME PromptInv, BoundInv, OthersTyped, Steer \/ Nudge \/ FollowUp
    PROVE  PromptInv'
<1>0. QueueTyped /\ SpeechTyped /\ Places /\ <<>> \in Seq(Messages) /\ Promptless(<<>>)
  BY Quiet DEF PromptInv
<1>1. UNCHANGED <<fresh, calls, results>> /\ pc = "settling"
  BY DEF Steer, Nudge, FollowUp, Idle, batch
<1>2. /\ fresh' \in Seq(Messages) /\ ToldOnce(fresh') /\ PromptsOf(fresh') = PromptsOf(fresh)
      /\ results' \in Seq(Messages) /\ Promptless(results') /\ calls' \in Seq(Calls)
  BY <1>0, <1>1 DEF SpeechTyped
<1>3. QuietEnd' /\ OnlyCancelled'
  <2>1. pc' = "top" \/ pc' = "checking"
    BY DEF Steer, Nudge, FollowUp, Go, CheckAt
  <2> QED BY <1>1, <2>1 DEF PromptInv, QuietEnd, OnlyCancelled
<1>4. CASE Steer
  <2>1. \/ pending = <<>> /\ pending' = Injected(Taken("steer")) /\ Drain("steer")
        \/ UNCHANGED <<pending, queueVars>>
    BY <1>4 DEF Steer
  <2>2. CASE pending = <<>> /\ pending' = Injected(Taken("steer")) /\ Drain("steer")
    <3>1. "steer" \in Queues
      BY DEF Queues
    <3>2. QueueTyped' /\ Places' /\ pending' \in Seq(Messages) /\ ToldOnce(pending')
      BY <1>0, <1>2, <2>2, <3>1, TakesAlone
    <3> QED BY <1>2, <1>3, <3>2 DEF PromptInv, SpeechTyped
  <2>3. CASE UNCHANGED <<pending, queueVars>>
    <3>1. QueueTyped' /\ Places' /\ pending' \in Seq(Messages) /\ ToldOnce(pending')
      BY <1>0, <1>1, <2>3, Rests
    <3> QED BY <1>2, <1>3, <3>1 DEF PromptInv, SpeechTyped
  <2> QED BY <2>1, <2>2, <2>3
<1>5. CASE Nudge
  <2>1. pending = <<>> /\ pending' = <<Note>> /\ UNCHANGED queueVars
    BY <1>5 DEF Nudge, Idle
  <2>2. <<Note>> \in Seq(Messages) /\ Promptless(<<Note>>)
    BY MessagesTyped, Quiet
  <2>3. fresh' = fresh \o <<>> /\ pending' = pending \o <<Note>>
    BY <1>0, <1>1, <2>1, <2>2, ConcatEmptySeq DEF SpeechTyped
  <2>4. QueueTyped' /\ Places' /\ pending' \in Seq(Messages) /\ ToldOnce(pending')
    BY <1>0, <2>1, <2>2, <2>3, Says
  <2> QED BY <1>2, <1>3, <2>4 DEF PromptInv, SpeechTyped
<1>6. CASE FollowUp
  <2>1. pending = <<>> /\ Drain("follow") /\ "follow" \in Queues
    BY <1>6 DEF FollowUp, Idle, Queues
  <2>2. PICK n \in 0 .. MaxNotices - notices : pending' = Injected(Taken("follow")) \o [i \in 1 .. n |-> Note]
    BY <1>6 DEF FollowUp
  <2>3. n \in Nat
    BY LoopAssumption DEF OthersTyped
  <2>4. [i \in 1 .. n |-> Note] \in Seq(Messages) /\ Promptless([i \in 1 .. n |-> Note])
    BY <2>3, MessagesTyped, Quiet
  <2>5. QueueTyped' /\ Places' /\ pending' \in Seq(Messages) /\ ToldOnce(pending')
    BY <1>0, <1>2, <2>1, <2>2, <2>4, Takes
  <2> QED BY <1>2, <1>3, <2>5 DEF PromptInv, SpeechTyped
<1> QED BY <1>4, <1>5, <1>6

\* A check that ends leaves the prompts as they are: what it takes out of the
\* report is an answer.
LEMMA LeavingPrompts ==
    ASSUME PromptInv, BoundInv, pc = "checking", NEW retry \in BOOLEAN, Leave(retry),
           UNCHANGED <<pending, batch, cancelled, queueVars>>
    PROVE  PromptInv'
<1>0. QueueTyped /\ SpeechTyped /\ Places /\ pending = <<>>
  BY DEF PromptInv, BoundInv, Budget
<1>1. UNCHANGED <<queue, moving, seen, sent, withdrawn, pending, calls, results>>
  BY DEF queueVars, batch
<1>2. fresh' \in Seq(Messages) /\ ToldOnce(fresh') /\ PromptsOf(fresh') = PromptsOf(fresh)
  <2>1. CASE fresh' = fresh
    BY <1>0, <2>1 DEF SpeechTyped
  <2>2. CASE check.at # "prompt" /\ fresh' = Front(fresh)
    <3>1. EndsQuietly(fresh)
      BY <2>2 DEF PromptInv, QuietEnd
    <3> QED BY <1>0, <2>2, <3>1, Retold DEF SpeechTyped
  <2> QED BY <2>1, <2>2 DEF Leave
<1>3. QueueTyped'
  BY <1>0, <1>1 DEF QueueTyped
<1>4. Places'
  BY <1>0, <1>1, <1>2 DEF Places
<1>5. QuietEnd' /\ OnlyCancelled'
  <2>1. pc' \in {"beginning", "top", "pruning", "ended"}
    BY DEF Leave
  <2> QED BY <1>0, <1>1, <2>1 DEF QuietEnd, OnlyCancelled
<1> QED BY <1>0, <1>1, <1>2, <1>3, <1>4, <1>5 DEF PromptInv, SpeechTyped

LEMMA PromptChecking ==
    ASSUME PromptInv, BoundInv,
           \/ CheckFits \/ CheckSuppressed \/ CheckExhausted
           \/ \E reason \in Recoveries \cup {"threshold", "silent"} : CheckCompacts(reason)
           \/ PruneIsEnough \/ Summarize \/ StageFails \/ PruneAtEnd
    PROVE  PromptInv'
<1>0. QueueTyped /\ SpeechTyped /\ Places
  BY DEF PromptInv
<1>1. ASSUME UNCHANGED <<fresh, pending, batch, queueVars>>, QuietEnd', OnlyCancelled' PROVE PromptInv'
  <2>1. UNCHANGED <<calls, results>>
    BY <1>1 DEF batch
  <2> QED BY <1>0, <1>1, <2>1, Rests DEF PromptInv, SpeechTyped
<1>2. CASE CheckFits \/ CheckSuppressed \/ CheckExhausted
  BY <1>2, LeavingPrompts DEF CheckFits, CheckSuppressed, CheckExhausted
<1>3. ASSUME NEW reason \in Recoveries \cup {"threshold", "silent"}, CheckCompacts(reason) PROVE PromptInv'
  <2>1. /\ pc = "checking" /\ UNCHANGED <<pc, fresh, pending, batch, queueVars>>
        /\ check' = [check EXCEPT !.for = reason, !.stage = "model"]
    BY <1>3 DEF CheckCompacts
  <2>2. check'.at = check.at
    BY <2>1 DEF BoundInv, CountsTyped
  <2> QED BY <1>1, <2>1, <2>2 DEF PromptInv, QuietEnd, OnlyCancelled
<1>4. CASE PruneIsEnough \/ Summarize
  <2>1. pc = "checking" /\ Succeed
    BY <1>4 DEF PruneIsEnough, Summarize
  <2>2. (check.for \in Recoveries) \in BOOLEAN /\ Leave(check.for \in Recoveries)
    BY <2>1 DEF Succeed
  <2>3. UNCHANGED <<pending, batch, cancelled, queueVars>>
    BY <2>1 DEF Succeed
  <2> QED BY <2>1, <2>2, <2>3, LeavingPrompts
<1>5. CASE StageFails
  <2>1. /\ pc = "checking" /\ UNCHANGED <<pending, batch, cancelled, queueVars>>
        /\ Leave(FALSE) \/ (UNCHANGED <<pc, fresh>> /\ check' = [check EXCEPT !.stage = NextStage])
    BY <1>5 DEF StageFails
  <2>2. CASE Leave(FALSE)
    BY <2>1, <2>2, LeavingPrompts
  <2>3. CASE UNCHANGED <<pc, fresh>> /\ check' = [check EXCEPT !.stage = NextStage]
    <3>1. check'.at = check.at
      BY <2>3 DEF BoundInv, CountsTyped
    <3> QED BY <1>1, <2>1, <2>3, <3>1 DEF PromptInv, QuietEnd, OnlyCancelled
  <2> QED BY <2>1, <2>2, <2>3
<1>6. CASE PruneAtEnd
  <2>1. pc = "pruning" /\ pc' = "ended" /\ UNCHANGED <<fresh, pending, batch, queueVars>>
    BY <1>6 DEF PruneAtEnd, Go
  <2>2. pending = <<>>
    BY <2>1 DEF BoundInv, InHand
  <2> QED BY <1>1, <2>1, <2>2 DEF QuietEnd, OnlyCancelled
<1> QED BY <1>2, <1>3, <1>4, <1>5, <1>6

LEMMA InitPrompts == Init => PromptInv
<1> SUFFICES ASSUME Init PROVE PromptInv
  OBVIOUS
<1>1. /\ queue = [q \in Queues |-> <<>>] /\ moving = {} /\ seen = {} /\ sent = 0 /\ withdrawn = {}
      /\ pc = "arriving" /\ fresh = <<User(0)>> /\ pending = <<>> /\ calls = <<>> /\ results = <<>>
  BY DEF Init, QueuesInit, LoopInit
<1>2. /\ <<>> \in Seq(Messages) /\ Promptless(<<>>) /\ <<>> \in Seq(Calls) /\ <<>> \in Seq(Entry)
      /\ Len(<<>>) = 0 /\ 1 .. 0 = {}
  BY Quiet
<1>3. <<User(0)>> \in Seq(Messages) /\ Promptless(<<User(0)>>)
  <2>1. User(0) \in Messages /\ User(0).id = 0
    BY MessagesTyped DEF User, Message
  <2> QED BY <2>1 DEF Promptless, IsPrompt
<1>4. NumbersOf(<<>>) = {} /\ Numbered(<<>>)
  BY <1>2 DEF NumbersOf, Numbered
<1>5. QueueTyped
  BY <1>1, <1>2, <1>4, PromptsAssumption DEF QueueTyped
<1>6. SpeechTyped /\ PromptsOf(fresh) = {} /\ PromptsOf(pending) = {}
  BY <1>1, <1>2, <1>3, Silence DEF SpeechTyped
<1>7. Places
  <2>1. NumbersOf(queue["steer"]) = {} /\ NumbersOf(queue["follow"]) = {} /\ IdsOf(moving) = {}
    BY <1>1, <1>4 DEF Queues, IdsOf
  <2> QED BY <1>1, <1>2, <1>6, <2>1 DEF Places, Split
<1>8. QuietEnd /\ OnlyCancelled
  BY <1>1 DEF QuietEnd, OnlyCancelled
<1> QED BY <1>5, <1>6, <1>7, <1>8 DEF PromptInv

LEMMA InitOthers == Init => OthersTyped
<1> SUFFICES ASSUME Init PROVE OthersTyped
  OBVIOUS
<1>1. repeats = 0 /\ nudges = 0 /\ notices = 0 /\ suppressed = FALSE /\ cancelled = FALSE
  BY DEF Init, LoopInit
<1> QED BY <1>1 DEF OthersTyped

LEMMA NextPrompts == PromptInv /\ BoundInv /\ OthersTyped /\ [Next]_vars => PromptInv'
<1> SUFFICES ASSUME PromptInv, BoundInv, OthersTyped, [Next]_vars PROVE PromptInv'
  OBVIOUS
<1>0. QueueTyped /\ SpeechTyped /\ Places
  BY DEF PromptInv
<1>1. CASE Loop
  BY <1>1, PromptArriving, PromptAnswered, PromptWorking, PromptSettling, PromptChecking DEF Loop
<1>2. CASE Cancel
  <2>1. /\ UNCHANGED <<pc, fresh, pending, calls, results, check, queueVars>> /\ pc # "ended"
    BY <1>2 DEF Cancel, talk, batch, policy
  <2>2. QuietEnd' /\ OnlyCancelled'
    BY <2>1 DEF PromptInv, QuietEnd, OnlyCancelled
  <2> QED BY <1>0, <2>1, <2>2, Rests DEF PromptInv, SpeechTyped
<1>3. CASE ClientActs \/ UNCHANGED vars
  <2>1. UNCHANGED <<pc, fresh, pending, calls, results, check, cancelled>> /\ (Clients \/ UNCHANGED queueVars)
    BY <1>3 DEF ClientActs, vars, loopVars
  <2>2. QuietEnd' /\ OnlyCancelled'
    BY <2>1 DEF PromptInv, QuietEnd, OnlyCancelled
  <2>3. QueueTyped' /\ Places'
    BY <1>0, <2>1, ClientsKeep, Rests
  <2>4. SpeechTyped'
    BY <1>0, <2>1 DEF SpeechTyped
  <2> QED BY <2>2, <2>3, <2>4 DEF PromptInv
<1> QED BY <1>1, <1>2, <1>3 DEF Next, Ended

LEMMA Invariance == Spec => [](BoundInv /\ OthersTyped /\ PromptInv)
<1>1. Init => BoundInv /\ OthersTyped /\ PromptInv
  BY InitBound, InitOthers, InitPrompts
<1>2. BoundInv /\ OthersTyped /\ PromptInv /\ [Next]_vars => (BoundInv /\ OthersTyped /\ PromptInv)'
  BY NextBound, OthersStayTyped, NextPrompts
<1> QED BY <1>1, <1>2, PTL DEF Spec

\* A prompt that a client sends is in one place at any time: in one of the queues, on its
\* way between them, withdrawn, waiting in the loop or told to the model, once; and only a
\* cancelled run ends with prompts that wait (PromptsAreSomewhere), whatever clients,
\* checks and retries do in between.
THEOREM PromptsHaveAPlace == Spec => []PromptsAreSomewhere
<1>1. PromptInv => PromptsAreSomewhere
  <2> SUFFICES ASSUME PromptInv PROVE PromptsAreSomewhere
    OBVIOUS
  <2> DEFINE said == fresh \o pending
             told == {i \in DOMAIN said : said[i].role = "user" /\ said[i].id # 0}
             T    == {said[i].id : i \in told}
             places == <<withdrawn, Queued("steer"), Queued("follow"), IdsOf(moving), T>>
  <2>0. QueueTyped /\ SpeechTyped /\ Places
    BY DEF PromptInv
  <2>1. PromptsOf(fresh) \cap PromptsOf(pending) = {}
    BY <2>0 DEF Places, Split
  <2>2. /\ said \in Seq(Messages) /\ ToldOnce(said)
        /\ PromptsOf(said) = PromptsOf(fresh) \cup PromptsOf(pending)
    BY <2>0, <2>1, Told DEF SpeechTyped
  <2> HIDE DEF said
  <2>3. DOMAIN said = 1 .. Len(said)
    BY <2>2
  <2>4. T = PromptsOf(said)
    BY <2>3 DEF PromptsOf, IsPrompt
  <2>5. \A i, j \in told : said[i].id = said[j].id => i = j
    BY <2>2, <2>3 DEF ToldOnce, IsPrompt
  <2>6. \A q \in Queues : DOMAIN queue[q] = 1 .. Len(queue[q])
    BY <2>0 DEF QueueTyped
  <2>7. Queued("steer") = NumbersOf(queue["steer"]) /\ Queued("follow") = NumbersOf(queue["follow"])
    BY <2>6 DEF Queues, Queued, IdsOf, List, ToSet, NumbersOf
  <2>8. \A q \in Queues : \A i, j \in DOMAIN queue[q] : queue[q][i].id = queue[q][j].id => i = j
    BY <2>0, <2>6 DEF QueueTyped, Numbered
  <2> HIDE DEF T, told
  <2>9. ToSet(places) = {withdrawn, Queued("steer"), Queued("follow"), IdsOf(moving), T}
    <3>1. DOMAIN places = 1 .. 5
      OBVIOUS
    <3>2. 1 .. 5 = {1, 2, 3, 4, 5}
      OBVIOUS
    <3> QED BY <3>1, <3>2 DEF ToSet
  <2>10. UNION ToSet(places) = 1 .. sent
    <3>1. UNION ToSet(places) = withdrawn \cup Queued("steer") \cup Queued("follow") \cup IdsOf(moving) \cup T
      BY <2>9
    <3> HIDE DEF places
    <3> QED BY <2>0, <2>2, <2>4, <2>7, <3>1 DEF Places, Split
  <2>11. \A i, j \in DOMAIN places : i < j => places[i] \cap places[j] = {}
    <3>1. DOMAIN places = 1 .. 5
      OBVIOUS
    <3>2. \A i, j \in 1 .. 5 : i < j =>
             \/ i = 1 /\ j \in {2, 3, 4, 5}
             \/ i = 2 /\ j \in {3, 4, 5}
             \/ i = 3 /\ j \in {4, 5}
             \/ i = 4 /\ j = 5
      OBVIOUS
    <3>3. /\ places[1] = withdrawn /\ places[2] = Queued("steer") /\ places[3] = Queued("follow")
          /\ places[4] = IdsOf(moving) /\ places[5] = T
      OBVIOUS
    <3>4. /\ withdrawn \cap Queued("steer") = {} /\ withdrawn \cap Queued("follow") = {}
          /\ withdrawn \cap IdsOf(moving) = {} /\ withdrawn \cap T = {}
          /\ Queued("steer") \cap Queued("follow") = {} /\ Queued("steer") \cap IdsOf(moving) = {}
          /\ Queued("steer") \cap T = {} /\ Queued("follow") \cap IdsOf(moving) = {}
          /\ Queued("follow") \cap T = {} /\ IdsOf(moving) \cap T = {}
      BY <2>0, <2>2, <2>4, <2>7 DEF Places, Split
    <3> HIDE DEF places
    <3> QED BY <3>1, <3>2, <3>3, <3>4
  <2>12. pc = "ended" /\ pending # <<>> => cancelled
    BY DEF PromptInv, OnlyCancelled
  <2> QED BY <2>5, <2>8, <2>10, <2>11, <2>12 DEF PromptsAreSomewhere, said, told, T
<1> QED BY <1>1, Invariance, PTL

-----------------------------------------------------------------------------
(* What a slow client has seen.                                              *)

\* A client that acts on an old listing holds, of each entry, a version that is no newer
\* than the entry; where it is as old, so are the text and the queue.  An entry on its
\* way between the queues gets a new version before anyone can name it again.
VersionInv ==
    \A r \in seen :
        /\ r.id \in 1 .. sent
        /\ \A q \in Queues : \A e \in EntriesOf(queue[q]) : e.id = r.id =>
              /\ r.version <= e.version
              /\ r.version = e.version => q = r.from /\ e.text = r.text
        /\ \A e \in moving : e.id = r.id => r.version <= e.version

LEMMA EntriesInQueue ==
    ASSUME QueueTyped, NEW q \in Queues
    PROVE  /\ EntriesOf(queue[q]) \subseteq Entry
           /\ List(q) = EntriesOf(queue[q])
<1>1. queue[q] \in Seq(Entry)
  BY DEF QueueTyped
<1>2. DOMAIN queue[q] = 1 .. Len(queue[q]) /\ \A i \in 1 .. Len(queue[q]) : queue[q][i] \in Entry
  BY <1>1, LenProperties, ElementOfSeq
<1> QED BY <1>2 DEF EntriesOf, List, ToSet

\* The entries of a step are entries of before, newer ones with the same number, or new.
LEMMA VersionsStay ==
    ASSUME VersionInv, QueueTyped, seen' = seen, sent' \in Nat, sent' >= sent,
           \A q \in Queues : EntriesOf(queue'[q]) \subseteq Entry,
           \A q \in Queues : \A e \in EntriesOf(queue'[q]) :
              \/ e \in EntriesOf(queue[q])
              \/ \E p \in Queues : \E d \in EntriesOf(queue[p]) : d.id = e.id /\ d.version < e.version
              \/ \E d \in moving : d.id = e.id /\ d.version < e.version
              \/ e.id = sent + 1,
           \A e \in moving' : e \in moving \/ \E q \in Queues : e \in EntriesOf(queue[q])
    PROVE  VersionInv'
<1> SUFFICES ASSUME NEW r \in seen
             PROVE  /\ r.id \in 1 .. sent'
                    /\ \A q \in Queues : \A e \in EntriesOf(queue'[q]) : e.id = r.id =>
                          /\ r.version <= e.version
                          /\ r.version = e.version => q = r.from /\ e.text = r.text
                    /\ \A e \in moving' : e.id = r.id => r.version <= e.version
  BY DEF VersionInv
<1>0. /\ sent \in Nat /\ r.id \in 1 .. sent /\ r.id # sent + 1 /\ r.version \in Int
      /\ \A e \in Entry : e.version \in Int
      /\ moving \subseteq Entry
  BY PromptsAssumption DEF QueueTyped, VersionInv, Listed, Entry
<1>1. r.id \in 1 .. sent'
  BY <1>0
<1>2. ASSUME NEW q \in Queues, NEW e \in EntriesOf(queue'[q]), e.id = r.id
      PROVE  r.version <= e.version /\ (r.version = e.version => q = r.from /\ e.text = r.text)
  <2>0. e \in Entry
    BY <1>2
  <2>1. CASE e \in EntriesOf(queue[q])
    BY <1>2, <2>1 DEF VersionInv
  <2>2. ASSUME NEW d \in Entry, d.id = e.id, d.version < e.version, r.version <= d.version
        PROVE  r.version < e.version /\ r.version <= e.version
    BY <1>0, <2>0, <2>2
  <2>3. ASSUME NEW p \in Queues, NEW d \in EntriesOf(queue[p]), d.id = e.id, d.version < e.version
        PROVE  r.version < e.version /\ r.version <= e.version
    <3>1. r.version <= d.version /\ d \in Entry
      BY <1>2, <2>3, EntriesInQueue DEF VersionInv
    <3> QED BY <2>2, <2>3, <3>1
  <2>4. ASSUME NEW d \in moving, d.id = e.id, d.version < e.version
        PROVE  r.version < e.version /\ r.version <= e.version
    <3>1. r.version <= d.version /\ d \in Entry
      BY <1>0, <1>2, <2>4 DEF VersionInv
    <3> QED BY <2>2, <2>4, <3>1
  <2>5. e.id # sent + 1
    BY <1>0, <1>2
  <2>6. CASE r.version < e.version /\ r.version <= e.version
    BY <1>0, <2>0, <2>6
  <2> QED BY <1>2, <2>1, <2>3, <2>4, <2>5, <2>6
<1>3. ASSUME NEW e \in moving', e.id = r.id PROVE r.version <= e.version
  BY <1>3 DEF VersionInv
<1> QED BY <1>1, <1>2, <1>3

\* One queue changes.
LEMMA VersionsOfOne ==
    ASSUME VersionInv, QueueTyped, seen' = seen, sent' \in Nat, sent' >= sent,
           NEW q \in Queues, NEW s \in Seq(Entry), queue' = [queue EXCEPT ![q] = s],
           \A e \in EntriesOf(s) :
              \/ e \in EntriesOf(queue[q])
              \/ \E d \in EntriesOf(queue[q]) : d.id = e.id /\ d.version < e.version
              \/ \E d \in moving : d.id = e.id /\ d.version < e.version
              \/ e.id = sent + 1,
           \A e \in moving' : e \in moving \/ e \in EntriesOf(queue[q])
    PROVE  VersionInv'
<1>1. queue'[q] = s /\ \A o \in Queues : o # q => queue'[o] = queue[o]
  BY DEF QueueTyped
<1>2. EntriesOf(s) \subseteq Entry
  BY ElementOfSeq DEF EntriesOf
<1>3. \A o \in Queues : EntriesOf(queue'[o]) \subseteq Entry
  BY <1>1, <1>2, EntriesInQueue
<1>4. \A o \in Queues : \A e \in EntriesOf(queue'[o]) :
         \/ e \in EntriesOf(queue[o])
         \/ \E p \in Queues : \E d \in EntriesOf(queue[p]) : d.id = e.id /\ d.version < e.version
         \/ \E d \in moving : d.id = e.id /\ d.version < e.version
         \/ e.id = sent + 1
  BY <1>1
<1>5. \A e \in moving' : e \in moving \/ \E o \in Queues : e \in EntriesOf(queue[o])
  OBVIOUS
<1> QED BY <1>3, <1>4, <1>5, VersionsStay

LEMMA VersionsKept ==
    ASSUME VersionInv, UNCHANGED <<queue, moving, seen, sent>>
    PROVE  VersionInv'
BY DEF VersionInv

LEMMA SentIsCounted == ASSUME QueueTyped PROVE sent \in Nat /\ sent >= sent /\ sent + 1 \in Nat /\ sent + 1 >= sent
BY PromptsAssumption DEF QueueTyped

LEMMA LookVersions ==
    ASSUME VersionInv, QueueTyped, Places, Look
    PROVE  VersionInv'
<1>1. PICK q \in Queues : \E e \in List(q) : seen' = {Noted(e, q)}
  BY DEF Look
<1>2. PICK e \in EntriesOf(queue[q]) : seen' = {Noted(e, q)}
  BY <1>1, EntriesInQueue
<1> DEFINE r == Noted(e, q)
<1>3. r.id = e.id /\ r.version = e.version /\ r.text = e.text /\ r.from = q
  BY DEF Noted
<1>4. e \in Entry /\ e.version \in Int
  BY EntriesInQueue DEF Entry
<1>5. \A p \in Queues : \A d \in EntriesOf(queue[p]) : d.id \in NumbersOf(queue[p])
  BY DEF EntriesOf, NumbersOf
<1>6. \A d \in EntriesOf(queue[q]) : d.id = e.id => d = e
  BY DEF QueueTyped, Numbered, EntriesOf
<1>7. \A p \in Queues : p # q => NumbersOf(queue[p]) \cap NumbersOf(queue[q]) = {}
  BY DEF Places, Split, Queues
<1>8. e.id \in 1 .. sent /\ e.id \notin IdsOf(moving)
  BY <1>5 DEF Places, Split, Queues
<1>9. UNCHANGED <<queue, moving, sent>>
  BY DEF Look
<1>10. \A p \in Queues : \A d \in EntriesOf(queue[p]) : d.id = e.id => p = q /\ d = e
  BY <1>5, <1>6, <1>7
<1>11. \A d \in moving : d.id # e.id
  BY <1>8 DEF IdsOf
<1> HIDE DEF r
<1>12. seen' = {r}
  BY <1>2 DEF r
<1>13. e.version <= e.version
  BY <1>4
<1> QED BY <1>3, <1>8, <1>9, <1>10, <1>11, <1>12, <1>13 DEF VersionInv

LEMMA ComingVersions ==
    ASSUME VersionInv, QueueTyped, Places, (\E q \in Queues : Enqueue(q)) \/ PushExisting
    PROVE  VersionInv'
<1>1. ASSUME NEW q \in Queues, Enqueue(q) PROVE VersionInv'
  <2> DEFINE e == [id |-> sent + 1, version |-> 0, text |-> 0]
             s == Append(queue[q], e)
  <2>1. /\ sent < MaxPrompts /\ sent' = sent + 1 /\ UNCHANGED <<moving, seen>>
        /\ queue' = [queue EXCEPT ![q] = s]
    BY <1>1 DEF Enqueue
  <2>2. e \in Entry /\ e.id = sent + 1
    BY <2>1, SentIsCounted, PromptsAssumption DEF Entry, Prompts
  <2>3. queue[q] \in Seq(Entry)
    BY DEF QueueTyped
  <2> HIDE DEF e
  <2>4. s \in Seq(Entry) /\ EntriesOf(s) \subseteq EntriesOf(queue[q]) \cup {e}
    BY <2>2, <2>3, PutLast
  <2> HIDE DEF s
  <2>5. \A d \in EntriesOf(s) : d \in EntriesOf(queue[q]) \/ d.id = sent + 1
    BY <2>2, <2>4
  <2> QED BY <2>1, <2>4, <2>5, SentIsCounted, VersionsOfOne
<1>2. ASSUME PushExisting PROVE VersionInv'
  <2>1. PICK e \in moving : /\ moving' = moving \ {e}
                            /\ queue' = [queue EXCEPT !["steer"] = Append(queue["steer"], Bumped(e))]
    BY <1>2 DEF PushExisting
  <2>2. UNCHANGED <<seen, sent>>
    BY <1>2 DEF PushExisting
  <2> DEFINE b == Bumped(e)
             s == Append(queue["steer"], b)
  <2>3. e \in Entry /\ e.version < MaxVersion /\ "steer" \in Queues /\ queue["steer"] \in Seq(Entry)
    BY DEF QueueTyped, Queues
  <2>4. b \in Entry /\ b.id = e.id
    BY <2>3, EntriesTyped
  <2>5. e.version < b.version
    BY <2>3 DEF Bumped, Entry
  <2> HIDE DEF b
  <2>6. s \in Seq(Entry) /\ EntriesOf(s) \subseteq EntriesOf(queue["steer"]) \cup {b}
    BY <2>3, <2>4, PutLast
  <2>7. queue' = [queue EXCEPT !["steer"] = s]
    BY <2>1 DEF b
  <2> HIDE DEF s
  <2>8. \A d \in EntriesOf(s) :
           d \in EntriesOf(queue["steer"]) \/ \E c \in moving : c.id = d.id /\ c.version < d.version
    BY <2>4, <2>5, <2>6
  <2>9. \A d \in moving' : d \in moving
    BY <2>1
  <2>10. sent' \in Nat /\ sent' >= sent
    BY <2>2, SentIsCounted
  <2> QED BY <2>2, <2>3, <2>6, <2>7, <2>8, <2>9, <2>10, VersionsOfOne
<1> QED BY <1>1, <1>2

LEMMA LeavingVersions ==
    ASSUME VersionInv, QueueTyped,
           \/ \E r \in Listed : Withdraw(r) \/ Promote(r)
           \/ \E q \in Queues : Clear(q) \/ Drain(q)
    PROVE  VersionInv'
<1>0. seen' = seen /\ sent' = sent
  BY DEF Withdraw, Promote, Clear, Drain
<1>1. ASSUME NEW q \in Queues, NEW s \in Seq(Entry), queue' = [queue EXCEPT ![q] = s],
             EntriesOf(s) \subseteq EntriesOf(queue[q]),
             moving' = moving \/ \E e \in EntriesOf(queue[q]) : moving' = moving \cup {e}
      PROVE  VersionInv'
  <2>1. \A e \in moving' : e \in moving \/ e \in EntriesOf(queue[q])
    BY <1>1
  <2>2. sent' \in Nat /\ sent' >= sent
    BY <1>0, SentIsCounted
  <2>3. \A e \in EntriesOf(s) : e \in EntriesOf(queue[q])
    BY <1>1
  <2> QED BY <1>0, <1>1, <2>1, <2>2, <2>3, VersionsOfOne
<1>2. ASSUME NEW r \in Listed, Withdraw(r) PROVE VersionInv'
  <2>1. PICK i \in DOMAIN queue[r.from] :
           Found(r, i) /\ queue' = [queue EXCEPT ![r.from] = RemoveAt(queue[r.from], i)]
    BY <1>2 DEF Withdraw
  <2>2. /\ r.from \in Queues /\ queue[r.from] \in Seq(Entry) /\ Numbered(queue[r.from])
        /\ i \in 1 .. Len(queue[r.from])
    BY <2>1, FoundTyped
  <2>3. moving' = moving
    BY <1>2 DEF Withdraw
  <2>4. /\ RemoveAt(queue[r.from], i) \in Seq(Entry)
        /\ EntriesOf(RemoveAt(queue[r.from], i)) \subseteq EntriesOf(queue[r.from])
    BY <2>2, TakenOut
  <2> QED BY <1>1, <2>1, <2>2, <2>3, <2>4
<1>3. ASSUME NEW r \in Listed, Promote(r) PROVE VersionInv'
  <2>1. PICK i \in DOMAIN queue["follow"] :
           /\ Matches(r, i) /\ moving' = moving \cup {queue["follow"][i]}
           /\ queue' = [queue EXCEPT !["follow"] = RemoveAt(queue["follow"], i)]
    BY <1>3 DEF Promote
  <2>2. /\ "follow" \in Queues /\ queue["follow"] \in Seq(Entry) /\ Numbered(queue["follow"])
        /\ i \in 1 .. Len(queue["follow"])
    BY <2>1 DEF QueueTyped, Queues
  <2>3. /\ RemoveAt(queue["follow"], i) \in Seq(Entry)
        /\ EntriesOf(RemoveAt(queue["follow"], i)) \subseteq EntriesOf(queue["follow"])
    BY <2>2, TakenOut
  <2>4. queue["follow"][i] \in EntriesOf(queue["follow"])
    BY <2>2 DEF EntriesOf
  <2> QED BY <1>1, <2>1, <2>2, <2>3, <2>4
<1>4. ASSUME NEW q \in Queues, Clear(q) PROVE VersionInv'
  <2>1. queue' = [queue EXCEPT ![q] = <<>>] /\ moving' = moving
    BY <1>4 DEF Clear
  <2>2. <<>> \in Seq(Entry) /\ EntriesOf(<<>>) \subseteq EntriesOf(queue[q])
    <3>1. Len(<<>>) = 0 /\ 1 .. 0 = {}
      OBVIOUS
    <3> QED BY <3>1 DEF EntriesOf
  <2> QED BY <1>1, <2>1, <2>2
<1>5. ASSUME NEW q \in Queues, Drain(q) PROVE VersionInv'
  <2>1. queue' = [queue EXCEPT ![q] = SubSeq(queue[q], 2, Len(queue[q]))] /\ moving' = moving
    BY <1>5 DEF Drain
  <2>2. queue[q] \in Seq(Entry) /\ Numbered(queue[q])
    BY DEF QueueTyped
  <2>3. /\ SubSeq(queue[q], 2, Len(queue[q])) \in Seq(Entry)
        /\ EntriesOf(SubSeq(queue[q], 2, Len(queue[q]))) \subseteq EntriesOf(queue[q])
    BY <2>2, TakenFirst
  <2> QED BY <1>1, <2>1, <2>3
<1> QED BY <1>2, <1>3, <1>4, <1>5

\* An entry that is edited or moved is newer than before.
LEMMA EditingVersions ==
    ASSUME VersionInv, QueueTyped, NEW r \in Listed, Update(r) \/ Move(r)
    PROVE  VersionInv'
<1> DEFINE q == r.from
<1>0. UNCHANGED <<moving, seen, sent>> /\ r.version < MaxVersion
  BY DEF Update, Move
<1>1. ASSUME NEW s, q \in Queues, s \in Seq(Entry), queue' = [queue EXCEPT ![q] = s],
             \A k \in 1 .. Len(s) :
                \/ s[k] \in EntriesOf(queue[q])
                \/ \E d \in EntriesOf(queue[q]) : d.id = s[k].id /\ d.version < s[k].version
      PROVE  VersionInv'
  <2>1. \A e \in EntriesOf(s) :
           \/ e \in EntriesOf(queue[q])
           \/ \E d \in EntriesOf(queue[q]) : d.id = e.id /\ d.version < e.version
    BY <1>1 DEF EntriesOf
  <2>2. \A e \in moving' : e \in moving
    BY <1>0
  <2>3. sent' \in Nat /\ sent' >= sent
    BY <1>0, SentIsCounted
  <2> HIDE DEF q
  <2> QED BY <1>0, <1>1, <2>1, <2>2, <2>3, VersionsOfOne
<1>2. ASSUME NEW e \in Entry PROVE Bumped(e).version > e.version
  BY DEF Bumped, Entry
<1>3. CASE Update(r)
  <2>1. PICK i \in DOMAIN queue[q] :
           /\ Matches(r, i)
           /\ queue' = [queue EXCEPT ![r.from][i] = Bumped(Reworded(queue[r.from][i]))]
    BY <1>3 DEF Update
  <2>2. /\ q \in Queues /\ queue[q] \in Seq(Entry)
        /\ i \in 1 .. Len(queue[q]) /\ queue[q][i] \in Entry
    BY <2>1, FoundTyped DEF Matches
  <2> DEFINE e == Bumped(Reworded(queue[q][i]))
             s == [queue[q] EXCEPT ![i] = e]
  <2>3. /\ e \in Entry /\ e.id = queue[q][i].id /\ queue[q][i].version < e.version
    <3>1. queue[q][i].version < MaxVersion
      BY <1>0, <2>1 DEF Matches
    <3>2. /\ Reworded(queue[q][i]) \in Entry /\ Reworded(queue[q][i]).id = queue[q][i].id
          /\ Reworded(queue[q][i]).version = queue[q][i].version
      BY <2>2, EntriesTyped
    <3>3. queue[q][i].version \in Int /\ e.version \in Int
      BY <2>2, <3>2 DEF Bumped, Entry
    <3>4. e.version > queue[q][i].version
      BY <1>2, <3>2
    <3> QED BY <3>1, <3>2, <3>3, <3>4, EntriesTyped
  <2>4. queue' = [queue EXCEPT ![q] = s]
    BY <2>1, <2>2 DEF QueueTyped
  <2> HIDE DEF e
  <2>5. s \in Seq(Entry) /\ Len(s) = Len(queue[q]) /\ \A k \in 1 .. Len(s) : s[k] = IF k = i THEN e ELSE queue[q][k]
    BY <2>2, <2>3
  <2>6. queue[q][i] \in EntriesOf(queue[q]) /\ \A k \in 1 .. Len(s) : queue[q][k] \in EntriesOf(queue[q])
    BY <2>2, <2>5 DEF EntriesOf
  <2> HIDE DEF s
  <2>7. \A k \in 1 .. Len(s) :
           \/ s[k] \in EntriesOf(queue[q])
           \/ \E d \in EntriesOf(queue[q]) : d.id = s[k].id /\ d.version < s[k].version
    BY <2>3, <2>5, <2>6
  <2> HIDE DEF q
  <2> QED BY <1>1, <2>2, <2>4, <2>5, <2>7
<1>4. CASE Move(r)
  <2>1. PICK i \in DOMAIN queue[q], j \in DOMAIN queue[q] :
           /\ Matches(r, i)
           /\ j \in {i - 1, i + 1}
           /\ queue[r.from][j].version < MaxVersion
           /\ queue' = [queue EXCEPT ![r.from][i] = Bumped(queue[r.from][j]),
                                     ![r.from][j] = Bumped(queue[r.from][i])]
    BY <1>4 DEF Move
  <2>2. /\ q \in Queues /\ queue[q] \in Seq(Entry)
        /\ i \in 1 .. Len(queue[q]) /\ queue[q][i] \in Entry
    BY <2>1, FoundTyped DEF Matches
  <2>3. j \in 1 .. Len(queue[q]) /\ queue[q][j] \in Entry /\ i # j
    BY <2>1, <2>2
  <2> DEFINE d == Bumped(queue[q][i])
             e == Bumped(queue[q][j])
             s == [queue[q] EXCEPT ![i] = e, ![j] = d]
  <2>4. /\ d \in Entry /\ d.id = queue[q][i].id /\ queue[q][i].version < d.version
        /\ e \in Entry /\ e.id = queue[q][j].id /\ queue[q][j].version < e.version
    <3>1. queue[q][i].version < MaxVersion
      BY <1>0, <2>1 DEF Matches
    <3>2. d \in Entry /\ d.id = queue[q][i].id /\ e \in Entry /\ e.id = queue[q][j].id
      BY <2>1, <2>2, <2>3, <3>1, EntriesTyped
    <3>3. d.version > queue[q][i].version /\ e.version > queue[q][j].version
      BY <1>2, <2>2, <2>3
    <3> HIDE DEF d, e
    <3>4. \A c \in Entry : c.version \in Int
      BY DEF Entry
    <3>5. /\ d.version \in Int /\ e.version \in Int
          /\ queue[q][i].version \in Int /\ queue[q][j].version \in Int
      BY <2>2, <2>3, <3>2, <3>4
    <3> QED BY <3>2, <3>3, <3>5
  <2>5. queue' = [queue EXCEPT ![q] = s]
    BY <2>1, <2>2, <2>3 DEF QueueTyped
  <2> HIDE DEF d, e
  <2>6. s \in Seq(Entry) /\ Len(s) = Len(queue[q])
        /\ \A k \in 1 .. Len(s) : s[k] = IF k = j THEN d ELSE IF k = i THEN e ELSE queue[q][k]
    BY <2>2, <2>3, <2>4
  <2>7. /\ queue[q][i] \in EntriesOf(queue[q]) /\ queue[q][j] \in EntriesOf(queue[q])
        /\ \A k \in 1 .. Len(s) : queue[q][k] \in EntriesOf(queue[q])
    BY <2>2, <2>3, <2>6 DEF EntriesOf
  <2> HIDE DEF s
  <2>8. \A k \in 1 .. Len(s) :
           \/ s[k] \in EntriesOf(queue[q])
           \/ \E c \in EntriesOf(queue[q]) : c.id = s[k].id /\ c.version < s[k].version
    BY <2>4, <2>6, <2>7
  <2> HIDE DEF q
  <2> QED BY <1>1, <2>2, <2>5, <2>6, <2>8
<1> QED BY <1>3, <1>4

\* The loop touches the queues only to take a prompt.
LEMMA LoopDrains ==
    ASSUME Loop
    PROVE  UNCHANGED queueVars \/ \E q \in Queues : Drain(q)
<1>1. "steer" \in Queues /\ "follow" \in Queues
  BY DEF Queues
<1> QED BY <1>1 DEF Loop, Arrive, Begin, Open, LeaveCancelled, StopAtLimit, Ask, AnswerFails, AnswerTalks,
      AnswerCalls, SkipRepeated, Accept, Execute, Executed, Steer, Nudge, FollowUp, CheckFits,
      CheckSuppressed, CheckExhausted, CheckCompacts, PruneIsEnough, Summarize, Succeed, StageFails,
      PruneAtEnd

LEMMA NextVersions == PromptInv /\ VersionInv /\ [Next]_vars => VersionInv'
<1> SUFFICES ASSUME PromptInv, VersionInv, [Next]_vars PROVE VersionInv'
  OBVIOUS
<1>0. QueueTyped /\ Places
  BY DEF PromptInv
<1>1. CASE UNCHANGED queueVars
  BY <1>1, VersionsKept DEF queueVars
<1>2. ASSUME NEW q \in Queues, Drain(q) PROVE VersionInv'
  BY <1>0, <1>2, LeavingVersions
<1>3. CASE Clients
  <2>1. CASE Look
    BY <1>0, <2>1, LookVersions
  <2>2. CASE (\E q \in Queues : Enqueue(q)) \/ PushExisting
    BY <1>0, <2>2, ComingVersions
  <2>3. ASSUME NEW r \in Requests, Withdraw(r) \/ Promote(r) PROVE VersionInv'
    BY <1>0, <2>3, RequestsTyped, LeavingVersions
  <2>4. ASSUME NEW r \in Requests, Update(r) \/ Move(r) PROVE VersionInv'
    BY <1>0, <2>4, RequestsTyped, EditingVersions
  <2>5. ASSUME NEW q \in Queues, Clear(q) PROVE VersionInv'
    BY <1>0, <2>5, LeavingVersions
  <2> QED BY <1>3, <2>1, <2>2, <2>3, <2>4, <2>5 DEF Clients, Dispatch, Edit
<1> QED BY <1>1, <1>2, <1>3, LoopDrains DEF Next, Cancel, ClientActs, Ended, vars

\* The version a client has seen stands for the text and the queue of an entry
\* (VersionsTellTheTruth): an edit that names an old version can never overwrite a newer
\* text or move an entry another client has promoted (update, move, push_existing).
THEOREM StaleEditsAreRefused == Spec => []VersionsTellTheTruth
<1>1. Init => VersionInv
  BY DEF Init, QueuesInit, VersionInv
<1>2. PromptInv /\ VersionInv => VersionsTellTheTruth
  BY EntriesInQueue DEF PromptInv, VersionInv, VersionsTellTheTruth
<1> QED BY <1>1, <1>2, NextVersions, Invariance, PTL DEF Spec

-----------------------------------------------------------------------------
(* Types.                                                                    *)

OneSeen == seen = {} \/ \E x : seen = {x}

LEMMA OneSeenStays == OneSeen /\ [Next]_vars => OneSeen'
<1> SUFFICES ASSUME OneSeen, [Next]_vars PROVE OneSeen'
  OBVIOUS
<1>1. seen' = seen \/ \E x : seen' = {x}
  BY LoopDrains DEF Next, Cancel, ClientActs, Ended, vars, queueVars, Clients, Dispatch, Edit, Enqueue, Look, Update,
      Move, Withdraw, Promote, PushExisting, Clear, Drain
<1> QED BY <1>1 DEF OneSeen

\* The state of a run has the types its parts declare (TypeOK).
THEOREM TypeCorrect == Spec => []TypeOK
<1>1. BoundInv /\ OthersTyped /\ PromptInv /\ OneSeen => TypeOK
  <2> SUFFICES ASSUME BoundInv, OthersTyped, PromptInv, OneSeen PROVE TypeOK
    OBVIOUS
  <2>1. Cardinality(seen) <= 1
    <3>1. CASE seen = {}
      <4>1. Cardinality(seen) = 0
        BY <3>1, FS_EmptySet
      <4> QED BY <4>1
    <3>2. CASE seen # {}
      <4>1. PICK x : seen = {x}
        BY <3>2 DEF OneSeen
      <4>2. Cardinality(seen) = 1
        BY <4>1, FS_Singleton
      <4> QED BY <4>2
    <3> QED BY <3>1, <3>2
  <2>2. QueuesTypeOK
    BY <2>1 DEF PromptInv, QueueTyped, Places, Split, QueuesTypeOK
  <2>3. {turns, requests, repeats, nudges, notices} \subseteq Nat
    BY TurnLimit DEF BoundInv, CountsTyped, OthersTyped
  <2>4. {attempted, suppressed, cancelled} \subseteq BOOLEAN
    BY DEF BoundInv, CountsTyped, OthersTyped
  <2> QED BY <2>2, <2>3, <2>4 DEF BoundInv, CountsTyped, TypeOK
<1>2. Init => OneSeen
  BY DEF Init, QueuesInit, OneSeen
<1> QED BY <1>1, <1>2, OneSeenStays, Invariance, PTL DEF Spec
=============================================================================
