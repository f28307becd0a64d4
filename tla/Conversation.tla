---------------------------- MODULE Conversation ----------------------------
(* The messages of a context, and the pure algorithms that rewrite a history *)
(* before or between requests: the repair of tool exchanges, the cut of a    *)
(* compaction, the removal of judged calls.  A tool call is a model value or *)
(* a pair; of a text only its weight in tokens is kept.                      *)
EXTENDS Naturals, Sequences, FiniteSets, SequencesExt

Message(role, id, calls, stop) == [role |-> role, id |-> id, calls |-> calls, stop |-> stop]

User(n)           == Message("user", n, <<>>, "none")
Note              == Message("note", 0, <<>>, "none")       \* a user message of the loop
Summary           == Message("summary", 0, <<>>, "none")    \* the user message of a compaction
Extension         == Message("extension", 0, <<>>, "none")  \* seen by the user only
Assistant(n, calls, stop) == Message("assistant", n, calls, stop)
Result(c, how)    == Message("result", 0, <<c>>, how)

IsUser(m)      == m.role \in {"user", "note", "summary"}
IsAssistant(m) == m.role = "assistant"
IsResult(m)    == m.role = "result"
CallOf(m)      == m.calls[1]
Failures       == {"error", "overflow", "refused", "aborted"}
HasFailed(m)   == IsAssistant(m) /\ m.stop \in Failures

\* What s has at these places, in its order.
Picked(s, places) ==
    LET upTo[n \in 0 .. Len(s)] ==
            IF n = 0 THEN <<>>
            ELSE IF n \in places THEN Append(upTo[n - 1], s[n]) ELSE upTo[n - 1]
    IN  upTo[Len(s)]

-----------------------------------------------------------------------------
(* What every provider requires: the calls of an answer are followed at once *)
(* by one result each, in the order of the calls, and there is no other one. *)

ResultsOf(msgs, i) ==
    LET after == {j \in i + 1 .. Len(msgs) : ~IsResult(msgs[j])}
        end   == IF after = {} THEN Len(msgs) ELSE Min(after) - 1
    IN  [k \in 1 .. end - i |-> CallOf(msgs[i + k])]

Whole(msgs) ==
    /\ \A i \in DOMAIN msgs : ~IsResult(msgs[i]) =>
          ResultsOf(msgs, i) = IF IsAssistant(msgs[i]) THEN msgs[i].calls ELSE <<>>
    /\ msgs # <<>> => ~IsResult(msgs[1])

\* The same of a history in which failed answers, which no request shows, may
\* stand between the exchanges; no answer has the same call twice.
Answered(msgs) ==
    /\ \A i \in DOMAIN msgs : IsAssistant(msgs[i]) /\ ~HasFailed(msgs[i]) =>
          /\ IsInjective(msgs[i].calls)
          /\ \A k \in DOMAIN msgs[i].calls :
                /\ i + k \in DOMAIN msgs
                /\ IsResult(msgs[i + k]) /\ CallOf(msgs[i + k]) = msgs[i].calls[k]
    /\ \A j \in DOMAIN msgs : IsResult(msgs[j]) =>
          \E i \in 1 .. j - 1 :
             IsAssistant(msgs[i]) /\ ~HasFailed(msgs[i]) /\ j - i <= Len(msgs[i].calls)

Shown(msgs)  == Picked(msgs, {i \in DOMAIN msgs : msgs[i].role # "extension"})
Spoken(msgs) == Picked(msgs, {i \in DOMAIN msgs : ~HasFailed(msgs[i])})

-----------------------------------------------------------------------------
(* sanitize_tool_pairs: completes, orders and deduplicates tool exchanges.   *)

ForgetExchange(s) == [s EXCEPT !.pending = <<>>, !.unanswered = {}]

CompleteExchange(s) ==
    LET missing == Picked(s.pending, {k \in DOMAIN s.pending : s.pending[k] \in s.unanswered})
    IN  [result     |-> s.result \o [k \in DOMAIN missing |-> Result(missing[k], "missing")],
         pending    |-> <<>>,
         unanswered |-> {}]

\* The calls whose id has not come earlier in the answer.
Distinct(calls) ==
    Picked(calls, {k \in DOMAIN calls : \A j \in 1 .. k - 1 : calls[j] # calls[k]})

Repair(s, m) ==
    CASE IsAssistant(m) ->
            LET t     == CompleteExchange(s)
                calls == Distinct(m.calls)
            IN  IF HasFailed(m) THEN t
                ELSE [result     |-> Append(t.result, [m EXCEPT !.calls = calls]),
                      pending    |-> calls,
                      unanswered |-> ToSet(calls)]
      [] IsResult(m) ->
            IF CallOf(m) \in s.unanswered
            THEN [s EXCEPT !.result = Append(@, m), !.unanswered = @ \ {CallOf(m)}]
            ELSE s
      [] IsUser(m) ->
            LET t == CompleteExchange(s) IN [t EXCEPT !.result = Append(@, m)]
      [] OTHER -> [s EXCEPT !.result = Append(@, m)]

Sanitized(msgs) ==
    LET after[n \in 0 .. Len(msgs)] ==
            IF n = 0 THEN [result |-> <<>>, pending |-> <<>>, unanswered |-> {}]
                     ELSE Repair(after[n - 1], msgs[n])
    IN  CompleteExchange(after[Len(msgs)]).result

-----------------------------------------------------------------------------
(* plan_core: the first message that a compaction keeps.  Positions start at *)
(* 1; 0 stands for no plan.                                                  *)

Weight(m) == IF m.role = "extension" THEN 0 ELSE IF IsResult(m) THEN 2 ELSE 1

TokensFrom(msgs, i) == FoldLeft(LAMBDA n, m : n + Weight(m), 0, SubSeq(msgs, i, Len(msgs)))

IsAnyCut(m) == m.role # "extension"
IsValidCut(m) == IsUser(m) \/ IsAssistant(m)

LeastOr0(S)    == IF S = {} THEN 0 ELSE Min(S)
GreatestOr0(S) == IF S = {} THEN 0 ELSE Max(S)

SnapForward(msgs, i) == LeastOr0({j \in i .. Len(msgs) : IsValidCut(msgs[j])})

\* Where the walk from the end has gathered the budget.
Crossing(msgs, keep) ==
    GreatestOr0({i \in DOMAIN msgs : Weight(msgs[i]) > 0 /\ TokensFrom(msgs, i) >= keep})

FirstKept(msgs, keep) ==
    LET first     == SnapForward(msgs, 1)
        crossing  == Crossing(msgs, keep)
        snapped   == IF crossing = 0 THEN 0 ELSE SnapForward(msgs, crossing)
        candidate == IF snapped = 0 THEN first ELSE snapped
    IN  IF first = 0 THEN 1
        ELSE Min({k \in 1 .. candidate :
                      \A j \in k .. candidate - 1 : msgs[j].role = "extension"})

Plan(msgs, keep, minimum) ==
    LET k == Max({FirstKept(msgs, keep), Min({minimum, Len(msgs) + 1})})
    IN  IF msgs = <<>> \/ k = 1 THEN 0 ELSE k

Kept(msgs, k) == SubSeq(msgs, k, Len(msgs))

-----------------------------------------------------------------------------
(* prune: a judged call goes with its result; the head and the recent tail   *)
(* of the history stay as they are.                                          *)

\* The pieces of an answer are its calls; one without calls has a text, or is
\* "empty".
PlacesOfResult(msgs, c) == {j \in DOMAIN msgs : IsResult(msgs[j]) /\ CallOf(msgs[j]) = c}

CallIsOld(msgs, c, pinned) == TRUE
PairIsOld(msgs, c, pinned) == \A j \in PlacesOfResult(msgs, c) : j = Max(PlacesOfResult(msgs, c)) => j < pinned

Candidates(msgs, recent) ==
    LET pinned == IF Len(msgs) > recent THEN Len(msgs) - recent + 1 ELSE 1
    IN  UNION {{c \in ToSet(msgs[i].calls) : PairIsOld(msgs, c, pinned)} :
                   i \in {j \in 2 .. pinned - 1 : IsAssistant(msgs[j])}}

Pruned(msgs, remove) ==
    LET left(calls) == Picked(calls, {k \in DOMAIN calls : calls[k] \notin remove})
        edited      == [i \in DOMAIN msgs |-> [msgs[i] EXCEPT !.calls = left(@)]]
        stays(i)    == \/ edited[i].calls # <<>>
                       \/ msgs[i].calls = <<>> /\ msgs[i].stop # "empty"
    IN  IF remove = {} THEN msgs
        ELSE Picked(edited, {i \in DOMAIN msgs : stays(i)})
=============================================================================
