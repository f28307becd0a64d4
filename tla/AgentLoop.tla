------------------------------ MODULE AgentLoop ------------------------------
(***************************************************************************)
(* One run of the engine (runner/driver.rs run_loop): requests to the      *)
(* model, the tool calls of each answer, steering and follow-up prompts,   *)
(* the guards against repeated calls and empty thoughts, and the           *)
(* compaction of the context with its one retry after an overflow or a     *)
(* refusal (runner/compaction_check.rs, context/compaction/controller.rs). *)
(* The provider, the tools, the summarizer and the judge are choices; the  *)
(* clients edit the queues, and may cancel, at every step.                 *)
(***************************************************************************)
EXTENDS PromptQueues, Conversation

CONSTANTS
    Histories,      \* contexts a run may start from
    MaxTurns,       \* ExecutionLimits.max_turns
    MaxCalls,       \* bound: calls in one answer
    BatchSize,      \* calls between two looks at the steering queue
    Threshold,      \* DoomLoopDetector.threshold
    MaxNudges,      \* ThinkingOnlyGuard MAX_RETRIES
    MaxNotices,     \* bound: completion notices that arrive while the run lasts
    Keep,           \* tokens a compaction keeps
    Recent,         \* messages at the end that the judge never touches
    Judged          \* whether a judge is configured

ASSUME LoopAssumption ==
    /\ {MaxTurns, MaxCalls, BatchSize, Threshold, Keep, Recent} \subseteq Nat \ {0}
    /\ {MaxNudges, MaxNotices} \subseteq Nat
    /\ Judged \in BOOLEAN

\* What a run starts from, and what it leaves: every spoken answer is followed by
\* the results of its calls, other messages have no calls, a summary comes first.
Calls    == Nat \X Nat
Messages == [role : {"user", "note", "summary", "extension", "assistant", "result"}, id : Nat,
             calls : Seq(Calls),
             stop : {"none", "stop", "thoughts", "empty", "calls", "length", "error", "overflow",
                     "refused", "aborted", "done", "skipped", "truncated"}]

Plain(m) == m.calls = <<>> /\ m.stop = "none"
Tidy(m)  == /\ IsResult(m) => Len(m.calls) = 1
            /\ ~IsResult(m) /\ ~IsAssistant(m) => Plain(m)
            /\ m.role = "summary" => m = Summary

Usable(h) ==
    /\ h \in Seq(Messages)
    /\ \A i \in DOMAIN h : Tidy(h[i]) /\ (h[i].role = "summary" => i = 1)
    /\ Answered(h)

ASSUME HistoriesAssumption == \A h \in Histories : Usable(h)

VARIABLES
    pc,             \* what the loop does next
    context,        \* context.messages: what the next request will show
    fresh,          \* new_messages: what the run reports
    pending,        \* messages to put in before the next request
    calls,          \* the calls of the answer that wait for a result
    results,        \* the results of the batch so far
    turns,          \* ExecutionTracker.turns
    requests,       \* requests made
    repeats,        \* times the last batch of calls came in a row
    nudges,         \* ThinkingOnlyGuard.retries
    notices,        \* completion notices delivered
    attempted,      \* overflow_recovery_attempted
    suppressed,     \* threshold_suppression
    check,          \* the compaction check under way: its place, reason, stage
    cancelled       \* the cancellation token

loopVars == <<pc, context, fresh, pending, calls, results, turns, requests, repeats,
              nudges, notices, attempted, suppressed, check, cancelled>>
vars     == <<loopVars, queueVars>>
talk     == <<context, fresh, pending>>
batch    == <<calls, results>>
counts   == <<turns, requests, repeats, nudges, notices>>
policy   == <<attempted, suppressed, check>>

NoCheck == [at |-> "none", for |-> "none", stage |-> "none"]

LoopInit ==
    /\ pc = "arriving"
    /\ context \in Histories
    /\ fresh = <<User(0)>>
    /\ pending = <<>>
    /\ calls = <<>> /\ results = <<>>
    /\ turns = 0 /\ requests = 0 /\ repeats = 0 /\ nudges = 0 /\ notices = 0
    /\ attempted = FALSE /\ suppressed = FALSE
    /\ check = NoCheck
    /\ cancelled = FALSE

Init == QueuesInit /\ LoopInit

Go(place)      == pc' = place
Say(msgs)      == /\ context' = context \o msgs
                  /\ fresh' = fresh \o msgs
CheckAt(place) == /\ pc' = "checking"
                  /\ check' = [NoCheck EXCEPT !.at = place]
Injected(ids)  == [i \in DOMAIN ids |-> User(ids[i])]

-----------------------------------------------------------------------------
(* The prompt arrives: the answer before it is checked first.                *)

Answers == {i \in DOMAIN context : IsAssistant(context[i])}

Arrive ==
    /\ pc = "arriving"
    /\ IF Answers = {} THEN Go("beginning") /\ UNCHANGED check ELSE CheckAt("prompt")
    /\ UNCHANGED <<talk, batch, counts, attempted, suppressed, cancelled, queueVars>>

Begin ==
    /\ pc = "beginning"
    /\ context' = Append(context, User(0))
    /\ attempted' = FALSE
    /\ Go("opening")
    /\ UNCHANGED <<fresh, pending, batch, counts, suppressed, check, cancelled, queueVars>>

\* The judge may prune: some calls it was shown, with their results.
MayPrune == IF Judged THEN SUBSET Candidates(context, Recent) ELSE {{}}

Open ==
    /\ pc = "opening"
    /\ \E remove \in MayPrune : context' = Pruned(context, remove)
    /\ pending' = Injected(Taken("steer"))
    /\ Drain("steer")
    /\ Go("top")
    /\ UNCHANGED <<fresh, batch, counts, policy, cancelled>>

-----------------------------------------------------------------------------
(* The top of the loop: pending messages go in, then the next request.       *)

LeaveWhenDelivered ==
    /\ pc = "top"
    /\ cancelled
    /\ Go(IF pending = <<>> THEN "ended" ELSE "top")
    /\ UNCHANGED <<talk, batch, counts, policy, cancelled, queueVars>>

LeaveCancelled ==
    /\ pc = "top"
    /\ cancelled
    /\ Go("ended")
    /\ UNCHANGED <<talk, batch, counts, policy, cancelled, queueVars>>

Limited == turns >= MaxTurns
Resets == IF pending = <<>> THEN attempted ELSE FALSE

StopAtLimit ==
    /\ pc = "top"
    /\ ~cancelled
    /\ Limited
    /\ Say(Append(pending, Note))
    /\ pending' = <<>>
    /\ attempted' = Resets
    /\ Go("ended")
    /\ UNCHANGED <<batch, counts, suppressed, check, cancelled, queueVars>>

Ask ==
    /\ pc = "top"
    /\ ~cancelled
    /\ ~Limited
    /\ Say(pending)
    /\ pending' = <<>>
    /\ attempted' = Resets
    /\ requests' = requests + 1
    /\ Go("streaming")
    /\ UNCHANGED <<batch, turns, repeats, nudges, notices, suppressed, check, cancelled, queueVars>>

-----------------------------------------------------------------------------
(* The answer.  One that is not an error clears the recovery attempt.        *)

CallsOf(n) == [k \in 1 .. n |-> <<requests, k>>]

AnswerFails(stop) ==
    /\ pc = "streaming"
    /\ stop \in Failures
    /\ stop = "aborted" => cancelled
    /\ \E n \in IF stop = "refused" THEN 0 .. 1 ELSE {0} :
          Say(<<Assistant(requests, CallsOf(n), stop)>>)
    /\ IF stop = "aborted"
       THEN attempted' = FALSE /\ Go("ended") /\ UNCHANGED check
       ELSE CheckAt("failed") /\ UNCHANGED attempted
    /\ UNCHANGED <<pending, batch, counts, suppressed, cancelled, queueVars>>

\* A text cut off by its length counts like a whole one; "empty" is the answer
\* of a provider that has cut the input to its window.
Texts == {"stop", "thoughts", "empty"}

AnswerTalks(stop) ==
    /\ pc = "streaming"
    /\ stop \in Texts
    /\ Say(<<Assistant(requests, <<>>, stop)>>)
    /\ attempted' = FALSE
    /\ turns' = turns + 1
    /\ Go("settling")
    /\ UNCHANGED <<pending, batch, requests, repeats, nudges, notices, suppressed, check, cancelled, queueVars>>

AnswerCalls(n, stop) ==
    /\ pc = "streaming"
    /\ stop \in {"calls", "length"}
    /\ Say(<<Assistant(requests, CallsOf(n), stop)>>)
    /\ attempted' = FALSE
    /\ calls' = CallsOf(n)
    /\ Go("called")
    /\ UNCHANGED <<pending, results, counts, suppressed, check, cancelled, queueVars>>

-----------------------------------------------------------------------------
(* The calls: skipped when they repeat, failed when cut off, or executed.    *)

Every(cs, how) == [k \in DOMAIN cs |-> Result(cs[k], how)]
Skipped(cs)    == Every(cs, "skipped")
Truncated(cs)  == Every(cs, "truncated")
Cut            == Last(context).stop = "length"

SkipRepeated ==
    /\ pc = "called"
    /\ repeats + 1 >= Threshold
    /\ Say(Skipped(calls))
    /\ pending' = Append(pending, Note)
    /\ calls' = <<>>
    /\ turns' = turns + 1
    /\ Go("top")
    /\ UNCHANGED <<results, requests, repeats, nudges, notices, policy, cancelled, queueVars>>

\* The batch is another one, or repeats the last one not often enough.
Accept ==
    /\ pc = "called"
    /\ repeats' \in {1} \cup {n \in {repeats + 1} : n < Threshold}
    /\ IF Cut THEN results' = Truncated(calls) /\ calls' = <<>>
              ELSE UNCHANGED batch
    /\ Go("executing")
    /\ UNCHANGED <<talk, turns, requests, nudges, notices, policy, cancelled, queueVars>>

\* A late steering prompt drops the calls that are left without a result.
ExecuteAndDrop ==
    /\ pc = "executing"
    /\ calls # <<>>
    /\ LET n == Min({BatchSize, Len(calls)}) IN
          /\ results' = results \o Every(SubSeq(calls, 1, n), "done")
          /\ IF queue["steer"] = <<>>
             THEN calls' = SubSeq(calls, n + 1, Len(calls)) /\ UNCHANGED <<pending, queueVars>>
             ELSE calls' = <<>> /\ pending' = Injected(Taken("steer")) /\ Drain("steer")
    /\ UNCHANGED <<pc, context, fresh, counts, policy, cancelled>>

\* Some calls run to their end; then the steering queue is looked at, and a
\* prompt in it skips the calls that are left.
Execute ==
    /\ pc = "executing"
    /\ calls # <<>>
    /\ LET n    == Min({BatchSize, Len(calls)})
           now  == SubSeq(calls, 1, n)
           left == SubSeq(calls, n + 1, Len(calls))
       IN  IF queue["steer"] = <<>>
           THEN /\ results' = results \o Every(now, "done")
                /\ calls' = left
                /\ UNCHANGED <<pending, queueVars>>
           ELSE /\ results' = results \o Every(now, "done") \o Skipped(left)
                /\ calls' = <<>>
                /\ pending' = Injected(Taken("steer"))
                /\ Drain("steer")
    /\ UNCHANGED <<pc, context, fresh, counts, policy, cancelled>>

Executed ==
    /\ pc = "executing"
    /\ calls = <<>>
    /\ Say(results)
    /\ results' = <<>>
    /\ IF pending = <<>>
       THEN pending' = Injected(Taken("steer")) /\ Drain("steer")
       ELSE UNCHANGED <<pending, queueVars>>
    /\ turns' = turns + 1
    /\ Go("settling")
    /\ UNCHANGED <<calls, requests, repeats, nudges, notices, policy, cancelled>>

-----------------------------------------------------------------------------
(* The answer is complete: steering, more tool work, a nudge, follow-ups.    *)

Worked  == IsResult(Last(context))
Thought == Last(context).stop = "thoughts"
Nudged  == Thought /\ nudges < MaxNudges

Steer ==
    /\ pc = "settling"
    /\ Worked \/ pending # <<>> \/ queue["steer"] # <<>>
    /\ IF pending = <<>>
       THEN pending' = Injected(Taken("steer")) /\ Drain("steer")
       ELSE UNCHANGED <<pending, queueVars>>
    /\ Go("top")
    /\ UNCHANGED <<context, fresh, batch, counts, policy, cancelled>>

Idle == pc = "settling" /\ ~Worked /\ pending = <<>> /\ queue["steer"] = <<>>

Nudge ==
    /\ Idle
    /\ Nudged
    /\ nudges' = nudges + 1
    /\ pending' = <<Note>>
    /\ Go("top")
    /\ UNCHANGED <<context, fresh, batch, turns, requests, repeats, notices, policy, cancelled, queueVars>>

FollowUp ==
    /\ Idle
    /\ ~Nudged
    /\ \E n \in 0 .. MaxNotices - notices :
          /\ notices' = notices + n
          /\ pending' = Injected(Taken("follow")) \o [i \in 1 .. n |-> Note]
    /\ Drain("follow")
    /\ nudges' = IF Thought THEN nudges ELSE 0
    /\ IF pending' = <<>> THEN CheckAt("end") ELSE Go("top") /\ UNCHANGED check
    /\ UNCHANGED <<context, fresh, batch, turns, requests, repeats, attempted, suppressed, cancelled>>

-----------------------------------------------------------------------------
(* check_compaction: what the usage of an answer says of the context.  Usage *)
(* older than the last compaction, or of another model, says nothing.        *)

Checked == context[Max(Answers)]

Verdicts ==
    LET stop   == Checked.stop
        reason == CASE stop \in {"overflow", "empty"} -> {"overflow"}
                    [] stop = "refused"              -> {"refusal"}
                    [] stop = "stop"                 -> {"fits", "threshold", "silent"}
                    [] OTHER                         -> {"fits", "threshold"}
    IN  reason \cup (IF check.at = "prompt" THEN {"fits"} ELSE {})

Recoveries == {"overflow", "refusal"}

\* A check may send a failed answer again, without it: once, and only if the
\* context got smaller.  At a prompt that is ignored.
Leave(retry) ==
    /\ check' = NoCheck
    /\ IF retry /\ check.at # "prompt" THEN fresh' = Front(fresh) ELSE UNCHANGED fresh
    /\ pc' = CASE check.at = "prompt" -> "beginning"
               [] check.at # "prompt" /\ retry -> "top"
               [] check.at = "end" /\ ~retry -> "pruning"
               [] OTHER -> "ended"

CheckFits ==
    /\ pc = "checking" /\ check.for = "none"
    /\ "fits" \in Verdicts
    /\ suppressed' \in {suppressed, FALSE}
    /\ \E remove \in MayPrune : context' = Pruned(context, remove)
    /\ Leave(FALSE)
    /\ UNCHANGED <<pending, batch, counts, attempted, cancelled, queueVars>>

\* The threshold was compacted before to no avail.
CheckSuppressed ==
    /\ pc = "checking" /\ check.for = "none"
    /\ "threshold" \in Verdicts
    /\ suppressed
    /\ Leave(FALSE)
    /\ UNCHANGED <<context, pending, batch, counts, attempted, suppressed, cancelled, queueVars>>

CheckExhausted ==
    /\ pc = "checking" /\ check.for = "none"
    /\ Verdicts \cap Recoveries # {}
    /\ attempted
    /\ Leave(FALSE)
    /\ UNCHANGED <<context, pending, batch, counts, attempted, suppressed, cancelled, queueVars>>

WithoutAnswer == IF IsAssistant(Last(context)) THEN Front(context) ELSE context

CheckPops(reason) ==
    /\ pc = "checking" /\ check.for = "none"
    /\ reason \in Verdicts \ {"fits"}
    /\ reason = "threshold" => ~suppressed
    /\ reason \in Recoveries => ~attempted
    /\ context' = WithoutAnswer
    /\ check' = [check EXCEPT !.for = reason, !.stage = "model"]
    /\ UNCHANGED <<pc, fresh, pending, batch, counts, attempted, suppressed, cancelled, queueVars>>

CheckCompacts(reason) ==
    /\ pc = "checking" /\ check.for = "none"
    /\ reason \in Verdicts \ {"fits"}
    /\ reason = "threshold" => ~suppressed
    /\ reason \in Recoveries => ~attempted
    /\ context' = IF reason \in Recoveries THEN WithoutAnswer ELSE context
    /\ check' = [check EXCEPT !.for = reason, !.stage = "model"]
    /\ UNCHANGED <<pc, fresh, pending, batch, counts, attempted, suppressed, cancelled, queueVars>>

-----------------------------------------------------------------------------
(* The compaction, in up to three stages: a summary of the model, one made   *)
(* without it, and, when a tool result is last, one of the whole context.    *)

\* The summary of an earlier compaction is not summarized again.
Body == Picked(context, {i \in DOMAIN context : context[i] # Summary})

Compacted(body, minimum) == <<Summary>> \o Kept(body, Plan(body, Keep, minimum))
AllKept == IF check.stage = "whole" THEN Len(context) + 1 ELSE 0

SucceedUncounted ==
    /\ suppressed' = (suppressed \/ check.for = "threshold")
    /\ Leave(check.for \in Recoveries)
    /\ UNCHANGED <<attempted, pending, batch, counts, cancelled, queueVars>>

Succeed ==
    /\ attempted' = (attempted \/ check.for \in Recoveries)
    /\ suppressed' = (suppressed \/ check.for = "threshold")
    /\ Leave(check.for \in Recoveries)
    /\ UNCHANGED <<pending, batch, counts, cancelled, queueVars>>

\* The judge goes first, but not for a refusal, which its edits would repeat;
\* with them alone the context may fit.
Prunes == IF check.for = "refusal" THEN {{}} ELSE MayPrune

PruneIsEnough ==
    /\ pc = "checking" /\ check.stage # "none"
    /\ \E remove \in Prunes \ {{}} : context' = Pruned(context, remove)
    /\ Succeed

Summarize ==
    /\ pc = "checking" /\ check.stage # "none"
    /\ ~cancelled
    /\ \E remove \in Prunes :
          LET body == Pruned(Body, remove) IN
          /\ Plan(body, Keep, AllKept) # 0
          /\ context' = Compacted(body, AllKept)
    /\ Succeed

\* No plan, no summary, or cancelled: the next stage, where there is one.
MustSucceed == /\ ~cancelled
               /\ check.stage = "model" => check.for = "refusal"
               /\ Plan(Body, Keep, AllKept) # 0

NextStage ==
    CASE cancelled \/ check.for \notin Recoveries -> "none"
      [] check.for = "overflow" /\ check.stage = "model" -> "local"
      [] check.stage # "whole" /\ context # <<>> /\ IsResult(Last(context)) -> "whole"
      [] OTHER -> "none"

StageFails ==
    /\ pc = "checking" /\ check.stage # "none"
    /\ ~MustSucceed
    /\ \E remove \in Prunes : context' = Pruned(context, remove)
    /\ IF NextStage # "none"
       THEN check' = [check EXCEPT !.stage = NextStage] /\ UNCHANGED <<pc, fresh>>
       ELSE Leave(FALSE)
    /\ UNCHANGED <<pending, batch, counts, attempted, suppressed, cancelled, queueVars>>

PruneAtEnd ==
    /\ pc = "pruning"
    /\ \E remove \in MayPrune : context' = Pruned(context, remove)
    /\ Go("ended")
    /\ UNCHANGED <<fresh, pending, batch, counts, policy, cancelled, queueVars>>

-----------------------------------------------------------------------------
Cancel ==
    /\ pc # "ended"
    /\ ~cancelled
    /\ cancelled' = TRUE
    /\ UNCHANGED <<pc, talk, batch, counts, policy, queueVars>>

Loop ==
    \/ Arrive \/ Begin \/ Open
    \/ LeaveCancelled \/ StopAtLimit \/ Ask
    \/ \E stop \in Failures : AnswerFails(stop)
    \/ \E stop \in Texts : AnswerTalks(stop)
    \/ \E n \in 1 .. MaxCalls, stop \in {"calls", "length"} : AnswerCalls(n, stop)
    \/ SkipRepeated \/ Accept \/ Execute \/ Executed
    \/ Steer \/ Nudge \/ FollowUp
    \/ CheckFits \/ CheckSuppressed \/ CheckExhausted
    \/ \E reason \in Recoveries \cup {"threshold", "silent"} : CheckCompacts(reason)
    \/ PruneIsEnough \/ Summarize \/ StageFails \/ PruneAtEnd

ClientActs == pc # "ended" /\ Clients /\ UNCHANGED loopVars
Ended == pc = "ended" /\ UNCHANGED vars

Next ==
    \/ Loop
    \/ Cancel
    \/ ClientActs
    \/ Ended

\* Nothing makes a provider answer; but a cancelled request, tool or
\* compaction returns, and the loop goes on.
Fairness == WF_vars(cancelled /\ Loop)
Spec == Init /\ [][Next]_vars /\ Fairness

-----------------------------------------------------------------------------
(* Properties.                                                               *)

TypeOK ==
    /\ QueuesTypeOK
    /\ pc \in {"arriving", "beginning", "opening", "top", "streaming", "called", "executing",
               "settling", "checking", "pruning", "ended"}
    /\ {turns, requests, repeats, nudges, notices} \subseteq Nat
    /\ {attempted, suppressed, cancelled} \subseteq BOOLEAN

\* Each request shows the model a history it can answer: every call has its
\* one result right behind it, whether it ran, was skipped, cut off or pruned,
\* nothing is left to repair, and the model never speaks last (run_loop,
\* execute_tool_calls, plan_core, prune).
RequestsAreAnswerable ==
    pc = "streaming" =>
        /\ Whole(Spoken(context))
        /\ Sanitized(context) = Spoken(context)
        /\ ~IsAssistant(Last(context))

\* A prompt is in one place at any time, from when it is sent: in a queue, on
\* its way between them, withdrawn, waiting in the loop or told to the model.
\* Only a cancelled run ends with prompts it took and never told.
PromptsAreSomewhere ==
    LET said   == fresh \o pending
        told   == {i \in DOMAIN said : said[i].role = "user" /\ said[i].id # 0}
        places == <<withdrawn, Queued("steer"), Queued("follow"), IdsOf(moving),
                    {said[i].id : i \in told}>>
    IN  /\ UNION ToSet(places) = 1 .. sent
        /\ \A i, j \in DOMAIN places : i < j => places[i] \cap places[j] = {}
        /\ \A i, j \in told : said[i].id = said[j].id => i = j
        /\ \A q \in Queues : \A i, j \in DOMAIN queue[q] : queue[q][i].id = queue[q][j].id => i = j
        /\ pc = "ended" /\ pending # <<>> => cancelled

\* What was said in the run stays in the context of the next one, or a summary
\* of it does: only failed answers and judged calls are taken out of it.
NothingIsForgotten ==
    LET known == ToSet(context) IN
    Summary \in known \/
    \A i \in DOMAIN fresh : IsUser(fresh[i]) \/ fresh[i].stop \in {"stop", "thoughts"} =>
        \/ fresh[i] \in known
        \/ requests = 0 /\ i = 1         \* the prompt has not arrived

\* One failing request is sent again at most once between two turns, so the
\* limit on turns limits what a run can ask of the provider
\* (overflow_recovery_attempted, on_user_message, on_non_error_response).
RequestsAreBounded ==
    /\ requests <= 2 * (turns + 1)
    /\ requests <= 2 * MaxTurns

\* A cancelled run ends.
CancelEndsTheRun == cancelled ~> pc = "ended"
=============================================================================
