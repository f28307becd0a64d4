----------------------------- MODULE ModelCall ------------------------------
(***************************************************************************)
(* One logical call of the model: its attempts, the bounded retries, the   *)
(* long waits for quota and outages, and the forwarder that passes the     *)
(* events of an attempt to the listener (runner/llm_call.rs, retry.rs).    *)
(*                                                                         *)
(* The provider streams into a bounded channel while the forwarder empties *)
(* it; the call waits for the provider or for the cancellation token.      *)
(***************************************************************************)
EXTENDS Naturals, Sequences, FiniteSets, SequencesExt

CONSTANTS
    MaxRetries,     \* RetryPolicy.max_retries
    IncompleteMax,  \* PROTOCOL_INCOMPLETE_MAX_RETRIES
    Capacity,       \* of the channel of an attempt
    MaxDeltas,      \* bound: events of an attempt
    MaxErrors       \* bound: failures of the provider

VARIABLES
    step,           \* starting, streaming, returned, waiting, draining, ended
    attempt,        \* retries of the bounded budget
    serial,         \* the number of the attempt, waits included
    long,           \* long_wait_started
    outcome,        \* what the provider returned
    channel,        \* events the provider sent and the forwarder has not passed on
    streamed,       \* events of this attempt
    cancelled,
    told,           \* what the listener was told
    errors

callVars == <<step, attempt, serial, long, outcome, channel, streamed, cancelled, told, errors>>

\* Error kinds by what should_retry and is_quota_limited say of them.
Transient == {"transient", "empty"}         \* rate limit, network, overload, 5xx; no content
Retryable == Transient \cup {"incomplete"}
Failures  == Retryable \cup {"quota", "fatal"}

Init ==
    /\ step = "starting" /\ attempt = 0 /\ serial = 0
    /\ long = FALSE
    /\ outcome = ""
    /\ channel = <<>> /\ streamed = 0
    /\ cancelled = FALSE
    /\ told = <<>>
    /\ errors = 0

Tell(kind) == told' = Append(told, [kind |-> kind, serial |-> serial])

\* LlmCallStart, once for the retries of a long wait.
StartAttempt ==
    /\ step = "starting"
    /\ step' = "streaming"
    /\ serial' = serial + 1
    /\ channel' = <<>> /\ streamed' = 0
    /\ outcome' = ""
    /\ told' = IF long THEN told ELSE Append(told, [kind |-> "start", serial |-> serial'])
    /\ UNCHANGED <<attempt, long, cancelled, errors>>

Delta ==
    /\ step = "streaming"
    /\ streamed < MaxDeltas /\ Len(channel) < Capacity
    /\ streamed' = streamed + 1
    /\ channel' = Append(channel, serial)
    /\ UNCHANGED <<step, attempt, serial, long, outcome, cancelled, told, errors>>

\* The forwarder runs until it is aborted or the channel is closed and empty.
Forward ==
    /\ channel # <<>>
    /\ told' = Append(told, [kind |-> "delta", serial |-> Head(channel)])
    /\ channel' = Tail(channel)
    /\ UNCHANGED <<step, attempt, serial, long, outcome, streamed, cancelled, errors>>

\* An answer with nothing in it is an error that can be retried.
Return ==
    /\ step = "streaming"
    /\ \/ streamed > 0 /\ outcome' = "ok" /\ UNCHANGED errors
       \/ errors < MaxErrors /\ errors' = errors + 1 /\ outcome' \in Failures
    /\ step' = "returned"
    /\ UNCHANGED <<attempt, serial, long, channel, streamed, cancelled, told>>

Cancel ==
    /\ ~cancelled
    /\ step # "ended"
    /\ cancelled' = TRUE
    /\ UNCHANGED <<step, attempt, serial, long, outcome, channel, streamed, told, errors>>

CancelBetween ==
    /\ step = "starting"
    /\ cancelled
    /\ outcome' = "cancelled"
    /\ step' = "returned"
    /\ UNCHANGED <<attempt, serial, long, channel, streamed, cancelled, told, errors>>

\* The provider is polled once more, and dropped if it has not finished.
CancelStream ==
    /\ step = "streaming"
    /\ cancelled
    /\ outcome' \in {"cancelled"} \cup (IF streamed > 0 THEN {"ok"} ELSE {})
    /\ step' = "returned"
    /\ UNCHANGED <<attempt, serial, long, channel, streamed, cancelled, told, errors>>

-----------------------------------------------------------------------------
(* What becomes of an outcome.  An attempt that is not the last one loses    *)
(* its forwarder first, so that nothing of it comes after what is told next. *)

Limit       == IF outcome = "incomplete" /\ IncompleteMax < MaxRetries THEN IncompleteMax ELSE MaxRetries
IsRetry     == outcome \in Retryable /\ attempt < Limit /\ ~long /\ ~cancelled
IsQuotaWait == outcome = "quota" /\ ~cancelled
IsFirstOutage == outcome \in Transient /\ ~IsRetry /\ MaxRetries > 0 /\ ~cancelled /\ ~long
IsOutage    == outcome \in Transient /\ ~IsRetry /\ MaxRetries > 0 /\ ~cancelled

KeepForwarding == UNCHANGED channel

StopForwarder == channel' = <<>>

Retry ==
    /\ step = "returned"
    /\ IsRetry
    /\ StopForwarder
    /\ told' = told \o <<[kind |-> "error", serial |-> serial], [kind |-> "retry", serial |-> serial]>>
    /\ attempt' = attempt + 1
    /\ step' = "waiting"
    /\ UNCHANGED <<serial, long, outcome, streamed, cancelled, errors>>

LongWait ==
    /\ step = "returned"
    /\ IsQuotaWait \/ IsOutage
    /\ StopForwarder
    /\ Tell("wait")
    /\ long' = TRUE
    /\ step' = "waiting"
    /\ UNCHANGED <<attempt, serial, outcome, streamed, cancelled, errors>>

WaitOver ==
    /\ step = "waiting"
    /\ step' = "starting"
    /\ UNCHANGED <<attempt, serial, long, outcome, channel, streamed, cancelled, told, errors>>

\* The Aborted message: no LlmCallEnd.
CancelWait ==
    /\ step = "waiting"
    /\ cancelled
    /\ outcome' = "cancelled"
    /\ step' = "ended"
    /\ UNCHANGED <<attempt, serial, long, channel, streamed, cancelled, told, errors>>

Settle ==
    /\ step = "returned"
    /\ ~(IsQuotaWait \/ IsRetry \/ IsOutage)
    /\ step' = "draining"
    /\ UNCHANGED <<attempt, serial, long, outcome, channel, streamed, cancelled, told, errors>>

EndAtOnce ==
    /\ step = "draining"
    /\ Tell(IF outcome = "ok" THEN "ok" ELSE "error")
    /\ channel' = <<>>
    /\ step' = "ended"
    /\ UNCHANGED <<attempt, serial, long, outcome, streamed, cancelled, errors>>

\* The forwarder finishes; a cancellation cuts it short.
End ==
    /\ step = "draining"
    /\ IF cancelled
       THEN outcome' = "cancelled" /\ StopForwarder /\ UNCHANGED told
       ELSE /\ channel = <<>>
            /\ Tell(IF outcome = "ok" THEN "ok" ELSE "error")
            /\ UNCHANGED <<outcome, channel>>
    /\ step' = "ended"
    /\ UNCHANGED <<attempt, serial, long, streamed, cancelled, errors>>

Next ==
    \/ StartAttempt \/ Delta \/ Forward \/ Return \/ Cancel \/ CancelStream
    \/ Retry \/ LongWait \/ WaitOver \/ CancelWait \/ Settle \/ End

\* The waits end, the forwarder and the call run; the provider may hang.
Fairness ==
    /\ WF_callVars(StartAttempt \/ Retry \/ LongWait \/ WaitOver \/ Settle \/ End)
    /\ WF_callVars(Forward) /\ WF_callVars(CancelStream) /\ WF_callVars(CancelWait)
Spec == Init /\ [][Next]_callVars /\ Fairness

-----------------------------------------------------------------------------
(* Properties.                                                               *)

\* What the listener is told makes sense in its order: nothing of an attempt
\* comes after the retry or the wait that follows it, every start but the last
\* one was closed by its error, what was streamed of an answer comes whole before
\* its end, and only a cancelled call has no end (forward_handle.abort).
AttemptsDoNotMix ==
    /\ \A i, j \in DOMAIN told : i < j /\ told[i].kind \in {"error", "retry", "wait"} =>
          \/ told[j].serial > told[i].serial
          \/ told[i].kind = "error" /\ told[j].kind = "retry"
    /\ \A i, j \in DOMAIN told : i < j /\ told[i].kind = "start" /\ told[j].kind = "start" =>
          \E k \in i + 1 .. j - 1 : told[k].kind = "error"
    /\ step = "ended" /\ outcome # "cancelled" =>
          LET starts == {i \in DOMAIN told : told[i].kind = "start"}
              ends   == {i \in DOMAIN told : told[i].kind \in {"ok", "error"}}
              mine   == {i \in DOMAIN told : told[i] = [kind |-> "delta", serial |-> serial]}
          IN  /\ Cardinality(starts) = Cardinality(ends)
              /\ Cardinality(mine) = streamed
              /\ told[Len(told)].kind \in {"ok", "error"}

\* An outage never ends a call, it is waited out; a broken answer is retried a
\* few times and then ends it; and no call retries more often than its policy
\* says (RetryPolicy, OUTAGE_RETRY_DELAY).
OutagesAreWaitedOut ==
    /\ step = "ended" /\ MaxRetries > 0 => outcome \in {"ok", "fatal", "incomplete", "cancelled"}
    /\ Len(SelectSeq(told, LAMBDA t : t.kind = "retry")) <= MaxRetries
    /\ \A i, j \in DOMAIN told : i < j /\ told[i].kind = "wait" => told[j].kind \notin {"retry", "start"}

\* A cancelled call ends, whatever the provider does.
CancelledCallsEnd == cancelled ~> step = "ended"
=============================================================================
