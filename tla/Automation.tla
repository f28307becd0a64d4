----------------------------- MODULE Automation -----------------------------
(***************************************************************************)
(* Scheduled tasks: the dispatchers of one user's devices claim due runs   *)
(* from the cloud, prove their lease before and during the work, deliver   *)
(* the result to its targets and report it (automation/dispatcher.rs,      *)
(* lease.rs, delivery.rs).  All dispatchers of a user are one executor to  *)
(* the cloud, so only the lease keeps two from the same run.               *)
(*                                                                         *)
(* The cloud is not in this repository: it grants a run to a request id,   *)
(* once, and may take it back when its holder was silent for Term ticks.   *)
(* Requests and answers get lost, dispatchers stop and start again.        *)
(***************************************************************************)
EXTENDS Naturals, FiniteSets, SequencesExt

CONSTANTS
    Devices,        \* the dispatchers that poll for one user
    DueRuns,        \* the runs that come due
    Targets,        \* the chats a result goes to
    Interval,       \* HEARTBEAT_INTERVAL, in ticks
    Timeout,        \* REQUEST_TIMEOUT, in ticks
    Term,           \* the silence after which the cloud takes a run back
    MaxFaults       \* bound: requests lost, deliveries refused, dispatchers stopped

ASSUME AutomationAssumption ==
    /\ {Interval, Timeout} \subseteq Nat \ {0}
    /\ Term \in Nat /\ Term > Interval + 2 * Timeout    \* what lease.rs relies on
    /\ MaxFaults \in Nat
    /\ Targets # {}                                     \* a list without a target is an error to target.rs

VARIABLES
    pc,             \* where a dispatcher is: polling, proving, proved, refused, working
    request,        \* its claim_request_id
    held,           \* the run and the lease token it works under
    clock,          \* ticks since its heartbeat was sent or answered
    work,           \* execute: its stage and what it is about to report
    lease,          \* the cloud: the token a run is leased under
    silence,        \* the cloud: ticks since the token was last shown
    verdict,        \* the cloud: what was reported, and under which token
    spent,          \* history: the tokens granted so far
    answered,       \* history: the tokens whose dispatcher got them, or died
    sends,          \* history: the sends of a result: token, target, and whether the send
                    \*   was answered, arrived unanswered, or was lost
    faults

dispatcher == <<pc, request, held, clock, work>>
cloud      == <<lease, silence, verdict, spent>>
autoVars   == <<dispatcher, cloud, answered, sends, faults>>

NoToken   == <<>>
NoLease   == [run |-> "none", token |-> NoToken]
NoWork    == [stage |-> "none", status |-> "none", delivery |-> "none", left |-> {}, tries |-> 0]
NoVerdict == [status |-> "none", delivery |-> "none", token |-> NoToken]
Started   == [NoWork EXCEPT !.stage = "starting"]

Init ==
    /\ pc = [d \in Devices |-> "polling"]
    /\ request = [d \in Devices |-> 1]
    /\ held = [d \in Devices |-> NoLease]
    /\ clock = [d \in Devices |-> 0]
    /\ work = [d \in Devices |-> NoWork]
    /\ lease = [r \in DueRuns |-> NoToken]
    /\ silence = [r \in DueRuns |-> 0]
    /\ verdict = [r \in DueRuns |-> NoVerdict]
    /\ spent = {} /\ answered = {} /\ sends = {}
    /\ faults = 0

Fault == faults < MaxFaults /\ faults' = faults + 1

-----------------------------------------------------------------------------
(* Claims.  The id of a request is new once the last one was answered; an id *)
(* that was never granted a run is as good as new.                           *)

Token(d) == <<d, request[d]>>

Used(d)     == {t[2] : t \in {u \in spent' : u[1] = d}}
Fresh(d)    == Min(1 .. Cardinality(Used(d)) + 1 \ Used(d))
Renew(d)    == request' = [request EXCEPT ![d] = Fresh(d)]

IsDue(r)    == lease[r] = NoToken /\ verdict[r] = NoVerdict
Granted(d)  == {r \in DueRuns : lease[r] = Token(d)}
Grantable(d) == IF Granted(d) # {} THEN Granted(d)
                ELSE {r \in DueRuns : IsDue(r) /\ Token(d) \notin spent}

Grant(d, r) ==
    /\ r \in Grantable(d)
    /\ lease' = [lease EXCEPT ![r] = Token(d)]
    /\ silence' = [silence EXCEPT ![r] = IF IsDue(r) THEN 0 ELSE @]
    /\ spent' = spent \cup {Token(d)}
    /\ UNCHANGED verdict

ClaimAnswered(d) ==
    /\ pc[d] = "polling"
    /\ \E r \in DueRuns :
          /\ Grant(d, r)
          /\ held' = [held EXCEPT ![d] = [run |-> r, token |-> Token(d)]]
    /\ answered' = answered \cup {Token(d)}
    /\ Renew(d)
    /\ work' = [work EXCEPT ![d] = Started]
    /\ pc' = [pc EXCEPT ![d] = "proving"]
    /\ clock' = [clock EXCEPT ![d] = 0]
    /\ UNCHANGED <<sends, faults>>

\* The cloud grants the run and the answer is lost.
ClaimAgain(d) ==
    /\ pc[d] = "polling"
    /\ \E r \in DueRuns : Grant(d, r)
    /\ Renew(d)
    /\ Fault
    /\ UNCHANGED <<pc, held, clock, work, answered, sends>>

ClaimLost(d) ==
    /\ pc[d] = "polling"
    /\ \E r \in DueRuns : Grant(d, r)
    /\ Fault
    /\ UNCHANGED <<dispatcher, answered, sends>>

ClaimWithOldId(d) ==
    /\ pc[d] = "polling"
    /\ Grantable(d) = {}
    /\ UNCHANGED autoVars

\* 204: nothing is due, or the run of this id was taken back.
ClaimNone(d) ==
    /\ pc[d] = "polling"
    /\ Grantable(d) = {}
    /\ spent' = spent
    /\ request' = [request EXCEPT ![d] = IF Token(d) \in spent THEN Fresh(d) ELSE @]
    /\ UNCHANGED <<pc, held, clock, work, lease, silence, verdict, answered, sends, faults>>

-----------------------------------------------------------------------------
(* guard: the work is polled only between a heartbeat that was answered and  *)
(* the next one; a heartbeat that fails, for whatever reason, ends it.       *)

\* Whatever drops the work drops its Run, which aborts it.
Release(d) ==
    /\ pc' = [pc EXCEPT ![d] = "polling"]
    /\ held' = [held EXCEPT ![d] = NoLease]
    /\ work' = [work EXCEPT ![d] = NoWork]
    /\ clock' = [clock EXCEPT ![d] = 0]

Freeze(d) ==
    /\ pc[d] = "working"
    /\ clock[d] >= Interval
    /\ pc' = [pc EXCEPT ![d] = "proving"]
    /\ clock' = [clock EXCEPT ![d] = 0]
    /\ UNCHANGED <<request, held, work, cloud, answered, sends, faults>>

BeatArrives(d) ==
    /\ pc[d] = "proving"
    /\ LET r == held[d].run
           current == lease[r] = held[d].token
       IN  /\ pc' = [pc EXCEPT ![d] = IF current THEN "proved" ELSE "refused"]
           /\ silence' = [silence EXCEPT ![r] = IF current THEN 0 ELSE @]
    /\ UNCHANGED <<request, held, clock, work, lease, verdict, spent, answered, sends, faults>>

BeatAnswered(d) ==
    /\ pc[d] = "proved"
    /\ pc' = [pc EXCEPT ![d] = "working"]
    /\ clock' = [clock EXCEPT ![d] = 0]
    /\ UNCHANGED <<request, held, work, cloud, answered, sends, faults>>

BeatRefused(d) ==
    /\ pc[d] = "refused"
    /\ Release(d)
    /\ UNCHANGED <<request, cloud, answered, sends, faults>>

\* The request or its answer is lost, or comes too late.
CarryOn(d) ==
    /\ pc[d] \in {"proving", "proved"}
    /\ Fault
    /\ pc' = [pc EXCEPT ![d] = "working"]
    /\ clock' = [clock EXCEPT ![d] = 0]
    /\ UNCHANGED <<request, held, work, cloud, answered, sends>>

BeatLost(d) ==
    /\ pc[d] \in {"proving", "proved"}
    /\ Fault
    /\ Release(d)
    /\ UNCHANGED <<request, cloud, answered, sends>>

-----------------------------------------------------------------------------
(* execute.                                                                  *)

Working(d, stage) == pc[d] = "working" /\ clock[d] < Interval /\ work[d].stage = stage
Becomes(d, w)     == work' = [work EXCEPT ![d] = w]
Reports(status, delivery) ==
    [NoWork EXCEPT !.stage = "reporting", !.status = status, !.delivery = delivery]

\* No model, a command, no run; or an empty answer, an error, too long a run.
WorkEnds(d) ==
    /\ \/ /\ Working(d, "starting")
          /\ Becomes(d, Reports("needs_attention", "not_requested"))
       \/ /\ Working(d, "starting") \/ Working(d, "collecting")
          /\ Becomes(d, Reports("failed", "not_requested"))
    /\ UNCHANGED <<pc, request, held, clock, cloud, answered, sends, faults>>

Submit(d) ==
    /\ Working(d, "starting")
    /\ Becomes(d, [work[d] EXCEPT !.stage = "collecting"])
    /\ UNCHANGED <<pc, request, held, clock, cloud, answered, sends, faults>>

\* The text goes nowhere, to its targets, or to a channel that is not there.
Collect(d) ==
    /\ Working(d, "collecting")
    /\ \/ Becomes(d, Reports("succeeded", "not_requested"))
       \/ Becomes(d, [work[d] EXCEPT !.stage = "delivering", !.delivery = "sent", !.left = Targets])
       \/ Becomes(d, Reports("succeeded", "failed"))
    /\ UNCHANGED <<pc, request, held, clock, cloud, answered, sends, faults>>

SendsTo(d, t, how) == sends' = sends \cup {<<held[d].token, t, how>>}

DeliverForgiving(d) ==
    /\ Working(d, "delivering")
    /\ \E t \in work[d].left :
          LET w == [work[d] EXCEPT !.left = @ \ {t}] IN
          \/ /\ SendsTo(d, t, "answered")
             /\ Becomes(d, [w EXCEPT !.delivery = "sent"])
             /\ UNCHANGED faults
          \/ /\ \E how \in {"unanswered", "lost"} : SendsTo(d, t, how)
             /\ Becomes(d, [w EXCEPT !.delivery = "failed"])
             /\ Fault
    /\ UNCHANGED <<pc, request, held, clock, cloud, answered>>

\* Every target is tried once, whatever became of the others.  A send without an
\* answer is an error, whether it arrived or not.
Deliver(d) ==
    /\ Working(d, "delivering")
    /\ \E t \in work[d].left :
          LET w == [work[d] EXCEPT !.left = @ \ {t}] IN
          \/ /\ SendsTo(d, t, "answered")
             /\ Becomes(d, w)
             /\ UNCHANGED faults
          \/ /\ \E how \in {"unanswered", "lost"} : SendsTo(d, t, how)
             /\ Becomes(d, [w EXCEPT !.delivery = "failed"])
             /\ Fault
    /\ UNCHANGED <<pc, request, held, clock, cloud, answered>>

Delivered(d) ==
    /\ Working(d, "delivering")
    /\ work[d].left = {}
    /\ Becomes(d, Reports("succeeded", work[d].delivery))
    /\ UNCHANGED <<pc, request, held, clock, cloud, answered, sends, faults>>

-----------------------------------------------------------------------------
(* finish: up to three attempts; the lease is renewed meanwhile.             *)

Settle(d) ==
    LET r == held[d].run IN
    /\ lease[r] = held[d].token
    /\ verdict' = [verdict EXCEPT ![r] = [status   |-> work[d].status,
                                          delivery |-> work[d].delivery,
                                          token    |-> held[d].token]]
    /\ lease' = [lease EXCEPT ![r] = NoToken]
    /\ UNCHANGED <<silence, spent>>

ReportAnswered(d) ==
    /\ Working(d, "reporting")
    /\ Settle(d)
    /\ Release(d)
    /\ UNCHANGED <<request, answered, sends, faults>>

TryAgain(d) ==
    IF work[d].tries = 2 THEN Release(d)
    ELSE /\ Becomes(d, [work[d] EXCEPT !.tries = @ + 1])
         /\ UNCHANGED <<pc, held, clock>>

\* The report is lost, or its answer is.
ReportLost(d) ==
    /\ Working(d, "reporting")
    /\ Settle(d) \/ UNCHANGED cloud
    /\ TryAgain(d)
    /\ Fault
    /\ UNCHANGED <<request, answered, sends>>

\* The lease is not the current one any more.
ReportRefused(d) ==
    /\ Working(d, "reporting")
    /\ lease[held[d].run] # held[d].token
    /\ TryAgain(d)
    /\ UNCHANGED <<request, cloud, answered, sends, faults>>

-----------------------------------------------------------------------------
\* A dispatcher stops; the next one of the device starts with a new id.
Stop(d) ==
    /\ Fault
    /\ Release(d)
    /\ answered' = answered \cup {Token(d)}
    /\ spent' = spent \cup {Token(d)}
    /\ Renew(d)
    /\ UNCHANGED <<lease, silence, verdict, sends>>

Expire(r) ==
    /\ lease[r] # NoToken
    /\ silence[r] >= Term
    /\ lease' = [lease EXCEPT ![r] = NoToken]
    /\ UNCHANGED <<dispatcher, silence, verdict, spent, answered, sends, faults>>

\* A timer that is due goes off before time goes on.
Tick ==
    /\ \A d \in Devices : CASE pc[d] = "working" -> clock[d] < Interval
                            [] pc[d] = "polling" -> TRUE
                            [] OTHER -> clock[d] < Timeout
    /\ clock' = [d \in Devices |-> IF pc[d] = "polling" THEN 0 ELSE clock[d] + 1]
    /\ silence' = [r \in DueRuns |-> IF lease[r] = NoToken \/ silence[r] = Term THEN silence[r]
                                     ELSE silence[r] + 1]
    /\ UNCHANGED <<pc, request, held, work, lease, verdict, spent, answered, sends, faults>>

Claim(d)  == ClaimAnswered(d) \/ ClaimNone(d)
Beat(d)   == Freeze(d) \/ BeatArrives(d) \/ BeatAnswered(d) \/ BeatRefused(d)
Execute(d) ==
    \/ WorkEnds(d) \/ Submit(d) \/ Collect(d) \/ Deliver(d) \/ Delivered(d)
    \/ ReportAnswered(d) \/ ReportRefused(d)
Breaks(d) == ClaimLost(d) \/ BeatLost(d) \/ ReportLost(d) \/ Stop(d)

Next ==
    \/ \E d \in Devices : Claim(d) \/ Beat(d) \/ Execute(d) \/ Breaks(d)
    \/ \E r \in DueRuns : Expire(r)
    \/ Tick

\* Dispatchers poll, heartbeats are answered or given up, time goes on, and the
\* cloud takes back what fell silent.  The work gets its turns between the
\* heartbeats, and is bounded by its timeout.
Fairness ==
    /\ \A d \in Devices : WF_autoVars(Claim(d)) /\ WF_autoVars(Beat(d)) /\ SF_autoVars(Execute(d))
    /\ WF_autoVars(Tick \/ \E r \in DueRuns : Expire(r))
Spec == Init /\ [][Next]_autoVars /\ Fairness

-----------------------------------------------------------------------------
(* Properties.                                                               *)

\* Work goes on only under a lease that the cloud still honours, or that ended
\* with its own report: so no two dispatchers ever work on one run, and a
\* granted run whose answer was lost comes back with the same request id
\* (lease::guard, claim_request_id).
LeasesAreHonoured ==
    /\ \A d \in Devices : pc[d] = "working" =>
          held[d].token \in {lease[held[d].run], verdict[held[d].run].token}
    /\ \A r \in DueRuns : lease[r] # NoToken =>
          \/ lease[r] \in answered
          \/ \E d \in Devices : lease[r] = Token(d)

\* What the cloud was told of a run is what happened under that lease: "sent", that
\* every target has confirmed the result; "failed", that some target has not, which
\* may have received it all the same; and under the lease of a run that did not
\* succeed, or has nowhere to send to, nothing was sent (deliver, finish).
Confirmed(token) == {t \in Targets : <<token, t, "answered">> \in sends}
Tried(token) == {t \in Targets : \E how \in {"answered", "unanswered", "lost"} : <<token, t, how>> \in sends}
ReportsAreTrue ==
    \A r \in DueRuns : verdict[r] # NoVerdict =>
        LET token == verdict[r].token IN
        CASE verdict[r].delivery = "sent"   -> Confirmed(token) = Targets
          [] verdict[r].delivery = "failed" -> Confirmed(token) # Targets
          [] OTHER                          -> Tried(token) = {}

\* Every due run is reported in the end, whatever gets lost on the way and
\* whoever stops, since faults end.
RunsAreReported == \A r \in DueRuns : <>(verdict[r] # NoVerdict)
=============================================================================
