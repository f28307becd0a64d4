----------------------------- MODULE MCServices -----------------------------
(* What the services a run relies on do in the end, for TLC: due work is    *)
(* reported, cancelled model calls end, and the messages of a chat are      *)
(* taken.  The components share no state, so a behaviour is about one of    *)
(* them, its part; the rest stay at their initial states.                   *)
EXTENDS Automation

CONSTANTS
    Messages,                       \* of a chat
    MaxErrors, MaxConnections       \* bounds

VARIABLES
    part,
    step, attempt, serial, long, outcome, channel, streamed, cancelled, told, errors,
    wanted, running, next, supervisor, transport, health, connection, cache, parsed, taking, handlers,
        acked, dropped, linkFaults, settingsEdits

-----------------------------------------------------------------------------
(* The components.                                                          *)

Model == INSTANCE ModelCall WITH MaxRetries <- 1, IncompleteMax <- 1, Capacity <- 1, MaxDeltas <- 2
Chat  == INSTANCE ChatChannel WITH
            serial <- connection, seen <- parsed,
            Revisions <- {"r1", "r2"}, MaxEdits <- 1, MaxFaults <- 1,
            Frames <- [m \in Messages |-> IF m = "m1" THEN 2 ELSE 1],
            Heeded <- [r \in {"r1", "r2"} |-> IF r = "r1" THEN {"m1"} ELSE Messages]

Parts == {"work", "model", "chat"}

-----------------------------------------------------------------------------
(* One part at a time.                                                      *)

modelVars == <<step, attempt, serial, long, outcome, channel, streamed, cancelled, told, errors>>
chatVars  == <<wanted, running, next, supervisor, transport, health, connection, cache, parsed, taking,
              handlers, acked, dropped, linkFaults, settingsEdits>>
vars == <<part, autoVars, modelVars, chatVars>>

Is(p)   == part = p
Only(p) ==
    /\ UNCHANGED part
    /\ IF p = "work" THEN TRUE ELSE UNCHANGED autoVars
    /\ IF p = "model" THEN TRUE ELSE UNCHANGED modelVars
    /\ IF p = "chat" THEN TRUE ELSE UNCHANGED chatVars

ServicesInit ==
    /\ part \in Parts
    /\ IF Is("chat") THEN TRUE ELSE wanted = "r1"
    /\ Init /\ Model!Init /\ Chat!ChatInit

ServicesNext ==
    \/ Is("work") /\ Next /\ Only("work")
    \/ Is("model") /\ Model!Next /\ Only("model")
    \/ Is("chat") /\ Chat!ChatNext /\ Only("chat")

\* The fairness of each component, of its own steps.
WorkIsFair ==
    /\ \A d \in Devices :
        /\ WF_autoVars(Is("work") /\ Claim(d))
        /\ WF_autoVars(Is("work") /\ Beat(d))
        /\ SF_autoVars(Is("work") /\ Execute(d))
    /\ WF_autoVars(Is("work") /\ (Tick \/ \E r \in DueRuns : Expire(r)))
ModelIsFair ==
    /\ WF_modelVars(Is("model") /\ (Model!StartAttempt \/ Model!Retry \/ Model!LongWait \/ Model!WaitOver
                               \/ Model!Settle \/ Model!End))
    /\ WF_modelVars(Is("model") /\ Model!Forward)
    /\ WF_modelVars(Is("model") /\ Model!CancelStream)
    /\ WF_modelVars(Is("model") /\ Model!CancelWait)
ChatIsFair ==
    /\ WF_chatVars(Is("chat") /\ Chat!Reload)
    /\ WF_chatVars(Is("chat") /\ Chat!StartNext)
    /\ \A r \in {"r1", "r2"} :
        /\ WF_chatVars(Is("chat") /\ Chat!Stop(r))
        /\ WF_chatVars(Is("chat") /\ Chat!Initialise(r))
        /\ WF_chatVars(Is("chat") /\ Chat!Rested(r))
        /\ WF_chatVars(Is("chat") /\ Chat!Connect(r))
        /\ WF_chatVars(Is("chat") /\ Chat!Spawn(r))
    /\ \A m \in Messages : \A i \in Chat!Whole(m) :
        WF_chatVars(Is("chat") /\ (\E r \in {"r1", "r2"} : Chat!Receive(r, m, i)))

ServicesSpec ==
    /\ ServicesInit /\ [][ServicesNext]_vars
    /\ WorkIsFair /\ ModelIsFair /\ ChatIsFair

-----------------------------------------------------------------------------
(* What each component promises.                                            *)

\* A due run is worked on under a lease, reported truly, and reported in the end
\* (automation/dispatcher.rs, lease.rs).
WorkComesToAnEnd ==
    /\ [](LeasesAreHonoured /\ ReportsAreTrue)
    /\ Is("work") => RunsAreReported

\* The attempts of a model call do not mix, outages are waited out, and a call
\* that is cancelled ends (runner/llm_call.rs).
ModelCallsComeToAnEnd ==
    /\ [](Model!AttemptsDoNotMix /\ Model!OutagesAreWaitedOut)
    /\ Model!CancelledCallsEnd

\* One transport runs at a time, and every message is taken up in the end
\* (gateway/supervisor.rs, feishu/ws.rs).
MessagesComeToAnEnd ==
    /\ []Chat!OneTransportAtATime
    /\ Is("chat") => Chat!MessagesAreTaken
=============================================================================
