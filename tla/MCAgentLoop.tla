---------------------------- MODULE MCAgentLoop ----------------------------
(* Two prompts of the clients, two turns, and a run that follows nothing, an *)
(* answer, or a run that overflowed.  Clients act, and cancel, just before   *)
(* the loop looks at what they change: earlier makes no difference to it.    *)
EXTENDS AgentLoop

Old(k) == <<0, k>>

SomeHistories ==
    {<<>>,
     <<User(0), User(0), Assistant(0, <<>>, "stop")>>,
     <<Summary, Assistant(0, <<Old(1)>>, "aborted"),
       User(0), Assistant(0, <<Old(2)>>, "calls"), Result(Old(2), "done"),
       Assistant(0, <<>>, "overflow")>>}

LooksAtQueues == pc \in {"opening", "executing", "settling"}
LooksAtToken  == pc \in {"streaming", "checking"}

LateNext ==
    \/ Loop
    \/ LooksAtToken /\ Cancel
    \/ LooksAtQueues /\ Dispatch /\ UNCHANGED loopVars
    \/ Ended

LateSpec == Init /\ [][LateNext]_vars /\ Fairness
=============================================================================
