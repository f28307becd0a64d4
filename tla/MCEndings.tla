------------------------------ MODULE MCEndings ------------------------------
(* What must happen in the end, for TLC: the calls of a turn return and its *)
(* tasks are announced, requests for runs are answered and stopped runs     *)
(* end.  The two components share no state here, so a behaviour is about    *)
(* one of them, its part; the other stays at its initial state.             *)
EXTENDS Naturals, Sequences, FiniteSets

CONSTANTS
    Calls, Asking,                  \* bash calls and queries of a turn
    Askers,                         \* who asks for runs, through a channel or not
    MaxTasks, MaxRuns               \* bounds

VARIABLES
    part,
    started, tracked, status, requested, notify, claimed, byUser, permits, proc, monitor, forced,
        timedOut, files, notifications, tombstones, closed, starting, others, reaping, unqueuing, taken,
        bash, query, turnCancelled, generation, reported, returned,
    client, op, target, loaded, run, engine, attached, stopped, stopping, listener, active, ofChannel, mem,
        disk, manager, tools

-----------------------------------------------------------------------------
(* The components.                                                          *)

Turn  == INSTANCE ProcessTools WITH
            answered <- reported,
            BashCalls <- Calls, ExplicitCalls <- Calls, Queries <- Asking, MaxReleases <- 0,
            KillOnTimeout <- {}, MaxOthers <- 0, UserReasons <- {"user"}, MaxRunning <- 2, MaxGlobal <- 2,
            MaxTracked <- 2, MaxRetained <- 2, MaxTombstones <- 1
Runs  == INSTANCE RunLifecycle WITH
            pc <- client, seen <- loaded, cancelled <- stopped,
            Channels <- Askers \ {"direct"}, Direct <- Askers \cap {"direct"}

Parts == {"turn", "runs"}

-----------------------------------------------------------------------------
(* One part at a time.                                                      *)

callVars  == <<bash, query, turnCancelled, generation, reported, returned>>
turnVars  == <<started, tracked, status, requested, notify, claimed, byUser, permits, proc, monitor, forced,
              timedOut, files, notifications, tombstones, closed, starting, others, reaping, unqueuing, taken,
              callVars>>
runVars   == <<client, op, target, loaded, run, engine, attached, stopped, stopping, listener, active, ofChannel,
              mem, disk, manager, tools>>
vars == <<part, turnVars, runVars>>

Is(p)   == part = p
Only(p) ==
    /\ UNCHANGED part
    /\ IF p = "turn" THEN TRUE ELSE UNCHANGED turnVars
    /\ IF p = "runs" THEN TRUE ELSE UNCHANGED runVars

EndingsInit ==
    /\ part \in Parts
    /\ Turn!ToolsInit /\ Runs!Init

EndingsNext ==
    \/ Is("turn") /\ Turn!ToolsNext /\ Only("turn")
    \/ Is("runs") /\ Runs!Next /\ Only("runs")

\* The fairness of each component, of its own steps.
TurnIsFair ==
    /\ \A t \in Turn!Tasks :
        /\ WF_turnVars(Is("turn") /\ (Turn!ObserveExit(t) \/ Turn!ObserveCancel(t)) /\ UNCHANGED callVars)
        /\ WF_turnVars(Is("turn") /\ (Turn!Commit(t) \/ Turn!Announce(t)) /\ UNCHANGED callVars)
        /\ WF_turnVars(Is("turn") /\ Turn!EntombPruned(t) /\ UNCHANGED callVars)
        /\ WF_turnVars(Is("turn") /\ Turn!EntombForgotten(t) /\ UNCHANGED callVars)
        /\ WF_turnVars(Is("turn") /\ Turn!DropQueued(t) /\ UNCHANGED callVars)
    /\ \A c \in Calls : WF_turnVars(Is("turn") /\ bash[c].pc # "idle" /\ Turn!Bash(c))
    /\ \A q \in Asking : WF_turnVars(Is("turn") /\ query[q].pc # "idle" /\ Turn!Query(q))
RunsAreFair ==
    /\ \A c \in Askers :
        /\ WF_runVars(Is("runs") /\ Runs!Request(c))
        /\ SF_runVars(Is("runs") /\ Runs!TakeGate(c))
    /\ \A r \in Runs!Runs :
        /\ WF_runVars(Is("runs") /\ Runs!RunLoop(r))
        /\ WF_runVars(Is("runs") /\ Runs!ReachEngine(r))
        /\ SF_runVars(Is("runs") /\ engine[r] = "told" /\ Runs!Reads(r) /\ Runs!EngineEnds(r))
        /\ SF_runVars(Is("runs") /\ Runs!FinalFlush(r))
EndingsSpec ==
    /\ EndingsInit /\ [][EndingsNext]_vars
    /\ TurnIsFair /\ RunsAreFair

-----------------------------------------------------------------------------
(* What each component promises.                                            *)

\* A cancelled turn is freed, a task that is stopped ends, one command at a time
\* runs in the background because a call asked for it, and the notices of the
\* session implement CompletionNotices (bash.rs, task_output.rs, manager.rs).
TurnsComeToAnEnd ==
    /\ Turn!CancelFreesTheTurn
    /\ Turn!StopTakesEffect
    /\ []Turn!OneDeliberateTask
    /\ Turn!PostsWhatItOwes

\* Every request for a run is answered, and a run that is stopped or whose listener
\* leaves ends, unless a listener stays and never reads again (run_manager.rs,
\* run/runtime.rs, run/outbox.rs).
RunsComeToAnEnd == Runs!RequestsAreAnswered /\ Runs!StoppedRunsEnd
=============================================================================
