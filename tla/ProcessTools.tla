---------------------------- MODULE ProcessTools ----------------------------
(***************************************************************************)
(* The tools that drive a ProcessManager, running in parallel within one   *)
(* turn: bash calls that wait for a command in the foreground until it     *)
(* ends, is detached or yields (tools/bash.rs), and queries, which are     *)
(* blocking task_output and task_stop calls on a task that was handed back *)
(* (tools/process/task_output.rs, task_stop.rs).  The user detaches,       *)
(* stops, releases waits and cancels the turn at any moment; the agent     *)
(* loop drains completion notices between calls.                           *)
(*                                                                         *)
(* The calls of a turn are futures of one join_all: a call gives way to    *)
(* another only where it awaits (its sleep, a stop), while monitors and    *)
(* the user run on other threads and interleave everywhere.                *)
(*                                                                         *)
(* Shutdown and eviction are left to ProcessManager: here the session      *)
(* stays open and has all permits to itself.                               *)
(***************************************************************************)
EXTENDS ProcessManager

CONSTANTS
    BashCalls,      \* the bash calls of the turn
    ExplicitCalls,  \* those with run_in_background
    Queries,        \* the task_output and task_stop calls
    MaxReleases     \* bound: how often the user ends blocking waits

ASSUME CallsAssumption ==
    /\ ExplicitCalls \subseteq BashCalls
    /\ MaxReleases \in Nat

VARIABLES
    bash,           \* each bash call: what it does next, its task, what it returned
    query,          \* each query: what it does next, its task, the generation it captured
    turnCancelled,  \* ctx.cancel of the turn
    generation,     \* wait_release_generation
    answered,       \* history: tasks whose end a query has reported to the model
    returned        \* history: per task, its status when its bash call reported it as ended

toolVars  == <<bash, query, turnCancelled, generation, answered, returned>>
queryOnly == <<query, generation, answered>>
allVars   == <<vars, toolVars>>

TaskOf(c)     == bash[c].task
HandedBack    == {TaskOf(c) : c \in {c \in BashCalls : bash[c].answer = "background"}}
BashBusy(c)   == bash[c].pc \notin {"idle", "done"}
QueryBusy(q)  == query[q].pc \notin {"idle", "done"}
\* Where a call stands between two awaits.
BashMidPoll(c)  == BashBusy(c) /\ bash[c].pc \notin {"waiting", "stopping"}
QueryMidPoll(q) == QueryBusy(q) /\ query[q].pc \notin {"watching", "stopping"}
Polled(c)       == /\ \A d \in BashCalls \ {c} : ~BashMidPoll(d)
                   /\ \A q \in Queries \ {c} : ~QueryMidPoll(q)
InTurn        == (\E c \in BashCalls : BashBusy(c)) \/ (\E q \in Queries : QueryBusy(q))

ToolsInit ==
    /\ Init
    /\ bash = [c \in BashCalls |-> [pc |-> "idle", task |-> 0, answer |-> "none"]]
    /\ query = [q \in Queries |-> [pc |-> "idle", task |-> 0, seen |-> 0]]
    /\ turnCancelled = FALSE
    /\ generation = 0
    /\ answered = {}
    /\ returned = [t \in Tasks |-> "nothing"]

Go(c, pc)        == bash' = [bash EXCEPT ![c].pc = pc]
Answer(c, answer) == bash' = [bash EXCEPT ![c].pc = "done", ![c].answer = answer]

-----------------------------------------------------------------------------
(* bash: admission, start                                                   *)

\* The policy check reads the task table; the start comes in a later step.
SlotNeverTaken == FALSE
SlotTaken == \E t \in tracked : status[t] = "explicit"

BashCheck(c) ==
    /\ bash[c].pc = "idle"
    /\ \/ turnCancelled /\ Answer(c, "cancelled")
       \/ ~turnCancelled /\ c \in ExplicitCalls /\ SlotTaken /\ Answer(c, "refused")
       \/ ~turnCancelled /\ (c \in ExplicitCalls => ~SlotTaken) /\ Go(c, "checked")
    /\ UNCHANGED <<vars, queryOnly, turnCancelled, returned>>

BashBegin(c) ==
    /\ bash[c].pc = "checked"
    /\ BeginStart
    /\ Go(c, "starting")
    /\ UNCHANGED <<queryOnly, turnCancelled, returned>>

BashAdmit(c) ==
    /\ bash[c].pc = "starting"
    /\ Admit
    /\ IF Admissible THEN Go(c, "spawning") ELSE Answer(c, "failed")
    /\ UNCHANGED <<queryOnly, turnCancelled, returned>>

BashSpawnFails(c) ==
    /\ bash[c].pc = "spawning"
    /\ SpawnFails
    /\ Answer(c, "failed")
    /\ UNCHANGED <<queryOnly, turnCancelled, returned>>

BashSpawn(c) ==
    /\ bash[c].pc = "spawning"
    /\ Spawn(IF c \in ExplicitCalls THEN "explicit" ELSE "foreground")
    /\ bash' = [bash EXCEPT ![c] = [task |-> started + 1,
                    pc |-> IF c \in ExplicitCalls THEN "done" ELSE "waiting",
                    answer |-> IF c \in ExplicitCalls THEN "background" ELSE "none"]]
    /\ UNCHANGED <<queryOnly, turnCancelled, returned>>

-----------------------------------------------------------------------------
(* bash: the foreground loop.  Each round checks the turn, then takes one   *)
(* snapshot and decides on it; the manager moves on meanwhile.              *)

\* manager.stop: nothing to request of a task that has ended.
StopRequest(t) == IF IsTerminal(t) THEN UNCHANGED vars ELSE Stop(t, "model")

BashCancelledAtOnce(c) ==
    /\ bash[c].pc = "waiting"
    /\ turnCancelled
    /\ Answer(c, "cancelled")
    /\ UNCHANGED <<vars, queryOnly, turnCancelled, returned>>

BashCancelled(c) ==
    /\ bash[c].pc = "waiting"
    /\ turnCancelled
    /\ StopRequest(TaskOf(c))
    /\ Go(c, "stopping")
    /\ UNCHANGED <<queryOnly, turnCancelled, returned>>

\* stop waits five seconds at most, so it may return before the task has ended;
\* the output file goes and the task is forgotten either way.
BashStopReturns(c) ==
    /\ bash[c].pc = "stopping"
    /\ files' = files \ {TaskOf(c)}
    /\ bash' = [bash EXCEPT ![c].pc = "releasing", ![c].answer = "cancelled"]
    /\ UNCHANGED <<procVars, stateVars, started, tracked, tombstones, reaping, queueVars,
                   startVars, queryOnly, turnCancelled, returned>>

BashPolls(c) ==
    /\ bash[c].pc = "waiting"
    /\ ~turnCancelled
    /\ \/ IsTerminal(TaskOf(c)) /\ Go(c, "formatting")
       \/ Background(TaskOf(c)) /\ Answer(c, "background")
       \/ InForeground(TaskOf(c)) /\ Go(c, "yielding")
    /\ UNCHANGED <<vars, queryOnly, turnCancelled, returned>>

\* The foreground wait elapsed on a snapshot that was still in the foreground.
BashYields(c) ==
    /\ bash[c].pc = "yielding"
    /\ ToBackground(TaskOf(c), "yield")
    /\ Answer(c, "background")
    /\ UNCHANGED <<queryOnly, turnCancelled, returned>>

\* background() refused: the result is formatted as that of an ended command.
BashYieldRefused(c) ==
    /\ bash[c].pc = "yielding"
    /\ ~InForeground(TaskOf(c))
    /\ Go(c, "formatting")
    /\ UNCHANGED <<vars, queryOnly, turnCancelled, returned>>

\* format_terminal_result: the outcome goes to the model, the output file is
\* deleted unless the text was truncated and points at it.
BashFormats(c) ==
    /\ bash[c].pc = "formatting"
    /\ \E keep \in BOOLEAN : files' = IF keep THEN files ELSE files \ {TaskOf(c)}
    /\ returned' = [returned EXCEPT ![TaskOf(c)] = status[TaskOf(c)]]
    /\ bash' = [bash EXCEPT ![c].pc = "releasing", ![c].answer = "ended"]
    /\ UNCHANGED <<procVars, stateVars, started, tracked, tombstones, reaping, queueVars,
                   startVars, queryOnly, turnCancelled>>

BashForgets(c) ==
    /\ bash[c].pc = "releasing"
    /\ Forget(TaskOf(c))
    /\ Go(c, "forgetting")
    /\ UNCHANGED <<queryOnly, turnCancelled, returned>>

\* forget has also entombed the task and emptied the queue of it.
BashReturns(c) ==
    /\ bash[c].pc = "forgetting"
    /\ reaping[TaskOf(c)] = "no" /\ TaskOf(c) \notin unqueuing
    /\ Go(c, "done")
    /\ UNCHANGED <<vars, queryOnly, turnCancelled, returned>>

-----------------------------------------------------------------------------
(* task_output and task_stop                                                *)

Await(q, pc) == query' = [query EXCEPT ![q].pc = pc]

\* enter_blocking_wait counts the wait; its generation is read afterwards.
WatchRegisters(q, t) ==
    /\ query[q].pc = "idle"
    /\ t \in HandedBack
    /\ query' = [query EXCEPT ![q].pc = "registered", ![q].task = t]
    /\ UNCHANGED <<vars, bash, turnCancelled, generation, answered, returned>>

WatchCaptures(q) ==
    /\ query[q].pc = "registered"
    /\ query' = [query EXCEPT ![q].pc = "watching", ![q].seen = generation]
    /\ UNCHANGED <<vars, bash, turnCancelled, generation, answered, returned>>

WatchGivesUpIfReleased(q) ==
    /\ query[q].pc = "watching"
    /\ query[q].seen # generation /\ ~IsTerminal(query[q].task)
    /\ Await(q, "done")
    /\ UNCHANGED <<vars, bash, turnCancelled, generation, answered, returned>>

\* The turn was cancelled, or the user ended the waits since this one began.
WatchGivesUp(q) ==
    /\ query[q].pc = "watching"
    /\ \/ turnCancelled
       \/ query[q].seen # generation /\ ~IsTerminal(query[q].task)
    /\ Await(q, "done")
    /\ UNCHANGED <<vars, bash, turnCancelled, generation, answered, returned>>

WatchStalls(q) ==
    /\ query[q].pc = "watching"
    /\ ~turnCancelled /\ ~IsTerminal(query[q].task) /\ query[q].seen = generation
    /\ Await(q, "rereading")
    /\ UNCHANGED <<vars, bash, turnCancelled, generation, answered, returned>>

\* The snapshot is taken again, and its status decides whether the end is claimed.
WatchRereads(q) ==
    /\ query[q].pc = "rereading"
    /\ IF IsTerminal(query[q].task)
       THEN ClaimNotification(query[q].task) /\ Await(q, "claiming")
       ELSE UNCHANGED vars /\ Await(q, "done")
    /\ UNCHANGED <<bash, turnCancelled, generation, answered, returned>>

WatchFinishes(q) ==
    /\ query[q].pc = "watching"
    /\ ~turnCancelled /\ IsTerminal(query[q].task)
    /\ ClaimNotification(query[q].task)
    /\ Await(q, "claiming")
    /\ UNCHANGED <<bash, turnCancelled, generation, answered, returned>>

StopCalled(q, t) ==
    /\ query[q].pc = "idle"
    /\ t \in HandedBack
    /\ StopRequest(t)
    /\ query' = [query EXCEPT ![q].pc = "stopping", ![q].task = t]
    /\ UNCHANGED <<bash, turnCancelled, generation, answered, returned>>

\* The stop returned, or gave up after five seconds, or the turn was cancelled.
StopReturns(q) ==
    /\ query[q].pc = "stopping"
    /\ \/ /\ IsTerminal(query[q].task)
          /\ ClaimNotification(query[q].task)
          /\ Await(q, "claiming")
       \/ /\ ~IsTerminal(query[q].task) \/ turnCancelled
          /\ UNCHANGED vars
          /\ Await(q, "done")
    /\ UNCHANGED <<bash, turnCancelled, generation, answered, returned>>

AnswerUnclaimed(q) ==
    /\ query[q].pc = "claiming"
    /\ answered' = answered \cup {query[q].task}
    /\ Await(q, "done")
    /\ UNCHANGED <<vars, bash, turnCancelled, generation, returned>>

QueryAnswers(q) ==
    /\ query[q].pc = "claiming"
    /\ query[q].task \notin unqueuing
    /\ answered' = answered \cup {query[q].task}
    /\ Await(q, "done")
    /\ UNCHANGED <<vars, bash, turnCancelled, generation, returned>>

-----------------------------------------------------------------------------
(* The user, and the drain between calls                                    *)

UserDetaches == \E r \in UserReasons : BackgroundAllForeground(r)
UserStops    == (\E t \in tracked : Background(t) /\ Stop(t, "user")) \/ StopAllBackground
DrainNotices == ~InTurn /\ TakeNotifications

Waiting == {q \in Queries : query[q].pc \in {"registered", "watching", "rereading"}}

\* release_blocking_waiters: the generation moves only when some wait is counted.
UserReleases ==
    /\ Waiting # {}
    /\ generation < MaxReleases
    /\ generation' = generation + 1
    /\ UNCHANGED <<vars, bash, query, turnCancelled, answered, returned>>

UserCancels ==
    /\ InTurn
    /\ ~turnCancelled
    /\ turnCancelled' = TRUE
    /\ UNCHANGED <<vars, bash, queryOnly, returned>>

-----------------------------------------------------------------------------
Bash(c) == Polled(c) /\
   (\/ BashCheck(c) \/ BashBegin(c) \/ BashAdmit(c) \/ BashSpawnFails(c) \/ BashSpawn(c)
    \/ BashCancelled(c) \/ BashStopReturns(c) \/ BashPolls(c) \/ BashYields(c)
    \/ BashYieldRefused(c) \/ BashFormats(c) \/ BashForgets(c) \/ BashReturns(c))

Query(q) == Polled(q) /\
   (\/ \E t \in Tasks : WatchRegisters(q, t) \/ StopCalled(q, t)
    \/ WatchCaptures(q) \/ WatchGivesUp(q) \/ WatchStalls(q) \/ WatchRereads(q)
    \/ WatchFinishes(q) \/ StopReturns(q) \/ QueryAnswers(q))

Manager ==
    /\ \/ \E t \in Tasks : ProcessExits(t) \/ Monitor(t) \/ HalfDone(t)
       \/ UserDetaches \/ UserStops \/ DrainNotices
    /\ UNCHANGED toolVars

ToolsNext ==
    \/ \E c \in BashCalls : Bash(c)
    \/ \E q \in Queries : Query(q)
    \/ Manager
    \/ UserReleases
    \/ UserCancels

\* A call that was made is polled to its end, and so are the monitors.  Whether a
\* process exits, a wait stalls or a deadline comes is left open.
ToolsFairness ==
    /\ \A t \in Tasks :
        /\ WF_allVars((ObserveExit(t) \/ ObserveCancel(t)) /\ UNCHANGED toolVars)
        /\ WF_allVars((Commit(t) \/ Announce(t)) /\ UNCHANGED toolVars)
        /\ WF_allVars(EntombPruned(t) /\ UNCHANGED toolVars)
        /\ WF_allVars(EntombForgotten(t) /\ UNCHANGED toolVars)
        /\ WF_allVars(DropQueued(t) /\ UNCHANGED toolVars)
    /\ \A c \in BashCalls : WF_allVars(bash[c].pc # "idle" /\ Bash(c))
    /\ \A q \in Queries : WF_allVars(query[q].pc # "idle" /\ Query(q))

ToolsSpec     == ToolsInit /\ [][ToolsNext]_allVars
ToolsFairSpec == ToolsSpec /\ ToolsFairness

-----------------------------------------------------------------------------
(* Properties                                                               *)

\* A task handed back to the model as running is never released by its bash call:
\* it stays in the table until its end is claimed, so its result can be collected.
HandedBackIsKept ==
    \A c \in BashCalls :
        bash[c].answer = "background" =>
            notify[TaskOf(c)] /\ (TaskOf(c) \in tracked \/ claimed[TaskOf(c)])

\* A task whose end a query reported is never announced again by a notice.
AnsweredIsSilent == \A t \in answered : t \notin Queued

\* No command runs in the foreground without a bash call that watches it: whatever
\* ends the call hands the task to the background, ends it, or asks for its end.
ForegroundIsWatched ==
    \A t \in Started : InForeground(t) =>
        \/ requested[t]
        \/ \E c \in BashCalls : TaskOf(c) = t /\ bash[c].pc \in {"waiting", "yielding"}

\* What a call waits for, or has handed back, is neither lost nor left alone.
WaitsAreKept == HandedBackIsKept /\ ForegroundIsWatched

\* One deliberate background task at a time: check and start are two critical
\* sections, and nothing but the lack of an await between them keeps calls apart.
OneDeliberateTask == Cardinality({t \in Tasks : status[t] = "explicit"}) <= 1

\* Cancelling the turn frees it: every call returns, even if no process dies.
CancelFreesTheTurn == turnCancelled ~> ~InTurn

-----------------------------------------------------------------------------
(* What comments and tests say of the tools, and the code does not keep     *)

\* A bash call reports an end only of a command that has ended.
ReportedEndIsReal == \A t \in Tasks : returned[t] \in Terminal \cup {"nothing"}

=============================================================================
