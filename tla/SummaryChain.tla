---------------------------- MODULE SummaryChain ----------------------------
(* A session compacted again and again, by the loop of a run and by the user:*)
(* the recorded summary is taken out of the context and given to the chain   *)
(* of summary stages, and what the chain makes replaces the evicted zone.    *)
(* Of a message only its role and the numbers of what it accounts for are    *)
(* kept; the byte budgets of the stages and the wording are left out.        *)
EXTENDS Naturals, Sequences, FiniteSets, SequencesExt

CONSTANTS MaxSaid,     \* bound: messages said in the session
          MaxGenerations, \* bound: compactions of it
          MaxRequests  \* completed requests the state remembers

VARIABLES context,   \* messages: what the model is shown
          memory,    \* CompactionState: last_summary, context_summary_message, ...
          stage,     \* where the compaction is, "idle" when there is none
          job,       \* its plan, its contexts and what it has made so far
          cancelled, \* the caller's token
          said       \* messages said so far

chainVars == <<context, memory, stage, job, cancelled, said>>

Msg(role, of) == [role |-> role, of |-> of]
Roles     == {"user", "assistant", "brief"}   \* brief: a result kept for its run only
IsUser(m) == m.role \in {"user", "summary", "emergency"}
IsCut(m)  == m.role # "brief" /\ m.role # "cleared"
AllOf(ms) == UNION {m.of : m \in ToSet(ms)}
IsText(m) == m.role \in {"summary", "emergency"}

NoMemory  == [last |-> {}, recorded |-> FALSE, requests |-> <<>>, generation |-> 0]
NoJob     == [manual |-> FALSE, policy |-> "skip", removed |-> <<>>, at |-> 0, cut |-> 0,
              turn |-> 0, method |-> "local", tries |-> 0, text |-> {}, kind |-> "summary"]

ChainInit == /\ context = <<>> /\ memory = NoMemory /\ stage = "idle" /\ job = NoJob
             /\ cancelled = FALSE /\ said = 0

Say(role) ==
    /\ stage = "idle" /\ said < MaxSaid
    /\ role = "user" \/ context # <<>>
    /\ said' = said + 1 /\ context' = Append(context, Msg(role, {said + 1}))
    /\ UNCHANGED <<memory, stage, job, cancelled>>

-----------------------------------------------------------------------------
(* The exact recorded copy leaves the context before the plan is made.       *)

RecordedLeft == 0   \* mutant: the copy stays in the context

Recorded ==
    LET copies == {i \in DOMAIN context : /\ memory.recorded /\ IsText(context[i])
                                          /\ context[i].of = memory.last}
    IN  IF copies = {} THEN 0 ELSE Min(copies)

Without(ms, i) == IF i = 0 THEN ms ELSE RemoveAt(ms, i)

\* detect_split_turn: where the turn begins that the cut falls into, or 0.
TurnStart(ms, cut) ==
    LET starts == {i \in 1 .. cut - 1 : IsUser(ms[i])}
    IN  IF cut > Len(ms) \/ IsUser(ms[cut]) \/ starts = {} THEN 0 ELSE Max(starts)

\* The loop requires a summary at the threshold and after an overflow, and prefers one
\* after a refusal, as /compact does; where that fails it asks for none, and may evict
\* everything.  Only the user writes one.
Start(manual, policy, cut) ==
    LET at == Recorded
        ms == Without(context, at)
    IN  /\ stage = "idle"
        /\ memory.generation < MaxGenerations
        /\ policy # "prefer" => (manual <=> policy = "override")
        /\ \/ cut \in 2 .. Len(ms) /\ IsCut(ms[cut])
           \/ policy = "skip" /\ ms # <<>> /\ cut = Len(ms) + 1
        /\ context' = ms
        /\ job' = [NoJob EXCEPT !.manual = manual, !.policy = policy, !.cut = cut,
                     !.turn = TurnStart(ms, cut), !.at = at,
                     !.removed = IF at = 0 THEN <<>> ELSE <<context[at]>>]
        /\ stage' = "remote"
        /\ UNCHANGED <<memory, cancelled, said>>

Cancel == /\ stage # "idle" /\ ~cancelled /\ cancelled' = TRUE
          /\ UNCHANGED <<context, memory, stage, job, said>>

\* transforms::reclaim: results kept for their run are cleared once a user spoke.
Reclaim(ms) ==
    [i \in DOMAIN ms |->
        IF ms[i].role = "brief" /\ \E j \in i + 1 .. Len(ms) : IsUser(ms[j])
        THEN Msg("cleared", {}) ELSE ms[i]]

\* The messages a job works on; a manual one does not reclaim.
Working == IF job.manual THEN context ELSE Reclaim(context)
Evicted == SubSeq(Working, 1, (IF job.turn = 0 THEN job.cut ELSE job.turn) - 1)
Prefix  == IF job.turn = 0 THEN <<>> ELSE SubSeq(Working, job.turn, job.cut - 1)
Kept    == SubSeq(Working, job.cut, Len(Working))

-----------------------------------------------------------------------------
(* The stages.  What a stage is given is what its text can account for.      *)

Made(kind, of, method) ==
    /\ stage' = "assemble"
    /\ job' = [job EXCEPT !.kind = kind, !.text = of, !.method = method]
    /\ UNCHANGED <<context, memory, cancelled, said>>

GoOn(next, j) == /\ stage' = next /\ job' = j
                 /\ UNCHANGED <<context, memory, cancelled, said>>

Emergency == memory.last \cup AllOf(Evicted) \cup AllOf(Prefix)

\* Stage 0: a summary the user wrote, with the prefix of the turn beside it.
Override ==
    /\ stage = "remote" /\ job.policy = "override" /\ Made("summary", AllOf(Prefix), "local")

\* Stage 1: a recorded text summary goes into the provider's state exactly once.
RemoteInput == (IF memory.recorded THEN memory.last ELSE {})
               \cup AllOf(Evicted) \cup AllOf(Prefix)

\* The endpoint answers with one opaque item, if there is anything to send.
NativeState == AllOf(Evicted \o Prefix) # {} /\ Made("native", RemoteInput, "remote")

\* No stream, a stream that breaks off, no item or two, too long a request, a timeout.
RemoteFails == GoOn("llm", [job EXCEPT !.method = "failed_local"])

Remote == /\ stage = "remote" /\ job.policy # "override"
          /\ NativeState \/ RemoteFails \/ GoOn("llm", job)   \* or it is not supported

\* Stage 2: the text the model writes.  The details of tools are left out in the
\* last attempt, and with them the visible text of a provider's state.
Conversation(short) == SelectSeq(Evicted, LAMBDA m : ~(short /\ m.role = "native"))

Written(short) ==
    IF Conversation(short) = <<>> /\ job.turn # 0
    THEN AllOf(Prefix)                               \* "No prior history."
    ELSE memory.last \cup AllOf(Conversation(short)) \cup AllOf(Prefix)

\* The first attempt, the fallback model's and the abbreviated one; only a context
\* that is too long leads from one to the next.
LlmStage ==
    /\ stage = "llm" /\ job.policy # "skip"
    /\ \/ Made("summary", Written(job.tries = 2), job.method)
       \/ /\ job.tries < 2
          /\ \E t \in job.tries + 1 .. 2 : GoOn("llm", [job EXCEPT !.tries = t])
       \/ job.policy = "required" /\ GoOn("aborted", job)
       \/ job.policy = "prefer" /\ GoOn("emergency", job)

\* Without a model for it even a required summary is the deterministic one.
LlmMissing == stage = "llm" /\ GoOn("emergency", job)

\* Stage 3.
EmergencyStage == /\ stage = "emergency" /\ ~cancelled
                  /\ Made("emergency", Emergency, job.method)

\* Every await of a stage and the checks between them see the caller's token.
Stopped == /\ cancelled /\ stage \in {"remote", "llm", "emergency", "assemble"}
           /\ GoOn("aborted", job)

-----------------------------------------------------------------------------
(* The end: the summary, the kept tail and the state, or everything as before. *)

LastOf(s, n) == IF Len(s) > n THEN SubSeq(s, Len(s) - n + 1, Len(s)) ELSE s

\* extract_user_requests: a user message that is not an emergency summary.
RequestsIn(ms) == LET users == SelectSeq(ms, LAMBDA m : m.role \in {"user", "summary"})
                  IN  [i \in DOMAIN users |-> users[i].of]

ManualMemory == [memory EXCEPT !.last = job.text, !.recorded = job.kind # "native",
                               !.generation = @ + 1]

NewMemory == [ManualMemory EXCEPT
                 !.requests = LastOf(@ \o RequestsIn(Evicted), MaxRequests)]

\* /compact introduces its summaries with a sentence of its own.
Shape == IF job.manual /\ job.kind = "emergency" THEN "summary" ELSE job.kind

Assemble ==
    /\ stage = "assemble" /\ ~cancelled
    /\ context' = <<Msg(Shape, job.text)>> \o Kept
    /\ memory' = IF job.manual THEN ManualMemory ELSE NewMemory
    /\ stage' = "idle" /\ job' = NoJob
    /\ UNCHANGED <<cancelled, said>>

NotRestored == Working   \* mutant: the copy is not put back

\* restore_removed_summary; a snapshot of a manual job is dropped instead.
Restored == IF job.removed = <<>> THEN Working ELSE InsertAt(Working, job.at, job.removed[1])

Abort ==
    /\ stage = "aborted"
    /\ context' = Restored /\ stage' = "idle" /\ job' = NoJob /\ cancelled' = FALSE
    /\ UNCHANGED <<memory, said>>

ChainNext ==
    \/ \E role \in Roles : Say(role)
    \/ \E manual \in BOOLEAN, policy \in {"required", "skip", "prefer", "override"},
          cut \in 2 .. MaxSaid + 2 : Start(manual, policy, cut)
    \/ Cancel \/ Override \/ Remote \/ LlmStage \/ LlmMissing \/ EmergencyStage \/ Stopped
    \/ Assemble \/ Abort

ChainSpec == ChainInit /\ [][ChainNext]_chainVars

-----------------------------------------------------------------------------
(* Properties. *)

TypeOK ==
    /\ \A i \in DOMAIN context : context[i].of \subseteq 1 .. said
    /\ memory.last \subseteq 1 .. said /\ Len(memory.requests) <= MaxRequests
    /\ stage \in {"idle", "remote", "llm", "emergency", "assemble", "aborted"}
    /\ stage = "idle" => job = NoJob

Disjoint(ms) == \A i, j \in DOMAIN ms : i # j => ms[i].of \cap ms[j].of = {}

\* What a compaction hands to the summarizer tells every part of the history once:
\* the recorded summary is given apart and is no longer a message of the context,
\* and the state of a provider, which is one, is not given apart as well.  Nor does
\* a summary count as a request of the user.  (The duplicates that controller.rs
\* removes the exact recorded message against.)
OldHistoryIsGivenOnce ==
    /\ stage = "remote" =>
          Disjoint((IF memory.recorded THEN <<Msg("summary", memory.last)>> ELSE <<>>)
                   \o context)
    /\ \A i \in DOMAIN memory.requests : Cardinality(memory.requests[i]) = 1

Accounted == AllOf(context) \cup AllOf(job.removed)

\* Results whose run is over: a user message follows them.
Expired == UNION {context[i].of : i \in {k \in DOMAIN context :
              context[k].role = "brief" /\ \E j \in k + 1 .. Len(context) : IsUser(context[j])}}

\* A summary was written from the prefix of the current turn alone.
FromPrefixAlone == job.turn # 0 /\ Conversation(job.tries = 2) = <<>>

\* A part of the history that the context accounts for stays accounted for, by a
\* message or by the summary, across cancelled, failed and completed compactions of
\* both kinds.  It is lost only where the user wrote the summary, where a result had
\* expired, and where the model was shown nothing but the prefix of the turn.
CompactionsForgetNothing ==
    [][Accounted \ Accounted' \subseteq
          IF stage = "assemble" /\ (job.policy = "override" \/ FromPrefixAlone)
          THEN 1 .. said ELSE Expired]_chainVars

\* The text of a recorded summary that was taken out of the context is supplied to
\* the summarizer instead (types.rs:125), and so stays part of the history.
RemovedSummariesAreSupplied ==
    [][job.policy # "override" => AllOf(job.removed) \subseteq Accounted']_chainVars
=============================================================================
