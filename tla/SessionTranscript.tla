-------------------------- MODULE SessionTranscript --------------------------
(***************************************************************************)
(* The transcript of one session: an append-only file that several Session *)
(* objects, in one process or in many, write at once                       *)
(* (src/src/app/src/sessions/session.rs, storage/fs/storage.rs), and the   *)
(* run that flushes a turn's records and its automatic compactions through *)
(* one of them (agent/run/runtime.rs).                                     *)
(*                                                                         *)
(* The file lock makes one storage call one action.  A commit is a loop of *)
(* such calls under the object's own lock: compare and append, and on a    *)
(* conflict re-read and try again.  Other objects write in between.        *)
(*                                                                         *)
(* A message is a number.  A context is the set of the messages it         *)
(* represents, verbatim or through a summary; so a compaction's record     *)
(* holds the set of the messages its plan was made from.                   *)
(***************************************************************************)
EXTENDS Integers, Sequences, FiniteSets, TLC

CONSTANTS
    Handles,      \* Session objects open on the session, in any process
    MaxMessages,  \* bound: how many messages are ever said
    MaxRetries,   \* MAX_CONFLICT_RETRIES
    MaxBatch,     \* bound: records a run buffers between two flushes
    MaxLength,    \* bound: records in the file
    Clears        \* whether someone uses /clear

ASSUME SessionAssumption ==
    /\ {MaxMessages, MaxRetries, MaxBatch, MaxLength} \subseteq Nat
    /\ Clears \in BOOLEAN

Messages == 1 .. MaxMessages

VARIABLES
    file,      \* the records of transcript.jsonl
    tail,      \* what follows its last complete line: clean, torn or garbled
    said,      \* how many messages exist
    open,      \* the handles that are open
    mem,       \* SessionState: next_seq and the context
    write,     \* the commit a handle is in
    job,       \* what the owner of a handle is doing: in a run or elsewhere
    known,     \* the context the run's engine, or the manual plan, works on
    expected,  \* expected_seq
    buffer,    \* records of the run not yet saved
    rebased,   \* context_rebased
    failure    \* why the run of a handle stopped persisting

callVars == <<job, known, expected, buffer, rebased, failure>>
vars == <<file, tail, said, open, mem, write, callVars>>

Kind    == {"item", "stats", "compact", "clear"}
Record  == [kind : Kind, ctx : SUBSET Messages]
Entry   == [seq : Nat, kind : Kind, ctx : SUBSET Messages]
Purpose == {"none", "flush", "precompact", "compact", "final", "closing", "note", "manual"}

Item(m)    == [kind |-> "item", ctx |-> {m}]
Stats      == [kind |-> "stats", ctx |-> {}]
Compact(c) == [kind |-> "compact", ctx |-> c]
Clear      == [kind |-> "clear", ctx |-> {}]

IsControl(r) == r.kind \in {"compact", "clear"}

\* What the first n records resolve to: the last control point's context and
\* every item after it.
Resolve(f, n) ==
    {m \in Messages : \E i \in 1 .. n :
        m \in f[i].ctx /\ \A j \in i + 1 .. n : ~IsControl(f[j])}

NoWrite == [for |-> "none", at |-> "idle", batch |-> <<>>, tries |-> 0]
NoState == [next |-> 0, ctx |-> {}]

Init ==
    /\ file = <<>>
    /\ tail = "clean"
    /\ said = 0
    /\ open = {}
    /\ mem = [h \in Handles |-> NoState]
    /\ write = [h \in Handles |-> NoWrite]
    /\ job = [h \in Handles |-> "none"]
    /\ known = [h \in Handles |-> {}]
    /\ expected = [h \in Handles |-> 0]
    /\ buffer = [h \in Handles |-> <<>>]
    /\ rebased = [h \in Handles |-> FALSE]
    /\ failure = [h \in Handles |-> "none"]

Idle(h) == h \in open /\ write[h].for = "none"

\* The state lock is taken for the whole commit.
Begin(h, for, batch) ==
    write' = [write EXCEPT ![h] = [for |-> for, at |-> "append", batch |-> batch, tries |-> 0]]

Finished(h) == write' = [write EXCEPT ![h] = NoWrite]

\* The run or the manual compaction is over, and its locals with it.
Leave(h) ==
    /\ job' = [job EXCEPT ![h] = "none"]
    /\ known' = [known EXCEPT ![h] = {}]
    /\ expected' = [expected EXCEPT ![h] = 0]
    /\ buffer' = [buffer EXCEPT ![h] = <<>>]
    /\ rebased' = [rebased EXCEPT ![h] = FALSE]
    /\ failure' = [failure EXCEPT ![h] = "none"]

-----------------------------------------------------------------------------
(* The file.                                                                *)

\* truncate_incomplete_tail, before every access: a torn line is dropped.
TornTailKept == tail
Truncated == IF tail = "torn" THEN "clean" ELSE tail

\* A line written behind a torn one cannot be parsed.
AppendLine(entries) ==
    IF Truncated = "clean"
    THEN file' = file \o entries /\ tail' = "clean"
    ELSE file' = file /\ tail' = "garbled"

EntriesAt(base, batch) ==
    [i \in 1 .. Len(batch) |->
        [seq |-> base + i, kind |-> batch[i].kind, ctx |-> batch[i].ctx]]

-----------------------------------------------------------------------------
(* A Session object: opening it, and the commit of one batch.               *)

UncomparedAppend(h) == TRUE
AtTail(h) == mem[h].next = Len(file)

Open(h) ==
    /\ h \notin open
    /\ open' = open \cup {h}
    /\ mem' = [mem EXCEPT ![h] = [next |-> Len(file), ctx |-> Resolve(file, Len(file))]]
    /\ tail' = Truncated
    /\ UNCHANGED <<file, said, write, callVars>>

\* The object is dropped, or its process dies: in the middle of an append, part of
\* the line may have reached the file.
Exit(h) ==
    /\ h \in open
    /\ open' = open \ {h}
    /\ IF write[h].at = "append" /\ AtTail(h) THEN tail' \in {Truncated, "torn"} ELSE tail' = tail
    /\ mem' = [mem EXCEPT ![h] = NoState]
    /\ Finished(h)
    /\ Leave(h)
    /\ UNCHANGED <<file, said>>

Strict(h) == write[h].for \in {"compact", "manual"}

\* What appending the batch makes of the context in memory.
Applied(ctx, batch) ==
    IF IsControl(batch[1]) THEN batch[1].ctx
    ELSE ctx \cup UNION {batch[i].ctx : i \in DOMAIN batch}

\* Context items that others persisted in from + 1 .. to.
NothingInterleaved(from, to) == FALSE
Interleaved(from, to) == \E i \in from + 1 .. to : file[i].kind = "item"

\* A strict write was planned at expected; any other is appended at the tail.
PlanIsCurrent(h) == Strict(h) => mem[h].next = expected[h]

\* A compaction that is skipped leaves only its completion record behind.
StillUnsaved(h, skipped) == buffer[h]
Unsaved(h, skipped) == IF skipped THEN <<Stats>> ELSE <<>>

\* What the run does with a flush that was appended onto base: it remembers the
\* interleaving; after the flush before a compaction it persists the compaction,
\* unless its plan missed what others said.
Flushed(h, base) ==
    LET for   == write[h].for
        stale == rebased[h] \/ Interleaved(expected[h], base)
    IN
    /\ rebased' = [rebased EXCEPT ![h] = stale]
    /\ expected' = [expected EXCEPT ![h] = base + Len(write[h].batch)]
    /\ buffer' = [buffer EXCEPT ![h] = Unsaved(h, for = "precompact" /\ stale)]
    /\ IF for = "final" THEN Begin(h, "closing", <<Stats>>) ELSE Finished(h)
    /\ job' = [job EXCEPT ![h] = IF for = "precompact" /\ ~stale THEN "compacting" ELSE @]
    /\ UNCHANGED <<known, failure>>

\* The compaction is in the file; its completion record waits for the next flush.
Compacted(h) ==
    /\ expected' = [expected EXCEPT ![h] = @ + 1]
    /\ buffer' = [buffer EXCEPT ![h] = <<Stats>>]
    /\ job' = [job EXCEPT ![h] = "run"]
    /\ Finished(h)
    /\ UNCHANGED <<known, rebased, failure>>

\* A run that cannot save drops what it had buffered and writes its closing
\* statistics.  Its other locals are not read again: of a stale plan the model
\* keeps the sequence number it was made for.
StopsPersisting(h, why) ==
    /\ Begin(h, "closing", <<Stats>>)
    /\ job' = [job EXCEPT ![h] = "ending"]
    /\ failure' = [failure EXCEPT ![h] = why]
    /\ buffer' = [buffer EXCEPT ![h] = <<>>]
    /\ known' = [known EXCEPT ![h] = {}]
    /\ rebased' = [rebased EXCEPT ![h] = TRUE]
    /\ expected' = [expected EXCEPT ![h] = IF why = "stale" THEN @ ELSE 0]

\* What the owner of the handle does next.  To count what was interleaved it reads
\* the file again, which may fail after the append.
ResumeAfterAppend(h, base) ==
    LET for == write[h].for IN
    \/ for \in {"flush", "precompact", "final"} /\ Flushed(h, base)
    \/ for \in {"flush", "precompact", "final"} /\ base # expected[h] /\ StopsPersisting(h, "failed")
    \/ for = "compact" /\ Compacted(h)
    \/ for = "note" /\ Finished(h) /\ UNCHANGED callVars
    \/ for \in {"closing", "manual"} /\ Finished(h) /\ Leave(h)

\* compare_and_append_entries succeeds.
Lands(h) ==
    /\ write[h].at = "append"
    /\ mem[h].next + Len(write[h].batch) <= MaxLength
    /\ PlanIsCurrent(h)
    /\ AtTail(h)
    /\ AppendLine(EntriesAt(mem[h].next, write[h].batch))
    /\ UNCHANGED <<said, open>>

\* The batch is published in memory.
Accepted(h) ==
    LET base  == mem[h].next
        batch == write[h].batch
    IN
    /\ Lands(h)
    /\ mem' = [mem EXCEPT ![h] =
                 [next |-> base + Len(batch), ctx |-> Applied(mem[h].ctx, batch)]]
    /\ ResumeAfterAppend(h, base)

\* The caller goes away, as an HTTP request does, while the blocking append is under
\* way: the batch reaches the file and the object does not learn of it.
Abandoned(h) ==
    /\ Lands(h)
    /\ Finished(h)
    /\ \/ write[h].for = "note" /\ UNCHANGED callVars
       \/ write[h].for = "manual" /\ Leave(h)
    /\ UNCHANGED mem

\* An error ends the commit, and a run with it.
Fails(h, why) ==
    /\ \/ write[h].for = "note" /\ Finished(h) /\ UNCHANGED callVars
       \/ write[h].for \in {"closing", "manual"} /\ Finished(h) /\ Leave(h)
       \/ write[h].for \in {"flush", "precompact", "compact", "final"} /\ StopsPersisting(h, why)
    /\ UNCHANGED <<file, said, open, mem>>

StalePlan(h) ==
    /\ write[h].at = "append"
    /\ ~PlanIsCurrent(h)
    /\ Fails(h, "stale")
    /\ UNCHANGED tail

\* The disk refuses the append, or part of it, or the reading before it.
AppendFails(h) ==
    /\ write[h].at = "append"
    /\ PlanIsCurrent(h)
    /\ \/ tail' = Truncated
       \/ AtTail(h) /\ tail' = "torn"
    /\ Fails(h, "failed")

ReadFails(h) ==
    /\ write[h].at = "reread"
    /\ tail' = Truncated
    /\ Fails(h, "failed")

Conflict(h) ==
    /\ write[h].at = "append"
    /\ PlanIsCurrent(h)
    /\ ~AtTail(h)
    /\ tail' = Truncated
    /\ write' = [write EXCEPT ![h].at = "reread"]
    /\ UNCHANGED <<file, said, open, mem, callVars>>

Rebase(h) ==
    mem' = [mem EXCEPT ![h] = [next |-> Len(file), ctx |-> Resolve(file, Len(file))]]

RereadUnlimited(h) ==
    /\ write[h].at = "reread" /\ ~Strict(h)
    /\ tail' = Truncated
    /\ Rebase(h)
    /\ write' = [write EXCEPT ![h].at = "append", ![h].tries = @ + 1]
    /\ UNCHANGED <<file, said, open, callVars>>

Reread(h) ==
    /\ write[h].at = "reread"
    /\ ~Strict(h)
    /\ write[h].tries < MaxRetries
    /\ tail' = Truncated
    /\ Rebase(h)
    /\ write' = [write EXCEPT ![h].at = "append", ![h].tries = @ + 1]
    /\ UNCHANGED <<file, said, open, callVars>>

GivesUp(h) ==
    /\ write[h].at = "reread"
    /\ Strict(h) \/ write[h].tries = MaxRetries
    /\ tail' = Truncated
    /\ Fails(h, IF Strict(h) THEN "stale" ELSE "failed")

-----------------------------------------------------------------------------
(* The run (drive_one_turn) and the other users of a handle.                *)

StartRun(h) ==
    /\ Idle(h) /\ job[h] = "none"
    /\ job' = [job EXCEPT ![h] = "run"]
    /\ known' = [known EXCEPT ![h] = mem[h].ctx]
    /\ expected' = [expected EXCEPT ![h] = mem[h].next]
    /\ UNCHANGED <<file, tail, said, open, mem, write, buffer, rebased, failure>>

InRun(h) == Idle(h) /\ job[h] = "run"

\* MessageEnd: a prompt, an answer or a tool result joins the engine's context.
Say(h) ==
    /\ InRun(h)
    /\ said < MaxMessages
    /\ Len(buffer[h]) < MaxBatch
    /\ said' = said + 1
    /\ buffer' = [buffer EXCEPT ![h] = Append(@, Item(said + 1))]
    /\ known' = [known EXCEPT ![h] = @ \cup {said + 1}]
    /\ UNCHANGED <<file, tail, open, mem, write, job, expected, rebased, failure>>

TurnEnds(h) ==
    /\ InRun(h)
    /\ buffer[h] # <<>>
    /\ Begin(h, "flush", buffer[h])
    /\ UNCHANGED <<file, tail, said, open, mem, callVars>>

\* The engine has compacted or pruned its context; the record of the start of the
\* compaction is in front of it, so the flush is never empty.
Compacts(h) ==
    /\ InRun(h)
    /\ Begin(h, "precompact", Append(buffer[h], Stats))
    /\ UNCHANGED <<file, tail, said, open, mem, callVars>>

\* The lock was given up in between, so the plan may be stale by now.
PersistCompaction(h) ==
    /\ Idle(h) /\ job[h] = "compacting"
    /\ Begin(h, "compact", <<Compact(known[h])>>)
    /\ UNCHANGED <<file, tail, said, open, mem, callVars>>

EngineCompletes(h) ==
    /\ InRun(h)
    /\ IF buffer[h] = <<>> THEN Begin(h, "closing", <<Stats>>) ELSE Begin(h, "final", buffer[h])
    /\ job' = [job EXCEPT ![h] = "ending"]
    /\ UNCHANGED <<file, tail, said, open, mem, known, expected, buffer, rebased, failure>>

\* A manual compaction plans from a snapshot, asks a model for the summary while
\* the object is free, and then commits.
StartManual(h) ==
    /\ Idle(h) /\ job[h] = "none"
    /\ job' = [job EXCEPT ![h] = "manual"]
    /\ known' = [known EXCEPT ![h] = mem[h].ctx]
    /\ expected' = [expected EXCEPT ![h] = mem[h].next]
    /\ UNCHANGED <<file, tail, said, open, mem, write, buffer, rebased, failure>>

FinishManual(h) ==
    /\ Idle(h) /\ job[h] = "manual"
    /\ Begin(h, "manual", <<Compact(known[h])>>)
    /\ UNCHANGED <<file, tail, said, open, mem, callVars>>

\* Nothing to compact, or the user cancels.
DropManual(h) ==
    /\ Idle(h) /\ job[h] = "manual"
    /\ Leave(h)
    /\ UNCHANGED <<file, tail, said, open, mem, write>>

\* A background notice, a share, a change of the model: one record without context,
\* through an object of its own or a shared one.
Note(h) ==
    /\ Idle(h)
    /\ Begin(h, "note", <<Stats>>)
    /\ UNCHANGED <<file, tail, said, open, mem, callVars>>

WriteClear(h) ==
    /\ Clears
    /\ Idle(h) /\ job[h] = "none"
    /\ Begin(h, "note", <<Clear>>)
    /\ UNCHANGED <<file, tail, said, open, mem, callVars>>

-----------------------------------------------------------------------------
Commit(h) == \/ Accepted(h) \/ Abandoned(h) \/ StalePlan(h) \/ AppendFails(h)
             \/ Conflict(h) \/ Reread(h) \/ ReadFails(h) \/ GivesUp(h)
Run(h)    == \/ StartRun(h) \/ Say(h) \/ TurnEnds(h) \/ Compacts(h) \/ PersistCompaction(h)
             \/ EngineCompletes(h)
Others(h) == StartManual(h) \/ FinishManual(h) \/ DropManual(h) \/ Note(h) \/ WriteClear(h)

Next == \E h \in Handles : Open(h) \/ Exit(h) \/ Commit(h) \/ Run(h) \/ Others(h)

Spec == Init /\ [][Next]_vars

-----------------------------------------------------------------------------
(* Properties                                                               *)

TypeOK ==
    /\ file \in Seq(Entry)
    /\ tail \in {"clean", "torn", "garbled"}
    /\ said \in 0 .. MaxMessages
    /\ open \subseteq Handles
    /\ mem \in [Handles -> [next : Nat, ctx : SUBSET Messages]]
    /\ write \in [Handles -> [for : Purpose, at : {"idle", "append", "reread"},
                              batch : Seq(Record), tries : 0 .. MaxRetries]]
    /\ job \in [Handles -> {"none", "run", "compacting", "ending", "manual"}]
    /\ known \in [Handles -> SUBSET Messages]
    /\ expected \in [Handles -> Nat]
    /\ buffer \in [Handles -> Seq(Record)]
    /\ rebased \in [Handles -> BOOLEAN]
    /\ failure \in [Handles -> {"none", "stale", "failed"}]

\* Every open Session is a faithful view of some past of the file: its sequence
\* number exists and its context is what a reader would resolve there.  What it
\* committed is therefore in the file, whatever crashed since.
MemoryIsAPast ==
    \A h \in open :
        /\ mem[h].next <= Len(file)
        /\ mem[h].ctx = Resolve(file, mem[h].next)

\* Sequence numbers are the places in the file, so that comparing the last one is
\* comparing the whole file.
SequenceIsPlace == \A i \in DOMAIN file : file[i].seq = i

\* What every open Session holds is a past of a file whose order is its numbering.
MemoryIsFaithful == MemoryIsAPast /\ SequenceIsPlace

\* The messages in the file that no /clear has put away.
SinceClear(f, n) ==
    {m \in Messages : \E i \in 1 .. n :
        /\ f[i].kind = "item" /\ m \in f[i].ctx
        /\ \A j \in i + 1 .. n : f[j].kind # "clear"}

\* No compaction loses what another client said: every message since the last
\* /clear is represented in the context that a resume would load.
NoMessageIsLost == SinceClear(file, Len(file)) \subseteq Resolve(file, Len(file))

\* A message is recorded at most once, over all retries, rebases and failures.
SaidOnce ==
    \A i, j \in DOMAIN file : file[i].kind = "item" /\ file[j].kind = "item" =>
        (file[i].ctx = file[j].ctx => i = j)

\* What was committed is never put out of a reader's reach by a later append.
StaysReadable == tail # "garbled"

\* A /clear stays in force: what it put away never comes back into the context.
ClearedStaysCleared == Resolve(file, Len(file)) \subseteq SinceClear(file, Len(file))

\* Records without context never stop a run from persisting its compaction.
OnlyMessagesMakePlansStale ==
    \A h \in Handles : failure[h] = "stale" => Interleaved(expected[h], Len(file))

\* The clients of a session are alike.
AnyClient == Permutations(Handles)
=============================================================================
