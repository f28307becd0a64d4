------------------------------ MODULE RunEvents ------------------------------
(***************************************************************************)
(* From the events of the engine to the screen and to the transcript: the  *)
(* projection of an engine event (agent/run/projection.rs), the loop that  *)
(* handles one projected event at a time (agent/run/runtime.rs), the queue *)
(* to a listener that may be slow or gone (agent/run/outbox.rs), and the   *)
(* nodes a chat shows, live and when a session is opened again             *)
(* (conversation/chat_projection.rs).                                      *)
(*                                                                         *)
(* A failed write and the clients that write the same session are          *)
(* SessionTranscript's; here every flush succeeds.  The times, the token   *)
(* counts and the texts of an event are left out; every piece of an answer *)
(* has a number.                                                           *)
(***************************************************************************)
EXTENDS Naturals, Sequences, SequencesExt

CONSTANTS
    CoalesceAfter,      \* COALESCE_AFTER_EVENTS
    Budget,             \* MAX_PENDING_BYTES, an event without content weighing 1
    MaxEvents           \* bound: events of the engine

ASSUME EventsAssumption == {CoalesceAfter, Budget, MaxEvents} \subseteq Nat

VARIABLES
    stage,          \* of the engine: turn, prompt, call, stream, answer, tools, told, over, last, end, gone
    made,           \* events the engine has made, and the number of the last one
    \* the loop
    loop,           \* read, registered, checked, waiting, select, signal, finish, closing, over
    pendingEvents,  \* projected, not handled yet
    consumerClosed, \* consumer_closed
    transcript,     \* turn_transcripts
    saved,          \* saved_count
    stored,         \* what the session has of this run
    \* the queue
    queue,          \* events with the bytes they count for
    pendingBytes,
    ready,          \* the permit of Notify::ready
    woken,          \* drained has been notified since the loop registered
    senderClosed,
    receiverClosed,
    listener,       \* look, notify, asleep, finished, gone
    sent,           \* every event that was queued, one by one
    shown           \* the events the listener has received

engineVars == <<stage, made>>
loopVars   == <<loop, pendingEvents, consumerClosed, transcript, saved, stored>>
queueVars  == <<queue, pendingBytes, ready, woken, senderClosed, receiverClosed, listener, sent, shown>>
eventVars  == <<engineVars, loopVars, queueVars>>

-----------------------------------------------------------------------------
(* StopReason as text: convert.rs, llm.rs.  "max_tokens" is none of them.  *)
StopReasons == {"stop", "length", "toolUse"}

\* The public events that become a node of their own, and their status.
Plain(kind, n) == [kind |-> kind, n |-> n, key |-> <<>>, parts |-> <<>>, stop |-> "none"]
Piece(key, n)  == [Plain("delta", n) EXCEPT !.key = key, !.parts = <<n>>]

Public(event)  == [to |-> "public", event |-> event]
Record(event)  == [to |-> "transcript", event |-> event]
Signal(what)   == [to |-> what, event |-> Plain("none", 0)]

\* map_agent_event: what is to be stored comes before what is to be shown.

OfMessages(e) ==
    CASE e.kind = "user"    -> <<Record(e)>>
      [] e.kind = "answer"  -> <<Record(e), Public(e)>>
      [] e.kind = "resultMessage" -> <<>>
      [] OTHER              -> <<Public(e)>>

OfTools(e) ==
    IF e.kind = "result"
    THEN <<Record(e), Record([e EXCEPT !.kind = "stats"]), Public(e)>>
    ELSE <<Public(e)>>

OfCalls(e) == <<Record([e EXCEPT !.kind = "stats"]), Public(e)>>

OfContext(e) ==
    IF e.kind = "pruned"
    THEN <<Record([e EXCEPT !.kind = "stats"]), Public(e), Signal("pruned")>>
    ELSE <<Signal(e.kind), Public(e)>>

Project(e) ==
    CASE e.kind \in {"user", "answer", "resultMessage", "delta"} -> OfMessages(e)
      [] e.kind \in {"running", "result"} -> OfTools(e)
      [] e.kind \in {"callStart", "retry", "callEnd"} -> OfCalls(e)
      [] e.kind \in {"compacted", "unchanged", "pruned"} -> OfContext(e)
      [] e.kind = "turnStart" -> <<Signal("turn"), Public(e)>>
      [] e.kind = "turnEnd"   -> <<Signal("flush")>>
      [] e.kind = "agentEnd"  -> <<Signal("completed")>>

Node(what, e) == [node |-> what, n |-> e.n, stop |-> e.stop]

\* map_run_event: the end of a call, and the notice of an answer cut by the limit.
CallNodes(e) ==
    IF e.stop = "max_tokens"
    THEN <<Node("tail", e), Node("cap", e)>>
    ELSE <<Node("tail", e)>>

Nodes(e) ==
    CASE e.kind = "callEnd" -> CallNodes(e)
      [] e.kind \in {"compacted", "unchanged"} -> <<Node("compact", e)>>
      [] e.kind \in {"answer", "result", "delta", "retry", "callStart", "running"} -> <<Node(e.kind, e)>>
      [] OTHER -> <<>>

\* replay_nodes.
Replayed(item) ==
    CASE item.kind = "compacted" -> <<Node("compact", item)>>
      [] item.kind \in {"user", "answer", "result"} -> <<Node(item.kind, item)>>
      [] OTHER -> <<>>

-----------------------------------------------------------------------------
(* The queue.                                                              *)

\* event_bytes: a header, and the content of a piece.
Bytes(e) == IF e.kind = "delta" THEN 2 ELSE 1

\* Mutant: any two pieces.
CoalescesAny(last, e) ==
    /\ last.kind = "delta" /\ e.kind = "delta"

\* coalesce: pieces of the same block or of the same call.
Coalesces(last, e) ==
    /\ last.kind = "delta" /\ e.kind = "delta"
    /\ last.key = e.key

\* Mutant: the merged event keeps its old size.
SendUncounted(e) ==
    LET last == Len(queue)
    IN IF last >= CoalesceAfter /\ last > 0 /\ Coalesces(queue[last].event, e)
       THEN /\ queue' = [queue EXCEPT ![last].event.parts = @ \o e.parts]
            /\ pendingBytes' = pendingBytes + (Bytes(e) - 1)
            /\ sent' = Append(sent, e)
       ELSE /\ queue' = Append(queue, [event |-> e, bytes |-> Bytes(e)])
            /\ pendingBytes' = pendingBytes + Bytes(e)
            /\ sent' = Append(sent, e)

\* EventSender::send, up to the release of the lock.
Send(e) ==
    LET last == Len(queue)
    IN IF last >= CoalesceAfter /\ last > 0 /\ Coalesces(queue[last].event, e)
       THEN /\ queue' = [queue EXCEPT ![last].event.parts = @ \o e.parts, ![last].bytes = @ + (Bytes(e) - 1)]
            /\ pendingBytes' = pendingBytes + (Bytes(e) - 1)
            /\ sent' = Append(sent, e)
       ELSE /\ queue' = Append(queue, [event |-> e, bytes |-> Bytes(e)])
            /\ pendingBytes' = pendingBytes + Bytes(e)
            /\ sent' = Append(sent, e)

\* notify_one on ready: it wakes the listener or leaves a permit.
SignalReady ==
    IF listener = "asleep"
    THEN listener' = "look" /\ UNCHANGED ready
    ELSE ready' = TRUE /\ UNCHANGED listener

OverBudget == pendingBytes > Budget

\* recv: the first event, or the end, or sleep.
Look ==
    /\ listener = "look"
    /\ \/ /\ queue # <<>>
          /\ pendingBytes' = pendingBytes - Head(queue).bytes
          /\ shown' = Append(shown, Head(queue).event)
          /\ queue' = Tail(queue)
          /\ listener' = "notify"
          /\ UNCHANGED ready
       \/ /\ queue = <<>> /\ senderClosed
          /\ listener' = "finished"
          /\ UNCHANGED <<queue, pendingBytes, shown, ready>>
       \/ /\ queue = <<>> /\ ~senderClosed
          /\ IF ready
             THEN ready' = FALSE /\ UNCHANGED listener
             ELSE listener' = "asleep" /\ UNCHANGED ready
          /\ UNCHANGED <<queue, pendingBytes, shown>>
    /\ UNCHANGED <<engineVars, loopVars, woken, senderClosed, receiverClosed, sent>>

\* Mutant: only a future that was polled is reached.
NotifySleepers ==
    woken' = (loop = "waiting" \/ woken)

\* notify_waiters reaches whoever has made its future, polled or not.
NotifyDrained ==
    woken' = (loop \in {"registered", "checked", "waiting"} \/ woken)

Notify ==
    /\ listener = "notify"
    /\ listener' = "look"
    /\ NotifyDrained
    /\ UNCHANGED <<engineVars, loopVars, queue, pendingBytes, ready, senderClosed, receiverClosed, sent, shown>>

\* The listener drops the receiver.
DropReceiver ==
    /\ listener \in {"look", "asleep"}
    /\ listener' = "gone"
    /\ receiverClosed' = TRUE
    /\ UNCHANGED <<engineVars, loopVars, queue, pendingBytes, ready, woken, senderClosed, sent, shown>>

-----------------------------------------------------------------------------
(* The engine: the order in which the runner makes its events.             *)

Made(kind) == Plain(kind, made + 1)

\* What the engine may send now, and its stage afterwards.
Offers ==
    CASE stage = "turn" -> {<<Made("turnStart"), "prompt">>}
      [] stage = "prompt" -> {<<Made("user"), "call">>, <<Made("compacted"), "prompt">>,
                              <<Made("unchanged"), "prompt">>}
      [] stage = "call" -> {<<Made("callStart"), "stream">>}
      [] stage = "stream" ->
             {<<Piece(key, made + 1), "stream">> : key \in {<<"text", 0>>, <<"tool", 1>>}}
             \cup {<<Made("retry"), "call">>}
             \cup {<<[Made("callEnd") EXCEPT !.stop = s], "answer">> : s \in StopReasons}
      [] stage = "answer" -> {<<Made("answer"), "tools">>, <<Made("answer"), "over">>}
      [] stage = "tools" -> {<<Made("running"), "tools">>, <<Made("result"), "told">>}
      [] stage = "told" -> {<<Made("resultMessage"), "tools">>, <<Made("resultMessage"), "over">>}
      [] stage = "over" -> {<<Made("turnEnd"), "turn">>, <<Made("turnEnd"), "last">>}
      [] stage = "last" -> {<<Made("agentEnd"), "gone">>, <<Made("pruned"), "end">>}
      [] stage = "end" -> {<<Made("agentEnd"), "gone">>}
      [] OTHER -> {}

\* Bound: past MaxEvents the engine has been cancelled and only ends.
Allowed ==
    IF made < MaxEvents \/ stage = "gone" THEN Offers
    ELSE {<<Made("agentEnd"), "gone">>}

-----------------------------------------------------------------------------
(* The loop (drive_one_turn).                                              *)

EventsInit ==
    /\ stage = "turn" /\ made = 0
    /\ loop = "read" /\ pendingEvents = <<>> /\ consumerClosed = FALSE
    /\ transcript = <<>> /\ saved = 0 /\ stored = <<>>
    /\ queue = <<>> /\ pendingBytes = 0
    /\ ready = FALSE /\ woken = FALSE
    /\ senderClosed = FALSE /\ receiverClosed = FALSE
    /\ listener = "look"
    /\ sent = <<>> /\ shown = <<>>

MustWait == ~consumerClosed /\ OverBudget

\* A slow listener stops the reading of the engine.
Register ==
    /\ loop = "read" /\ pendingEvents = <<>>
    /\ MustWait
    /\ loop' = "registered"
    /\ woken' = FALSE
    /\ UNCHANGED <<engineVars, pendingEvents, consumerClosed, transcript, saved, stored, queue, pendingBytes, ready,
                   senderClosed, receiverClosed, listener, sent, shown>>

CheckBudget ==
    /\ loop = "registered"
    /\ loop' = IF receiverClosed \/ ~OverBudget THEN "select" ELSE "checked"
    /\ UNCHANGED <<engineVars, pendingEvents, consumerClosed, transcript, saved, stored, queueVars>>

\* The future is polled only now: the listener may have come between.
Sleep ==
    /\ loop = "checked"
    /\ loop' = "waiting"
    /\ UNCHANGED <<engineVars, pendingEvents, consumerClosed, transcript, saved, stored, queueVars>>

\* Woken, the loop of wait_for_capacity registers again.
Wake ==
    /\ loop = "waiting"
    /\ \/ woken /\ loop' = "registered" /\ woken' = FALSE
       \/ receiverClosed /\ loop' = "select" /\ UNCHANGED woken
    /\ UNCHANGED <<engineVars, pendingEvents, consumerClosed, transcript, saved, stored, queue, pendingBytes, ready,
                   senderClosed, receiverClosed, listener, sent, shown>>

Reading ==
    \/ loop = "select"
    \/ loop = "read" /\ pendingEvents = <<>> /\ ~MustWait

NoticeClosed ==
    /\ Reading
    /\ receiverClosed /\ ~consumerClosed
    /\ consumerClosed' = TRUE
    /\ loop' = "read"
    /\ UNCHANGED <<engineVars, pendingEvents, transcript, saved, stored, queueVars>>

ReadEngine ==
    /\ Reading
    /\ \E offer \in Allowed :
          /\ pendingEvents' = Project(offer[1])
          /\ stage' = offer[2]
          /\ made' = made + 1
    /\ loop' = "read"
    /\ UNCHANGED <<consumerClosed, transcript, saved, stored, queueVars>>

Unsaved == SubSeq(transcript, saved + 1, Len(transcript))

\* Mutant: what was saved is not counted.
FlushUncounted ==
    /\ stored' = stored \o Unsaved
    /\ UNCHANGED saved

\* flush: what is not saved yet, once.
Flush ==
    /\ stored' = stored \o Unsaved
    /\ saved' = Len(transcript)

\* The item of a compaction goes after what was said before it.
StoreCompact(n) ==
    /\ stored' = stored \o Unsaved \o <<Plain("compacted", n)>>
    /\ saved' = Len(transcript)

Handle ==
    /\ loop = "read" /\ pendingEvents # <<>>
    /\ LET next == Head(pendingEvents)
       IN /\ pendingEvents' = Tail(pendingEvents)
          /\ \/ /\ next.to = "transcript"
                /\ transcript' = Append(transcript, next.event)
                /\ UNCHANGED <<loop, saved, stored, consumerClosed, queueVars>>
             \/ /\ next.to \in {"compacted", "pruned"}
                /\ StoreCompact(IF next.to = "pruned" THEN 0 ELSE made)
                /\ transcript' = Append(transcript, Plain("stats", made))
                /\ UNCHANGED <<loop, consumerClosed, queueVars>>
             \/ /\ next.to = "unchanged"
                /\ transcript' = Append(transcript, Plain("stats", made))
                /\ UNCHANGED <<loop, saved, stored, consumerClosed, queueVars>>
             \/ /\ next.to = "flush"
                /\ Flush
                /\ UNCHANGED <<loop, transcript, consumerClosed, queueVars>>
             \/ /\ next.to = "turn"
                /\ UNCHANGED <<loop, transcript, saved, stored, consumerClosed, queueVars>>
             \/ /\ next.to = "completed"
                /\ Flush
                /\ loop' = "finish"
                /\ UNCHANGED <<transcript, consumerClosed, queueVars>>
             \/ /\ next.to = "public" /\ consumerClosed
                /\ UNCHANGED <<loop, transcript, saved, stored, consumerClosed, queueVars>>
             \/ /\ next.to = "public" /\ ~consumerClosed
                /\ IF receiverClosed
                   THEN /\ consumerClosed' = TRUE
                        /\ UNCHANGED <<loop, queue, pendingBytes, sent>>
                   ELSE /\ Send(next.event)
                        /\ loop' = "signal"
                        /\ UNCHANGED consumerClosed
                /\ UNCHANGED <<transcript, saved, stored, ready, woken, senderClosed, receiverClosed,
                               listener, shown>>
    /\ UNCHANGED engineVars

\* notify_one, after the lock is released.
SignalSent ==
    /\ loop = "signal"
    /\ loop' = "read"
    /\ SignalReady
    /\ UNCHANGED <<engineVars, pendingEvents, consumerClosed, transcript, saved, stored, queue, pendingBytes, woken,
                   senderClosed, receiverClosed, sent, shown>>

\* run_loop: RunFinished, then the sender is dropped.
FinishRun ==
    /\ loop = "finish"
    /\ IF receiverClosed
       THEN UNCHANGED <<queue, pendingBytes, sent, ready, listener>>
       ELSE Send(Plain("finished", made)) /\ SignalReady
    /\ loop' = "closing"
    /\ UNCHANGED <<engineVars, pendingEvents, consumerClosed, transcript, saved, stored, woken, senderClosed,
                   receiverClosed, shown>>

DropSender ==
    /\ loop = "closing"
    /\ loop' = "over"
    /\ senderClosed' = TRUE
    /\ SignalReady
    /\ UNCHANGED <<engineVars, pendingEvents, consumerClosed, transcript, saved, stored, queue, pendingBytes, woken,
                   receiverClosed, sent, shown>>

Over == loop = "over" /\ listener \in {"finished", "gone"} /\ UNCHANGED eventVars

EventsNext ==
    \/ Register \/ CheckBudget \/ Sleep \/ Wake \/ NoticeClosed \/ ReadEngine \/ Handle \/ SignalSent
    \/ FinishRun \/ DropSender
    \/ Look \/ Notify \/ DropReceiver
    \/ Over

EventsSpec == EventsInit /\ [][EventsNext]_eventVars

-----------------------------------------------------------------------------
\* An event as the events it was merged from.
Pieces(e) == IF e.kind = "delta" THEN [i \in 1..Len(e.parts) |-> Piece(e.key, e.parts[i])] ELSE <<e>>

Queued == [i \in 1..Len(queue) |-> queue[i].event]

BytesOf(entries) ==
    LET upTo[n \in 0 .. Len(entries)] == IF n = 0 THEN 0 ELSE upTo[n - 1] + entries[n].bytes
    IN  upTo[Len(entries)]

\* Whatever is merged, however slow the listener is, it has received and is still to receive what was
\* sent, in the order in which it was sent; and the bytes counted are those of the queue, so that an
\* empty queue never holds the run back (outbox.rs:111-136, 169-179).
StreamIsFaithful ==
    /\ sent = FlattenSeq([i \in 1..Len(shown \o Queued) |-> Pieces((shown \o Queued)[i])])
    /\ pendingBytes = BytesOf(queue)

\* Nobody sleeps through what it waits for: a loop that waits for room has a full queue before it or a
\* wake-up on its way, a listener sleeps only while the queue is empty and the run goes on
\* (outbox.rs:140-152, 167-186).
NobodyOversleeps ==
    /\ loop = "waiting" /\ ~woken /\ ~receiverClosed =>
          \/ OverBudget /\ queue # <<>>
          \/ listener = "notify"
    /\ listener = "asleep" /\ loop # "signal" => queue = <<>> /\ ~senderClosed

Settled(nodes) ==
    FlattenSeq([i \in 1..Len(nodes) |-> IF nodes[i].node \in {"answer", "result"} THEN <<nodes[i]>> ELSE <<>>])

\* A listener that stays sees, between two events of the engine, the same answers and results in the
\* same order as whoever opens the session from what is stored and about to be stored
\* (projection.rs:1-3, chat_projection.rs:1-4); and what is stored is never stored twice.
ScreenMatchesTranscript ==
    /\ pendingEvents = <<>> /\ ~receiverClosed =>
          Settled(FlattenSeq([i \in 1..Len(sent) |-> Nodes(sent[i])]))
            = Settled(FlattenSeq([i \in 1..Len(stored \o Unsaved) |-> Replayed((stored \o Unsaved)[i])]))

\* The events of a run reach the listener as they were made, nobody sleeps through them, and what they
\* show is what a replay of the transcript shows (run/outbox.rs, run/runtime.rs, chat_projection.rs).
EventsArrive == StreamIsFaithful /\ NobodyOversleeps /\ ScreenMatchesTranscript

\* "The cap is a turn outcome, not an error: surface it as its own notice" (chat_projection.rs:522).
CappedAnswersAreNoticed ==
    LET nodes == FlattenSeq([i \in 1..Len(shown) |-> Nodes(shown[i])])
    IN \A i \in 1..Len(nodes) :
          nodes[i].node = "tail" /\ nodes[i].stop = "length" => i < Len(nodes) /\ nodes[i + 1].node = "cap"
=============================================================================
