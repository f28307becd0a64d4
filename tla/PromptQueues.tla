---------------------------- MODULE PromptQueues ----------------------------
(***************************************************************************)
(* The two editable queues of prompts a run shares with its clients: the   *)
(* steering prompts, delivered between tool calls, and the follow-ups,     *)
(* delivered when the run would end (agent/queue.rs, agent/handle.rs).     *)
(* Clients list the entries, and edit, move, remove or promote one by its  *)
(* id and the version they saw; each call is one lock section, but the     *)
(* promotion of a follow-up takes two.  A prompt is a number, its content  *)
(* the number of edits it has had.                                         *)
(***************************************************************************)
EXTENDS Naturals, Sequences, FiniteSets, SequencesExt

CONSTANTS
    MaxPrompts,     \* bound: prompts that clients send while the run lasts
    MaxVersion      \* bound: the version beyond which nobody edits an entry

ASSUME PromptsAssumption == MaxPrompts \in Nat /\ MaxVersion \in Nat

VARIABLES
    queue,          \* each queue: a sequence of entries
    moving,         \* the entries taken out of the follow-ups and not yet put in steering
    seen,           \* what a slow client has listed and acts on later, at most one entry
    sent,           \* how many prompts were sent
    withdrawn       \* history: the prompts that clients removed or cleared

queueVars == <<queue, moving, seen, sent, withdrawn>>

Queues  == {"steer", "follow"}
Prompts == 1 .. MaxPrompts
Entry   == [id : Prompts, version : 0 .. MaxVersion, text : Nat]
Listed  == [id : Prompts, version : 0 .. MaxVersion, text : Nat, from : Queues]

List(q)        == ToSet(queue[q])
IdsOf(entries) == {e.id : e \in entries}
Queued(q)      == IdsOf(List(q))
Noted(e, q)    == [id |-> e.id, version |-> e.version, text |-> e.text, from |-> q]

QueuesInit ==
    /\ queue = [q \in Queues |-> <<>>]
    /\ moving = {}
    /\ seen = {}
    /\ sent = 0
    /\ withdrawn = {}

Enqueue(q) ==
    /\ sent < MaxPrompts
    /\ sent' = sent + 1
    /\ queue' = [queue EXCEPT ![q] = Append(@, [id |-> sent + 1, version |-> 0, text |-> 0])]
    /\ UNCHANGED <<moving, seen, withdrawn>>

Look ==
    /\ \E q \in Queues : \E e \in List(q) : seen' = {Noted(e, q)}
    /\ UNCHANGED <<queue, moving, sent, withdrawn>>

-----------------------------------------------------------------------------
(* Calls with an id and a version: of the slow client, or of one that lists  *)
(* and acts at once.  A call that names no entry or an old version is an     *)
(* error and changes nothing.                                                *)

Requests == seen \cup UNION {{Noted(e, q) : e \in List(q)} : q \in Queues}

Found(r, i)      == i \in DOMAIN queue[r.from] /\ queue[r.from][i].id = r.id
Matches(r, i)    == Found(r, i) /\ queue[r.from][i].version = r.version
Bumped(e)        == [e EXCEPT !.version = @ + 1]
Reworded(e)      == [e EXCEPT !.text = @ + 1]

Update(r) ==
    /\ r.version < MaxVersion
    /\ \E i \in DOMAIN queue[r.from] :
          /\ Matches(r, i)
          /\ queue' = [queue EXCEPT ![r.from][i] = Bumped(Reworded(queue[r.from][i]))]
    /\ UNCHANGED <<moving, seen, sent, withdrawn>>

Withdraw(r) ==
    /\ \E i \in DOMAIN queue[r.from] :
          /\ Found(r, i)          \* the version is optional
          /\ queue' = [queue EXCEPT ![r.from] = RemoveAt(@, i)]
    /\ withdrawn' = withdrawn \cup {r.id}
    /\ UNCHANGED <<moving, seen, sent>>

\* The entry changes places with a neighbour; both get a new version.
Move(r) ==
    /\ r.version < MaxVersion
    /\ \E i, j \in DOMAIN queue[r.from] :
          /\ Matches(r, i)
          /\ j \in {i - 1, i + 1}
          /\ queue[r.from][j].version < MaxVersion
          /\ queue' = [queue EXCEPT ![r.from][i] = Bumped(queue[r.from][j]),
                                    ![r.from][j] = Bumped(queue[r.from][i])]
    /\ UNCHANGED <<moving, seen, sent, withdrawn>>

\* send_follow_up_now: out of one queue, then into the other.
Promote(r) ==
    /\ r.from = "follow"
    /\ r.version < MaxVersion
    /\ \E i \in DOMAIN queue["follow"] :
          /\ Matches(r, i)
          /\ moving' = moving \cup {queue["follow"][i]}
          /\ queue' = [queue EXCEPT !["follow"] = RemoveAt(@, i)]
    /\ UNCHANGED <<seen, sent, withdrawn>>

PushExisting ==
    /\ \E e \in moving :
          /\ moving' = moving \ {e}
          /\ queue' = [queue EXCEPT !["steer"] = Append(@, Bumped(e))]
    /\ UNCHANGED <<seen, sent, withdrawn>>

Clear(q) ==
    /\ queue[q] # <<>>
    /\ withdrawn' = withdrawn \cup Queued(q)
    /\ queue' = [queue EXCEPT ![q] = <<>>]
    /\ UNCHANGED <<moving, seen, sent>>

\* What clients do to where a prompt is, and to what it says and when.
Dispatch ==
    \/ \E q \in Queues : Enqueue(q)
    \/ \E r \in Requests : Withdraw(r) \/ Promote(r)
    \/ PushExisting

Edit ==
    \/ Look
    \/ \E r \in Requests : Update(r) \/ Move(r)
    \/ \E q \in Queues : Clear(q)

Clients == Dispatch \/ Edit

-----------------------------------------------------------------------------
(* The run takes one prompt at a time (QueueMode::OneAtATime).               *)

Taken(q) == [i \in 1 .. Min({1, Len(queue[q])}) |-> queue[q][i].id]

DrainAll(q) ==
    /\ queue' = [queue EXCEPT ![q] = <<>>]
    /\ UNCHANGED <<moving, seen, sent, withdrawn>>

Drain(q) ==
    /\ queue' = [queue EXCEPT ![q] = SubSeq(@, 2, Len(@))]
    /\ UNCHANGED <<moving, seen, sent, withdrawn>>

QueuesTypeOK ==
    /\ \A q \in Queues : queue[q] \in Seq(Entry)
    /\ moving \subseteq Entry
    /\ seen \subseteq Listed
    /\ Cardinality(seen) <= 1
    /\ sent \in 0 .. MaxPrompts
    /\ withdrawn \subseteq 1 .. sent

\* What a client saw is still so as long as the entry has the version it saw:
\* the version of an entry stands for its text and for the queue it is in, so
\* a stale edit can never overwrite a newer one (update, push_existing).
VersionsTellTheTruth ==
    \A r \in seen : \A q \in Queues : \A e \in List(q) :
        e.id = r.id /\ e.version = r.version => q = r.from /\ e.text = r.text
=============================================================================
