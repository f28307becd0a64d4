------------------------------ MODULE CloudSync ------------------------------
(***************************************************************************)
(* One session on several machines and in the cloud: pushes that compare   *)
(* and append, pulls, sharing and its end, and the metadata record that    *)
(* runs, renames and syncs edit under one lock (sync/push.rs, pull.rs,     *)
(* storage/fs/session_meta.rs).  On a machine several actors sync at once: *)
(* the push after each run and the commands of each terminal; meanwhile    *)
(* runs append.  A step ends at an await; requests and answers get lost,   *)
(* and an actor may die between two steps.                                 *)
(*                                                                         *)
(* The cloud is not in this repository: it appends a push whose            *)
(* expected_seq is its own, and takes a forced one whole.                  *)
(***************************************************************************)
EXTENDS Naturals, Sequences

CONSTANTS
    Machines,
    Actors,         \* whoever syncs the session
    Home,           \* the machine of each actor
    First,          \* the machine where the session was created
    MaxChanges,     \* bound: entries ever written, and the renames of any one copy
    MaxTrouble      \* bound: lost requests or answers, deaths, and pushes that overwrite the cloud copy

ASSUME SyncAssumption ==
    /\ Home \in [Actors -> Machines] /\ First \in Machines
    /\ {MaxChanges, MaxTrouble} \subseteq Nat

VARIABLES
    log,            \* the transcript on each machine: the numbers of its entries
    exists,         \* whether the machine has the session
    title, link,    \* its metadata: custom_title, cloud.synced_seq
    op,             \* what each actor is doing
    remote,         \* the cloud copy
    base,           \* history: what each entry was written after
    owned,          \* history: title and link as a rename and a sync last set them
    forced,         \* forced pushes
    replaced, torn, \* history: the cloud lost a copy; a run wrote into one that lacked entries
    faults

metadata == <<title, link, owned>>
past     == <<forced, replaced, torn, faults>>
syncVars == <<log, exists, metadata, op, remote, base, past>>

NoLink    == [shared |-> FALSE, synced |-> 0]
Linked(n) == [shared |-> TRUE, synced |-> n]
Idle      == [at |-> "idle", kind |-> "none", after |-> 0, link |-> NoLink, log |-> <<>>, title |-> 0]
NoCopy    == [exists |-> FALSE, log |-> <<>>, title |-> 0]
Copy(s, t) == [exists |-> TRUE, log |-> s, title |-> t]
Rest(s, n) == SubSeq(s, n + 1, Len(s))

\* The metadata in the Session object of a run that began before all else.
Opened    == [title |-> 0, link |-> NoLink]

Init ==
    /\ log = [m \in Machines |-> <<>>]
    /\ exists = [m \in Machines |-> m = First]
    /\ title = [m \in Machines |-> 0]
    /\ link = [m \in Machines |-> NoLink]
    /\ op = [x \in Actors |-> Idle]
    /\ remote = NoCopy
    /\ base = <<>>
    /\ owned = [m \in Machines |-> Opened]
    /\ forced = 0 /\ faults = 0
    /\ replaced = FALSE /\ torn = FALSE

-----------------------------------------------------------------------------
(* The metadata record: a rename owns the title, a sync the link, and what a *)
(* run saves comes from the copy it opened long ago (session_meta::update).  *)

MayChange == \A m \in Machines : owned[m].title + Len(base) < MaxChanges

SetLink(m, l) ==
    /\ link' = [link EXCEPT ![m] = l]
    /\ owned' = [owned EXCEPT ![m].link = l]
    /\ UNCHANGED title

Rename(m) ==
    /\ exists[m]
    /\ MayChange
    /\ title' = [title EXCEPT ![m] = owned[m].title + 1]
    /\ owned' = [owned EXCEPT ![m].title = @ + 1]
    /\ UNCHANGED <<log, exists, link, op, remote, base, past>>

SaveWhole(m) ==
    /\ exists[m]
    /\ title' = [title EXCEPT ![m] = Opened.title]
    /\ link' = [link EXCEPT ![m] = Opened.link]
    /\ UNCHANGED <<log, exists, owned, op, remote, base, past>>

\* Title and link of the record stay; the activity of the session changes.
Save(m) ==
    /\ exists[m]
    /\ UNCHANGED syncVars

\* Whether the copy of a machine lacks entries that its link, or a sync under
\* way there, takes it to have, or that a first pull is about to install.
Lacks(m) ==
    \/ Len(log[m]) < link[m].synced
    \/ \E x \in {y \in Actors : Home[y] = m} :
          op[x].kind = "first" \/ Len(log[m]) < op[x].after \/ Len(log[m]) < op[x].link.synced

\* A run of the machine writes an entry.
Write(m) ==
    /\ exists[m]
    /\ MayChange
    /\ base' = Append(base, log[m])
    /\ log' = [log EXCEPT ![m] = Append(@, Len(base'))]
    /\ torn' = (torn \/ Lacks(m))
    /\ UNCHANGED <<exists, metadata, op, remote, forced, replaced, faults>>

-----------------------------------------------------------------------------
(* push_session: metadata, then entries, then the request.                   *)

Doing(x, place) == op[x].at = place
Go(x, o)        == op' = [op EXCEPT ![x] = o]
Stop(x)         == Go(x, Idle)
Here(x)         == Home[x]

Pushing(x, kind) ==
    [op[x] EXCEPT !.at = "reading", !.kind = kind, !.title = title[Here(x)],
                  !.after = IF kind = "force" THEN 0 ELSE link[Here(x)].synced]

Push(x, kind) ==
    /\ Doing(x, "idle")
    /\ exists[Here(x)]
    /\ link[Here(x)].shared             \* else NotShared
    /\ kind = "force" => forced + faults < MaxTrouble
    /\ forced' = IF kind = "force" THEN forced + 1 ELSE forced
    /\ Go(x, Pushing(x, kind))
    /\ UNCHANGED <<log, exists, metadata, remote, base, replaced, torn, faults>>

ReadEntries(x) ==
    /\ Doing(x, "reading")
    /\ Go(x, [op[x] EXCEPT !.at = "sending", !.log = log[Here(x)]])
    /\ UNCHANGED <<log, exists, metadata, remote, base, past>>

AcceptAny(x) == TRUE
Accepts(x) == op[x].kind = "force" \/ Len(remote.log) = op[x].after

Receive(x) ==
    IF op[x].kind = "force"
    THEN remote' = Copy(op[x].log, op[x].title) /\ replaced' = TRUE
    ELSE /\ remote' = Copy(remote.log \o Rest(op[x].log, op[x].after), op[x].title)
         /\ UNCHANGED replaced

PushArrives(x) ==
    /\ Doing(x, "sending")
    /\ Accepts(x)
    /\ Receive(x)
    /\ Go(x, [Idle EXCEPT !.at = "acked", !.after = Len(remote'.log)])
    /\ UNCHANGED <<log, exists, metadata, base, forced, torn, faults>>

\* Another machine was there first: nothing is written.  A share that does
\* not come about puts back what it found.
Fail(x) == IF op[x].kind = "share" THEN Go(x, [op[x] EXCEPT !.at = "restoring"]) ELSE Stop(x)

PushConflicts(x) ==
    /\ Doing(x, "sending")
    /\ ~Accepts(x)
    /\ Fail(x)
    /\ UNCHANGED <<log, exists, metadata, remote, base, past>>

PushLost(x) ==
    /\ Doing(x, "sending")
    /\ forced + faults < MaxTrouble
    /\ (Accepts(x) /\ Receive(x)) \/ UNCHANGED <<remote, replaced>>
    /\ Fail(x)
    /\ faults' = faults + 1
    /\ UNCHANGED <<log, exists, metadata, base, forced, torn>>

Acknowledge(x) ==
    /\ Doing(x, "acked")
    /\ SetLink(Here(x), Linked(op[x].after))
    /\ Stop(x)
    /\ UNCHANGED <<log, exists, remote, base, past>>

-----------------------------------------------------------------------------
(* share_session and unshare_session.                                        *)

Share(x) ==
    /\ Doing(x, "idle")
    /\ exists[Here(x)]
    /\ Go(x, [op[x] EXCEPT !.at = "linking", !.link = link[Here(x)]])
    /\ UNCHANGED <<log, exists, metadata, remote, base, past>>

LinkFirst(x) ==
    /\ Doing(x, "linking")
    /\ SetLink(Here(x), Linked(op[x].link.synced))
    /\ Go(x, [op[x] EXCEPT !.at = "linked"])
    /\ UNCHANGED <<log, exists, remote, base, past>>

PushShared(x) ==
    /\ Doing(x, "linked")
    /\ IF link[Here(x)].shared THEN Go(x, Pushing(x, "share"))
       ELSE Go(x, [op[x] EXCEPT !.at = "restoring"])
    /\ UNCHANGED <<log, exists, metadata, remote, base, past>>

Restore(x) ==
    /\ Doing(x, "restoring")
    /\ SetLink(Here(x), op[x].link)
    /\ Stop(x)
    /\ UNCHANGED <<log, exists, remote, base, past>>

\* The session need not be shared, nor on this machine; no copy is as good as a removed one.
Unshare(x) ==
    /\ Doing(x, "idle")
    /\ IF remote.exists THEN remote' = NoCopy /\ replaced' = TRUE ELSE UNCHANGED <<remote, replaced>>
    /\ Go(x, [op[x] EXCEPT !.at = "forgetting"])
    /\ UNCHANGED <<log, exists, metadata, base, forced, torn, faults>>

ForgetLink(x) ==
    /\ Doing(x, "forgetting")
    /\ IF exists[Here(x)] THEN SetLink(Here(x), NoLink) ELSE UNCHANGED metadata
    /\ Stop(x)
    /\ UNCHANGED <<log, exists, remote, base, past>>

-----------------------------------------------------------------------------
(* pull_session: metadata, the end of the transcript, the request, and the   *)
(* installation of what is missing.                                          *)

Pull(x) ==
    /\ Doing(x, "idle")
    /\ Go(x, [op[x] EXCEPT !.at = "measuring", !.link = link[Here(x)],
                           !.kind = IF exists[Here(x)] THEN "pull" ELSE "first"])
    /\ UNCHANGED <<log, exists, metadata, remote, base, past>>

Measure(x) ==
    /\ Doing(x, "measuring")
    /\ Go(x, [op[x] EXCEPT !.at = "asking", !.after = Len(log[Here(x)])])
    /\ UNCHANGED <<log, exists, metadata, remote, base, past>>

\* Entries the cloud has not acknowledged, or nothing new: only a report.
Ahead(x)   == op[x].kind = "pull" /\ op[x].after > op[x].link.synced
UpToDate(x) == op[x].kind = "pull" /\ Len(remote.log) <= op[x].after

PullAnswered(x) ==
    /\ Doing(x, "asking")
    /\ IF ~remote.exists \/ Ahead(x) \/ UpToDate(x) THEN Stop(x)
       ELSE Go(x, [op[x] EXCEPT !.at = "installing", !.log = remote.log,
                                !.title = IF op[x].kind = "first" THEN remote.title ELSE 0])
    /\ UNCHANGED <<log, exists, metadata, remote, base, past>>

\* The first copy: the metadata carries the link and the title that was last pushed;
\* a session that another client has installed meanwhile keeps its own.
Install(m, n, t) ==
    /\ title' = [title EXCEPT ![m] = t]
    /\ link' = [link EXCEPT ![m] = Linked(n)]
    /\ owned' = [owned EXCEPT ![m] = [title |-> t, link |-> Linked(n)]]

InstallMeta(x) ==
    /\ Doing(x, "installing")
    /\ op[x].kind = "first"
    /\ exists' = [exists EXCEPT ![Here(x)] = TRUE]
    /\ IF exists[Here(x)] THEN UNCHANGED metadata
       ELSE Install(Here(x), Len(op[x].log), op[x].title)
    /\ Go(x, [op[x] EXCEPT !.kind = "pull", !.title = 0])
    /\ UNCHANGED <<log, remote, base, past>>

AppendAnyway(x) ==
    /\ Doing(x, "installing")
    /\ op[x].kind = "pull"
    /\ log' = [log EXCEPT ![Here(x)] = @ \o Rest(op[x].log, op[x].after)]
    /\ Go(x, [op[x] EXCEPT !.at = "pulled"])
    /\ UNCHANGED <<exists, metadata, remote, base, past>>

\* The transcript must be as it was measured; else the pull is an error.
InstallEntries(x) ==
    /\ Doing(x, "installing")
    /\ op[x].kind = "pull"
    /\ IF Len(log[Here(x)]) = op[x].after \/ Rest(op[x].log, op[x].after) = <<>>
       THEN /\ log' = [log EXCEPT ![Here(x)] = @ \o Rest(op[x].log, op[x].after)]
            /\ Go(x, [op[x] EXCEPT !.at = "pulled"])
       ELSE Stop(x) /\ UNCHANGED log
    /\ UNCHANGED <<exists, metadata, remote, base, past>>

FinishPull(x) ==
    /\ Doing(x, "pulled")
    /\ SetLink(Here(x), Linked(Len(op[x].log)))
    /\ Stop(x)
    /\ UNCHANGED <<log, exists, remote, base, past>>

\* A request fails, or the process of the actor ends.
Die(x) ==
    /\ ~Doing(x, "idle")
    /\ forced + faults < MaxTrouble
    /\ faults' = faults + 1
    /\ Stop(x)
    /\ UNCHANGED <<log, exists, metadata, remote, base, forced, replaced, torn>>

-----------------------------------------------------------------------------
Sync(x) ==
    \/ \E kind \in {"push", "force"} : Push(x, kind)
    \/ ReadEntries(x) \/ PushArrives(x) \/ PushConflicts(x) \/ PushLost(x) \/ Acknowledge(x)
    \/ Share(x) \/ LinkFirst(x) \/ PushShared(x) \/ Restore(x)
    \/ Unshare(x) \/ ForgetLink(x)
    \/ Pull(x) \/ Measure(x) \/ PullAnswered(x)
    \/ InstallMeta(x) \/ InstallEntries(x) \/ FinishPull(x)
    \/ Die(x)

Next ==
    \/ \E m \in Machines : Rename(m) \/ Save(m) \/ Write(m)
    \/ \E x \in Actors : Sync(x)

Spec == Init /\ [][Next]_syncVars

-----------------------------------------------------------------------------
(* Properties.                                                               *)

\* Every entry of every copy follows what its author had before it: machines
\* never interleave what they wrote (push.rs:1, compare_and_append_entries).
NeverInterleaves ==
    \A s \in {log[m] : m \in Machines} \cup {remote.log} :
        \A i \in DOMAIN s : SubSeq(s, 1, i - 1) = base[s[i]]

\* The same, as far as the code keeps it: while the cloud copy is not replaced,
\* by a forced push or a new share, with one of the length that a machine
\* expects, and unless a run opens a session whose first pull has not installed
\* its entries yet.
AppendsNeverInterleave == ~replaced /\ ~torn => NeverInterleaves

\* A rename, an acknowledged sync or the title of a first pull is never undone by
\* a run that saves the metadata it opened before (Edit::Save).
OwnersKeepTheirFields ==
    \A m \in Machines : owned[m] = [title |-> title[m], link |-> link[m]]

\* Copies of a session grow as prefixes of each other unless forced, and each
\* of the two writers of the metadata keeps the other's fields.
CopiesAgree == AppendsNeverInterleave /\ OwnersKeepTheirFields
=============================================================================
