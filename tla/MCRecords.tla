----------------------------- MODULE MCRecords -----------------------------
(* What is kept, for TLC: histories and their summaries, the transcript     *)
(* file, the record of a run, the copies of a session, the sessions of the  *)
(* dashboard, the settings and the cloud account.  They share no state, so  *)
(* a behaviour is about one of them, its part; the rest stay at their       *)
(* initial states, in which every property below holds.                     *)
EXTENDS CloudSync, Dashboard, CloudAccount, RunEvents

CONSTANTS
    Originals,                      \* transcripts a former release left
    Starts, Catalogues, NewProfile, \* settings, what the cloud serves, a profile added by hand
    MaxLength, MaxSaid, MaxWrites, MaxOutside  \* bounds

VARIABLES
    part,
    msgs,
    context, memory, phase, compaction, cancelled, said,
    file, contents, original, backup, lock, at, known, batch, kept, writes, deaths,
    env, account, config, live, envLock, change, page, raced, outside, saves, loads

-----------------------------------------------------------------------------
(* The components.                                                          *)

Histories == INSTANCE ConversationCases WITH c <- "c", d <- "d", Keep <- 4, Recent <- 2
Summaries == INSTANCE SummaryChain WITH stage <- phase, job <- compaction, MaxRequests <- 2, MaxGenerations <- 3
Files     == INSTANCE TranscriptFile WITH Writers <- {"p", "q"}, Window <- 2, MaxDeaths <- 1
Pages     == INSTANCE Settings WITH
                file <- env, lock <- envLock, job <- change,
                Extends <- {<<"tier", "tier-mine">>}, MaxSaves <- 1, MaxLoads <- 1

Parts == {"histories", "summaries", "files", "events", "copies", "sessions", "settings", "accounts"}

\* Either machine has one client of the session.
TheHome == [x \in {"a1", "b1"} |-> IF x = "a1" THEN "a" ELSE "b"]

\* The transcripts and settings to begin with are written with the components' own
\* operators.
Former == INSTANCE TranscriptFile WITH
              Originals <- {}, Writers <- {}, Window <- 2, MaxWrites <- 0, MaxDeaths <- 0
Fresh  == INSTANCE Settings WITH
              file <- env, lock <- envLock, job <- change,
              Starts <- {}, Catalogues <- {}, NewProfile <- {},
              Extends <- {}, MaxSaves <- 0, MaxLoads <- 0

\* Transcripts of the former release, one entry to a line: none, two entries,
\* a compaction among them, and one that a later release went on with, from
\* one again, and was cut short.
OldEntry(n) == [seq |-> n, item |-> Former!Say("old")]
OldCompact(n, from) == [seq |-> n, item |-> [kind |-> "compact", id |-> "old", from |-> from, messages |-> <<>>]]
OldLine(e)  == <<Former!Object(e), Former!Line>>
SomeOriginals ==
    {<<>>,
     OldLine(OldEntry(1)) \o OldLine(OldEntry(2)),
     OldLine(OldEntry(1)) \o OldLine(OldEntry(2)) \o OldLine(OldCompact(3, 2)) \o OldLine(OldEntry(4)),
     OldLine(OldEntry(1)) \o Former!BatchLine(<<OldEntry(1), OldEntry(2)>>) \o <<Former!Open, Former!Entry(OldEntry(3))>>}

\* A signed-in account whose file holds a key of the catalogue's name and one of
\* the user's own, which the cleanup of the first may take along for its name;
\* meanwhile the catalogue moves its models.
Profile(name, key, model, level) == [name |-> name, key |-> key, models |-> <<model>>, level |-> level]
Rank  == [m |-> 1, n |-> 2]
Base  == [in |-> TRUE, groups |-> <<[name |-> "tier", models |-> <<"m">>]>>, default |-> "", rank |-> Rank]
Moved == [in |-> TRUE, default |-> "", rank |-> Rank,
          groups |-> <<[name |-> "tier", models |-> <<"n">>], [name |-> "pro", models |-> <<"m">>]>>]
SomeStarts ==
    {[account |-> Base,
      file |-> [selected |-> "tier", level |-> "high", notes |-> 0, bot |-> Fresh!NoBot,
                profiles |-> <<Profile("tier", "issued", "m", ""), Profile(own, "mine", "n", "std")>>]] :
        own \in {"own", "tier-mine"}}
SomeCatalogues == {Moved}
AddedProfile   == Profile("new", "new", "m", "")

-----------------------------------------------------------------------------
(* One part at a time.                                                      *)

summaryVars == <<context, memory, phase, compaction, cancelled, said>>
fileVars    == <<file, contents, original, backup, lock, at, known, batch, kept, writes, deaths>>
settingVars == <<env, account, config, live, envLock, change, page, raced, outside, saves, loads>>
vars == <<part, msgs, summaryVars, fileVars, eventVars, syncVars, dashboardVars, settingVars, accountVars>>

Is(p)   == part = p
Only(p) ==
    /\ UNCHANGED part
    /\ IF p = "histories" THEN TRUE ELSE UNCHANGED msgs
    /\ IF p = "summaries" THEN TRUE ELSE UNCHANGED summaryVars
    /\ IF p = "files" THEN TRUE ELSE UNCHANGED fileVars
    /\ IF p = "events" THEN TRUE ELSE UNCHANGED eventVars
    /\ IF p = "copies" THEN TRUE ELSE UNCHANGED syncVars
    /\ IF p = "sessions" THEN TRUE ELSE UNCHANGED dashboardVars
    /\ IF p = "settings" THEN TRUE ELSE UNCHANGED settingVars
    /\ IF p = "accounts" THEN TRUE ELSE UNCHANGED accountVars
Unless(p, start) == IF Is(p) THEN TRUE ELSE start

RecordsInit ==
    /\ part \in Parts
    /\ Unless("files", original = <<>>)
    /\ Unless("sessions", meta = [s \in Sessions |-> "none"])
    /\ Histories!Init /\ Summaries!ChainInit /\ Files!FileInit /\ EventsInit
    /\ Init /\ DashboardInit /\ Pages!Init /\ AccountInit
    /\ Unless("settings", env.profiles # <<>>)

RecordsNext ==
    \/ Is("histories") /\ Histories!Next /\ Only("histories")
    \/ Is("summaries") /\ Summaries!ChainNext /\ Only("summaries")
    \/ Is("files") /\ Files!FileNext /\ Only("files")
    \/ Is("events") /\ EventsNext /\ Only("events")
    \/ Is("copies") /\ Next /\ Only("copies")
    \/ Is("sessions") /\ DashboardNext /\ Only("sessions")
    \/ Is("settings") /\ Pages!Next /\ Only("settings")
    \/ Is("accounts") /\ AccountNext /\ Only("accounts")

RecordsSpec == RecordsInit /\ [][RecordsNext]_vars

-----------------------------------------------------------------------------
(* What each component promises; the others are stated in the components.   *)

\* Repairs, cuts and prunes of a history keep a call with its result, and
\* drop nothing else that was said (sanitize_tool_pairs, plan_core, collect).
HistoriesStayWhole ==
    Is("histories") =>
        Histories!RepairsAreRight /\ Histories!CutsKeepExchanges /\ Histories!PrunesKeepExchanges

\* A summary is given old history once, and a compaction forgets only what it
\* is told to (compaction/controller.rs, summarizer).
SummariesCarryHistory ==
    [](Is("summaries") => Summaries!OldHistoryIsGivenOnce) /\ Summaries!CompactionsForgetNothing

\* Whatever process dies, the transcript file implements TranscriptStore, and
\* the readers that start from its end agree with the one that reads it all
\* (storage/fs/storage.rs, migrate.rs).
FilesAreStores == [](Is("files") => Files!ReadersAgree) /\ Files!IsAStore

\* A save keeps whatever it was not about, but for what was edited while a
\* transaction was open or deleted by a load, and a reload keeps the model that
\* was chosen (conf/update.rs, conf/settings.rs, models/selection.rs).
SettingsAreKept == Pages!SavesKeepTheRest /\ Pages!SelectionFollowsItsModel
=============================================================================
