------------------------------ MODULE Settings ------------------------------
(***************************************************************************)
(* The env file and its copies in memory.  The dashboard and a terminal    *)
(* load it, merge the signed-in account's catalogue, and save it whole     *)
(* under a file lock and a revision check; people edit it by hand.         *)
(***************************************************************************)
EXTENDS Naturals, Sequences

CONSTANTS Starts,      \* env files and accounts the processes may start with
          Catalogues,  \* what an account that signs in is offered
          Extends,     \* pairs of provider names, the second "<first>-..."
          NewProfile,  \* the provider a page may add
          MaxOutside, MaxSaves, MaxLoads

VARIABLES file,      \* the env file: selection, level, profiles, bot, foreign lines
          account,   \* auth.json and models.cache.json
          config,    \* the configuration each process holds
          live,      \* the model selection each process runs on
          lock,      \* the holder of the sidecar lock
          job,       \* what each task is doing
          page,      \* what the browser was shown
          raced,     \* history: a hand edit fell into an open transaction
          outside, saves, loads   \* how much has happened

vars == <<file, account, config, live, lock, job, page, raced, outside, saves, loads>>

Tasks == {"page", "auth", "term"}
ProcessOf(t) == IF t = "term" THEN "term" ELSE "web"
Processes == {"web", "term"}
SignedOut == [in |-> FALSE, groups |-> <<>>, default |-> "", rank |-> <<>>]
NoBot == [app |-> "", secret |-> "", chat |-> ""]
Unconfigured == [provider |-> "", model |-> "", key |-> "", level |-> ""]

-----------------------------------------------------------------------------
(* Provider maps keep their order: sequences of profiles.                  *)

NamesOf(ps) == {ps[i].name : i \in DOMAIN ps}
Has(ps, n) == n \in NamesOf(ps)
Get(ps, n) == ps[CHOOSE i \in DOMAIN ps : ps[i].name = n]
Put(ps, p) == IF Has(ps, p.name)
                THEN [i \in DOMAIN ps |-> IF ps[i].name = p.name THEN p ELSE ps[i]]
                ELSE Append(ps, p)
Without(ps, ns) == LET Stays(p) == p.name \notin ns IN SelectSeq(ps, Stays)
Only(ps, ns) == LET Stays(p) == p.name \in ns IN SelectSeq(ps, Stays)
FirstName(ps) == IF ps = <<>> THEN "" ELSE ps[1].name
Lists(p, m) == \E i \in DOMAIN p.models : p.models[i] = m
HeadModel(p) == IF p.models = <<>> THEN "" ELSE p.models[1]

(* A profile an older client persisted: the cloud's address and its key.   *)
IsStale(p) == p.key = "issued"

-----------------------------------------------------------------------------
(* Which model a configuration stands for.                                 *)

Served(c, n) == c.cloud \cap {n} # {}
(* The account's pin if a group serves it, else the model of highest rank, *)
(* the earlier provider and the earlier model winning ties.                *)
Offers(c) == {ij \in (DOMAIN c.providers) \X (1 .. 2) :
                c.providers[ij[1]].name \in c.cloud /\ ij[2] \in DOMAIN c.providers[ij[1]].models}
OfferModel(c, ij) == c.providers[ij[1]].models[ij[2]]
Before(x, y) == x[1] < y[1] \/ (x[1] = y[1] /\ x[2] <= y[2])
Preferred(c) ==
    LET pinned == {ij \in Offers(c) : OfferModel(c, ij) = c.catalogue.default}
        Rank(ij) == c.catalogue.rank[OfferModel(c, ij)]
        best == {ij \in Offers(c) : \A o \in Offers(c) : Rank(ij) >= Rank(o)}
        from == IF pinned # {} THEN pinned ELSE best
        at == CHOOSE ij \in from : \A o \in from : Before(ij, o)
    IN IF from = {} THEN [provider |-> "", model |-> ""]
       ELSE [provider |-> c.providers[at[1]].name, model |-> OfferModel(c, at)]

ActiveSelection(c) ==
    IF c.pin # "" THEN [provider |-> c.selected, model |-> c.pin]
    ELSE IF (c.selected = "" \/ Served(c, c.selected)) /\ Preferred(c).model # ""
      THEN Preferred(c)
    ELSE [provider |-> c.selected,
          model |-> IF Has(c.providers, c.selected)
                      THEN HeadModel(Get(c.providers, c.selected)) ELSE ""]

CanBuild(c, n) == Has(c.providers, n)
Build(c, n, m) ==
    LET p == Get(c.providers, n) IN
    [provider |-> n, model |-> m, key |-> p.key,
     level |-> IF p.level # "" THEN p.level ELSE IF c.level # "" THEN c.level ELSE "std"]

Serves(c, n, m) == /\ m # "" /\ Has(c.providers, n)
                   /\ Get(c.providers, n).key # ""
                   /\ Served(c, n) => Lists(Get(c.providers, n), m)

(* Another provider with a key that lists the model.                       *)
Listing(c, m, exclude) ==
    LET at == {i \in DOMAIN c.providers : /\ c.providers[i].name # exclude
                                          /\ c.providers[i].key # ""
                                          /\ Lists(c.providers[i], m)}
    IN IF m = "" \/ at = {} THEN ""
       ELSE c.providers[CHOOSE i \in at : \A o \in at : i <= o].name

(* In error: a selection whose provider is gone takes the default.         *)
Switched(c, now) ==
    LET a == ActiveSelection(c) IN
    IF Serves(c, now.provider, now.model)
      THEN [Build(c, now.provider, now.model) EXCEPT !.level = now.level]
    ELSE IF CanBuild(c, a.provider) THEN Build(c, a.provider, a.model)
    ELSE Unconfigured

(* Kept, followed to the provider that lists the model now, or replaced.   *)
Reloaded(c, now) ==
    LET a == ActiveSelection(c)
        other == Listing(c, now.model, now.provider)
    IN IF Serves(c, now.provider, now.model)
         THEN [Build(c, now.provider, now.model) EXCEPT !.level = now.level]
       ELSE IF other # "" THEN [Build(c, other, now.model) EXCEPT !.level = now.level]
       ELSE IF CanBuild(c, a.provider) THEN Build(c, a.provider, a.model)
       ELSE Unconfigured

-----------------------------------------------------------------------------
(* Loading: the file's assignments, then the catalogue, then the cleanup   *)
(* of what an older client left in the file.                               *)

FromFile(f) ==
    [providers |-> f.profiles, cloud |-> {}, catalogue |-> SignedOut,
     selected |-> IF f.selected = "" THEN FirstName(f.profiles) ELSE f.selected,
     pin |-> "", level |-> f.level, bot |-> f.bot, rev |-> f]

(* A group replaces only what an older client persisted under its name.    *)
AddGroup(c, g) ==
    IF g.models = <<>> \/ (Has(c.providers, g.name) /\ ~IsStale(Get(c.providers, g.name)))
      THEN c
      ELSE [c EXCEPT !.providers = Put(@, [name |-> g.name, key |-> "issued",
                                           models |-> g.models, level |-> ""]),
                     !.cloud = @ \cup {g.name}]
WithCloud(c, a) ==
    LET Upto[n \in 0 .. Len(a.groups)] ==
          IF n = 0 THEN [c EXCEPT !.catalogue = a] ELSE AddGroup(Upto[n - 1], a.groups[n])
        d == Upto[Len(a.groups)]
        byok == /\ ~Served(d, d.selected) /\ Has(d.providers, d.selected)
                /\ Get(d.providers, d.selected).key # ""
    IN IF ~a.in THEN c
       ELSE IF byok \/ Preferred(d).model = "" THEN d
       ELSE [d EXCEPT !.selected = Preferred(d).provider]

(* The names in the file that the server owns, and what goes with them.    *)
StaleNames(c, f) == {n \in NamesOf(f.profiles) :
                       n \in c.cloud \/ (Has(c.providers, n) /\ IsStale(Get(c.providers, n)))}
UnderStale(c, f) == LET ns == StaleNames(c, f) IN
                    ns \cup {e[2] : e \in {x \in Extends : x[1] \in ns}}
Cleaned(now, c, f) == [now EXCEPT !.profiles = Without(@, UnderStale(c, f))]
Reconciled(c, f) == [c EXCEPT !.providers = Without(@, StaleNames(c, f) \ c.cloud)]
Settled(c) == IF Has(c.providers, c.selected) \/ c.providers = <<>> THEN c
              ELSE [c EXCEPT !.selected = FirstName(c.providers)]

NoFile == [selected |-> "", level |-> "", profiles |-> <<>>, bot |-> NoBot, notes |-> 0]
Idle == [stage |-> "idle", read |-> NoFile, next |-> FromFile(NoFile), what |-> "", blank |-> {}]

Opened(f, a) == Settled(Reconciled(WithCloud(FromFile(f), a), f))

Init == /\ \E s \in Starts :
              /\ account = s.account
              /\ file = Cleaned(s.file, WithCloud(FromFile(s.file), s.account), s.file)
              /\ config = [p \in Processes |-> [Opened(s.file, s.account) EXCEPT !.rev = file]]
        /\ live = [p \in Processes |-> Reloaded(config[p], Unconfigured)]
        /\ lock = "free"
        /\ job = [t \in Tasks |-> Idle]
        /\ page = [of |-> "none", providers |-> <<>>, selected |-> "", level |-> "", bot |-> NoBot]
        /\ raced = FALSE
        /\ outside = 0 /\ saves = 0 /\ loads = 0

(* In the dashboard the page handlers hold the configuration's write lock  *)
(* while they work; the handler of a sign-in only takes it to publish.     *)
ReadFile(t) ==
    /\ job[t].stage = "idle" /\ lock = "free"
    /\ loads < MaxLoads /\ loads' = loads + 1
    /\ lock' = t
    /\ job' = [job EXCEPT ![t].stage = "read", ![t].read = file]
    /\ UNCHANGED <<file, account, config, live, page, raced, outside, saves>>

(* The catalogue is applied, the file cleaned, and its bytes read again    *)
(* for the revision.  Only the sign-in handler publishes in a later step.  *)
Stamp(t) ==
    LET f == job[t].read
        fresh == [Opened(f, account) EXCEPT !.rev = file']
    IN /\ job[t].stage = "read"
       /\ file' = Cleaned(file, WithCloud(FromFile(f), account), f)
       /\ IF t = "auth" THEN /\ job' = [job EXCEPT ![t] = [Idle EXCEPT !.stage = "loaded", !.next = fresh]]
                             /\ UNCHANGED config
          ELSE /\ config' = [config EXCEPT ![ProcessOf(t)] = fresh]
               /\ job' = [job EXCEPT ![t] = IF t = "page" THEN Idle
                                            ELSE [Idle EXCEPT !.stage = "published", !.next = fresh]]
       /\ lock' = "free"
       /\ UNCHANGED <<account, live, page, raced, outside, saves, loads>>

Publish ==
    /\ job["auth"].stage = "loaded" /\ job["page"].stage = "idle"
    /\ config' = [config EXCEPT !["web"] = job["auth"].next]
    /\ job' = [job EXCEPT !["auth"].stage = "published"]
    /\ UNCHANGED <<file, account, live, lock, page, raced, outside, saves, loads>>

Reselect(t) ==
    /\ job[t].stage = "published"
    /\ live' = [live EXCEPT ![ProcessOf(t)] = Reloaded(job[t].next, @)]
    /\ job' = [job EXCEPT ![t] = Idle]
    /\ UNCHANGED <<file, account, config, lock, page, raced, outside, saves, loads>>

-----------------------------------------------------------------------------
(* Saving.                                                                 *)

(* In error: what the server owns is written too.                          *)
AllGroups(c) == [selected |-> c.selected, level |-> c.level,
                 profiles |-> c.providers, bot |-> c.bot]
(* The groups written: the cloud's profiles are never among them.          *)
Groups(c) == [selected |-> c.selected, level |-> c.level,
              profiles |-> Without(c.providers, c.cloud), bot |-> c.bot]
Written(f, c) == LET g == Groups(c) IN
                 [f EXCEPT !.selected = g.selected, !.level = g.level,
                           !.profiles = g.profiles, !.bot = g.bot]

(* In error: a blank secret clears the saved one.                          *)
SentKey(c, p) == p.key
KeptKey(c, p) == IF p.key # "" THEN p.key
                 ELSE IF Has(c.providers, p.name) THEN Get(c.providers, p.name).key ELSE ""

(* The Models page: its providers replace the custom ones.                 *)
ApplyModels(c, u) ==
    LET sent == Without(u.providers, c.cloud)
    IN [c EXCEPT !.providers = [i \in DOMAIN sent |-> [sent[i] EXCEPT !.key = KeptKey(c, sent[i])]]
                               \o Only(c.providers, c.cloud),
                 !.selected = u.selected, !.level = u.level, !.pin = u.pin]
ModelsAreValid(c, u) ==
    LET d == ApplyModels(c, u) IN
    /\ Has(d.providers, u.selected)
    /\ u.pin # "" => Lists(Get(d.providers, u.selected), u.pin)

(* The Feishu page: a blank secret keeps the one of the same application.  *)
ApplyBot(c, b) ==
    IF b.app = "" THEN [c EXCEPT !.bot = NoBot]
    ELSE LET same == c.bot.app \in {"", b.app} IN
         [c EXCEPT !.bot = [app |-> b.app,
                            secret |-> IF b.secret # "" THEN b.secret
                                       ELSE IF same THEN c.bot.secret ELSE "",
                            chat |-> IF same THEN b.chat ELSE ""]]
BotIsValid(c, b) == b.app # "" /\ c.bot.app \notin {"", b.app} => b.secret # ""

(* The level chosen in a terminal, and the override that would mask it.    *)
ApplyLevel(c, n, level) ==
    [c EXCEPT !.level = level,
              !.providers = [i \in DOMAIN @ |-> IF @[i].name = n /\ @[i].level # ""
                                                  THEN [@[i] EXCEPT !.level = level] ELSE @[i]]]

(* In error: the revision is not compared.                                 *)
IsAny(c) == TRUE
IsCurrent(c) == c.rev = file

Check(t, what, next, blank) ==
    /\ saves < MaxSaves
    /\ lock = "free" /\ IsCurrent(config[ProcessOf(t)])
    /\ lock' = t
    /\ job' = [job EXCEPT ![t] = [stage |-> "checked", read |-> NoFile, next |-> next,
                                  what |-> what, blank |-> blank]]
    /\ saves' = saves + 1
    /\ UNCHANGED <<file, account, config, live, page, raced, outside, loads>>

(* What the form may have become: as shown, one provider removed, given a  *)
(* new key or added, and any provider active; secrets left alone are blank.*)
Blanked(ps) == [i \in DOMAIN ps |-> [ps[i] EXCEPT !.key = ""]]
Forms == LET ps == Blanked(page.providers) IN
         {ps} \cup {Without(ps, {n}) : n \in NamesOf(ps)}
              \cup {[ps EXCEPT ![i].key = "new"] : i \in DOMAIN ps}
              \cup (IF Has(ps, NewProfile.name) THEN {} ELSE {Append(ps, NewProfile)})
BlankIn(ps) == {ps[i].name : i \in {j \in DOMAIN ps : ps[j].key = ""}}

CheckModels ==
    /\ page.of = "models" /\ job["page"].stage = "idle"
    /\ \E ps \in Forms : \E n \in NamesOf(ps) : \E pin \in {"", HeadModel(Get(ps, n))} :
         LET u == [providers |-> ps, selected |-> n, pin |-> pin, level |-> page.level] IN
         /\ ModelsAreValid(config["web"], u)
         /\ CanBuild(ApplyModels(config["web"], u), n)
         /\ Check("page", "models", ApplyModels(config["web"], u), BlankIn(ps))

CheckBot ==
    /\ page.of = "bot" /\ job["page"].stage = "idle"
    /\ \E b \in {NoBot, [page.bot EXCEPT !.secret = ""], [app |-> "y", secret |-> "s", chat |-> "c"]} :
         /\ BotIsValid(config["web"], b)
         /\ CanBuild(config["web"], ActiveSelection(config["web"]).provider)
         /\ Check("page", "bot", ApplyBot(config["web"], b),
                  IF b.secret = "" THEN {b.app} ELSE {})

(* A terminal has loaded the file afresh.                                  *)
CheckLevel ==
    /\ job["term"].stage \in {"idle", "published"}
    /\ Check("term", "level",
             ApplyLevel(config["term"], live["term"].provider, live["term"].level), {})

Commit(t) ==
    /\ job[t].stage = "checked"
    /\ file' = Written(file, job[t].next)
    /\ config' = [config EXCEPT ![ProcessOf(t)] = [job[t].next EXCEPT !.rev = file']]
    /\ live' = LET c == job[t].next
                   a == ActiveSelection(c)
               IN IF t = "term" THEN live ELSE [live EXCEPT !["web"] = Build(c, a.provider, a.model)]
    /\ lock' = "free"
    /\ job' = [job EXCEPT ![t] = Idle]
    /\ UNCHANGED <<account, page, raced, outside, saves, loads>>

-----------------------------------------------------------------------------
(* What people do.  A page and the level of a terminal matter to saves     *)
(* alone, so their changes end with the bound on these.                    *)

OpenPage(kind) ==
    /\ job["page"].stage = "idle" /\ saves < MaxSaves
    /\ LET c == config["web"] IN
       page' = [of |-> kind, providers |-> c.providers, selected |-> c.selected,
                level |-> c.level, bot |-> c.bot]
    /\ UNCHANGED <<file, account, config, live, lock, job, raced, outside, saves, loads>>

(* A configured model is chosen for the next message.                      *)
Choose ==
    /\ \E i \in DOMAIN config["web"].providers :
         LET p == config["web"].providers[i] IN
         /\ HeadModel(p) # ""
         /\ live' = [live EXCEPT !["web"] = Build(config["web"], p.name, HeadModel(p))]
    /\ UNCHANGED <<file, account, config, lock, job, page, raced, outside, saves, loads>>
CycleLevel ==
    /\ live["term"].model # "" /\ saves < MaxSaves
    /\ live' = [live EXCEPT !["term"].level = IF @ = "std" THEN "high" ELSE "std"]
    /\ UNCHANGED <<file, account, config, lock, job, page, raced, outside, saves, loads>>

(* No lock keeps an editor out.  An edit that a transaction overwrites     *)
(* whole, between its read and its write, is as good as none; one that     *)
(* falls between two reads of a transaction is half seen.                  *)
HandEdit ==
    /\ outside < MaxOutside
    /\ outside' = outside + 1
    /\ raced' = (raced \/ lock # "free")
    /\ \/ file' = [file EXCEPT !.notes = @ + 1]
       \/ \E i \in DOMAIN file.profiles : file' = [file EXCEPT !.profiles[i].key = "typed"]
    /\ UNCHANGED <<account, config, live, lock, job, page, saves, loads>>

SignIn == /\ outside < MaxOutside
          /\ outside' = outside + 1
          /\ account' \in Catalogues
          /\ UNCHANGED <<file, config, live, lock, job, page, raced, saves, loads>>
SignOut == /\ account.in
           /\ account' = SignedOut
           /\ UNCHANGED <<file, config, live, lock, job, page, raced, outside, saves, loads>>

Next == \/ \E t \in Tasks : ReadFile(t) \/ Stamp(t) \/ Reselect(t) \/ Commit(t)
        \/ Publish
        \/ CheckModels \/ CheckBot \/ CheckLevel
        \/ \E kind \in {"models", "bot"} : OpenPage(kind)
        \/ Choose \/ CycleLevel
        \/ HandEdit \/ SignIn \/ SignOut

SettingsSpec == Init /\ [][Next]_vars

-----------------------------------------------------------------------------
(* What a revision should say, and does not: that what its process would   *)
(* write back unchanged is what the file says.  The profiles were parsed   *)
(* from an earlier read than the one the revision is of: a hand edit may   *)
(* fall between the two, and the cleanup of the load itself deletes a      *)
(* profile of one's own whose keys start with the name of a stale one,     *)
(* which the process still holds.                                          *)
RevisionsTellTheTruth ==
    \A p \in Processes : config[p].rev = file =>
        /\ Groups(config[p]).profiles = file.profiles
        /\ config[p].bot = file.bot /\ config[p].level = file.level

Overrun == {e[2] : e \in Extends}
KeepsTheRest(what, blank, f, g) ==
    /\ \A i \in DOMAIN g.profiles : g.profiles[i].key # "issued"
    /\ what # "bot" => g.bot = f.bot
    /\ what = "bot" =>
         /\ g.level = f.level
         /\ g.bot.app = f.bot.app /\ g.bot.app \in blank => g.bot.secret = f.bot.secret
    /\ ~raced =>
         LET before == [i \in DOMAIN f.profiles |-> [f.profiles[i] EXCEPT !.level = ""]]
             kept == Only(g.profiles, NamesOf(f.profiles))
             after == [i \in DOMAIN kept |-> [kept[i] EXCEPT !.level = ""]]
         IN /\ g.notes = f.notes
            /\ what # "models" => NamesOf(g.profiles) \ NamesOf(f.profiles) \subseteq Overrun
            /\ what = "bot" => kept = f.profiles
            /\ what = "level" => after = before
            /\ what = "models" =>
                 \A i \in DOMAIN g.profiles :
                    g.profiles[i].name \in blank /\ Has(f.profiles, g.profiles[i].name) =>
                        g.profiles[i].key = Get(f.profiles, g.profiles[i].name).key

(* A save changes its own section of the file as the file is now: no page  *)
(* opened long ago, no other process and no hand edit between transactions *)
(* makes it lose anything else, a secret sent blank stays, and no key the  *)
(* server issued is ever written.  Two exceptions: once a hand edit fell   *)
(* into an open transaction, keys and lines of it may be lost; and a save  *)
(* brings back a profile that the cleanup of a load deleted for its name.  *)
SavesKeepTheRest ==
    [][\A t \in Tasks : job[t].stage = "checked" /\ job'[t].stage = "idle" =>
          KeepsTheRest(job[t].what, job[t].blank, file, file')]_vars

(* A reload never takes away the model somebody chose while some provider  *)
(* with a key lists it: it is kept, or followed to the provider that has   *)
(* it now.                                                                 *)
SelectionFollowsItsModel ==
    [][\A t \in Tasks : job[t].stage = "published" /\ job'[t].stage = "idle" =>
          LET was == live[ProcessOf(t)]
              new == live'[ProcessOf(t)]
              listed == {i \in DOMAIN job[t].next.providers :
                           /\ job[t].next.providers[i].key # ""
                           /\ Lists(job[t].next.providers[i], was.model)}
          IN was.model # "" /\ listed # {} => new.model = was.model /\ new.key # ""]_vars
=============================================================================
