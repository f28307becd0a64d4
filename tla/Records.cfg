SPECIFICATION RecordsSpec
CONSTANTS
    Originals <- SomeOriginals
    Starts <- SomeStarts
    Catalogues <- SomeCatalogues
    NewProfile <- AddedProfile
    MaxLength = 5
    MaxSaid = 3
    MaxWrites = 2
    CoalesceAfter = 1
    Budget = 3
    MaxEvents = 5
    MaxChanges = 2
    MaxTrouble = 1
    Machines = {"a", "b"}
    Actors = {"a1", "b1"}
    Home <- TheHome
    First = "a"
    MaxOutside = 1
    MaxKeys = 2
    Sessions = {"s"}
    Requests = {"r"}
    Chats = {"c"}
    MaxCrashes = 1
    Calls = {"c", "d"}
    Terminals = {"t"}
    MaxLogins = 2
    MaxOutages = 0
INVARIANTS HistoriesStayWhole EventsArrive CopiesAgree SessionsAreAccountedFor KeysAreShared
PROPERTIES SummariesCarryHistory FilesAreStores SettingsAreKept
\* Histories end, files are written, logins run out.
CHECK_DEADLOCK FALSE
