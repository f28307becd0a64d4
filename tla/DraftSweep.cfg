SPECIFICATION DashboardSpec
CONSTANTS
    Sessions = {"s"}
    Requests = {"r"}
    Chats = {"c"}
    MaxCrashes = 1
PROPERTIES OnlyDraftsAreSwept
