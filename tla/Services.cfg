SPECIFICATION ServicesSpec
CONSTANTS
    Messages = {"m1", "m2"}
    Devices = {"a", "b"}
    DueRuns = {"due"}
    Targets = {"s", "t"}
    Interval = 1
    Timeout = 1
    Term = 4
    MaxErrors = 3
    MaxConnections = 3
    MaxFaults = 2
PROPERTIES WorkComesToAnEnd ModelCallsComeToAnEnd MessagesComeToAnEnd
\* Calls end, work is reported, messages are taken.
CHECK_DEADLOCK FALSE
