SPECIFICATION EndingsSpec
CONSTANTS
    Calls = {"b1", "b2"}
    Asking = {"q1"}
    Askers = {"channel", "direct"}
    MaxTasks = 2
    MaxRuns = 1
PROPERTIES TurnsComeToAnEnd RunsComeToAnEnd
\* Calls return and runs are over.
CHECK_DEADLOCK FALSE
