SPECIFICATION Spec
CONSTANTS
    Channels = {x, y}
    Direct = {d}
    MaxRuns = 2
SYMMETRY AnyChannel
INVARIANTS
    RunsAreAlone
    RegistryIsRight
    EnginesAreHeld
    ToolsShareTheManager
PROPERTIES
    ChannelsDoNotInterrupt
