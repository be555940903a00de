SPECIFICATION MCSelectionSpec
CONSTANTS
    BaseYear = 2050
    Nows <- MCNows
    Options <- MCOptions
    ZoneOffset = 5405
    Unset = Unset
    None = None
    BadSpec = BadSpec
    FLOW_FILE_ROTATION_INTERVAL = 8
    MaxIntervals = 4
    Ranks = {1, 2}
    AnyRank = 0
    Hostname <- MCHostname
    HostDirective = "%h"
    BadDirective = "%x"
    Commands <- MCPathCommands
    Fs <- MCFilesOf
    Ignored = {".", "..", "bfi.f2"}
    LongNames <- MCLongNames
    FlowFileFormat <- MCFlowFile
    PATH_ARRAY_INIT_SIZE = 1
    PATH_ARRAY_GROWTH_FACTOR = 2
INVARIANTS
    TypeOK
    TimeOptionsMeant
    DurationExact
    FilesExact
    TimeSelectsFiles
PROPERTIES
    SelectionEnds
