SPECIFICATION FairSpec
CONSTANTS
    BaseYear = 2050
    Ranks = {1, 2}
    AnyRank = 0
    Hostname <- MCHostname
    HostDirective = "%h"
    BadDirective = "%x"
    Commands <- LongCommands
    Fs <- MCFs
    Ignored = {".", "..", "bfi.f2"}
    LongNames <- MCLong
    FlowFileFormat <- MCFormat
    FLOW_FILE_ROTATION_INTERVAL = 2
    PATH_ARRAY_INIT_SIZE = 1
    PATH_ARRAY_GROWTH_FACTOR = 2
PROPERTY
    Termination
