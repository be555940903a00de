SPECIFICATION PrintSpec
CONSTANTS
    srcip = srcip
    first = first
    bytes = bytes
    pkts = pkts
    bps = bps
    prot = prot
    duration = duration
    direction = direction
    BadToken = BadToken
    None = None
    Ids = {srcip, first, bytes, pkts, bps, prot, duration, direction}
    Size <- MCSize
    Sortable = {srcip, bytes}
    NotAggregable = {bps, duration}
    Volume = {bytes, pkts}
    FastFields = {first, bytes, pkts}
    DefaultFields <- MCDefaults
    CommandLines <- MCOutputCommands
    DefaultStatSort <- MCStatSort
    DefaultStatLimit = 10
    AGGR_KEYS_MAX = 2
    OUTPUT_FIELDS_MAX = 3
    Tables <- MCTables
    SpecialToStr <- MCSpecial
    Type <- MCType
    NameLen <- MCNameLen
    FuncLen <- MCFuncLen
    DefaultDir <- MCDefaultDir
    ProtoNameLen <- MCProtoNameLen
    PROTECTIVE_PADDING = 4
INVARIANTS
    TypeOK
    FieldsConsistent
    NothingLost
    ColumnsExact
    MetaMeansNothingElse
    LayoutRegular
    ColumnsNamed
    CutOnlyWhereMeant
