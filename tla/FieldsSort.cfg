SPECIFICATION Spec
CONSTANTS
    srcip = srcip
    first = first
    bytes = bytes
    pkts = pkts
    bps = bps
    prot = prot
    duration = duration
    direction = direction
    BadToken = BadToken
    None = None
    Ids = {srcip, first, bytes, pkts, bps, prot, duration, direction}
    Size <- MCSize
    Sortable = {srcip, bytes}
    NotAggregable = {bps, duration}
    Volume = {bytes, pkts}
    FastFields = {first, bytes, pkts}
    DefaultFields <- MCDefaults
    CommandLines <- MCCommandLines
    DefaultStatSort <- MCStatSort
    DefaultStatLimit = 10
    AGGR_KEYS_MAX = 2
    OUTPUT_FIELDS_MAX = 3
INVARIANT
    SortModeHasKey
