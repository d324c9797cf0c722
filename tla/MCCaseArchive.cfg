CONSTANTS
    role = role
    event = event
    ch1 = ch1
    ch2 = ch2
    c1 = c1
    c2 = c2
    r1 = r1
    e1 = e1
    e2 = e2
    t1 = t1
    NoChannel = NoChannel
    NoCase = NoCase
    NoSuffix = NoSuffix
    NoRecord = NoRecord
    Msg = Msg
    MsgTime = 1
    MaxBatch = 3
    MaxRequests = 2
    MaxFailures = 1
    Suffixes <- MCSuffixes
    EventSuffixes <- MCEvents
    Channels <- MCChannels
    RoleCases <- MCCases
    Records <- MCRecords
    SuffixOf <- MCSuffixOf
    ChannelOf <- MCChannelOf
    TimeOf <- MCTimeOf
    Placeholder <- MCPlaceholder
SYMMETRY MCSymmetry
SPECIFICATION Spec
INVARIANTS
    InOrderRecordsCovered
    CopiedOnce
    StateFilesAgree
PROPERTIES
    SuffixesIsolated
CHECK_DEADLOCK FALSE
