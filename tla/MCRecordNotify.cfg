CONSTANTS
    a = a
    t = t
    o = o
    s1 = s1
    s2 = s2
    c1 = c1
    c2 = c2
    none = none
    Records <- MCRecords
    Suffixes <- MCSuffixes
    Channels <- MCChannels
    NoChannel = none
    SuffixOf <- MCSuffixOf
    ChannelOf <- MCChannelOf
    MaxFailures = 2
SPECIFICATION Spec
INVARIANTS
    NoRecordMissed
CHECK_DEADLOCK FALSE
