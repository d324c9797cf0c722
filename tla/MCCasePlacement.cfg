SPECIFICATION MCSpec
CONSTANTS
    ch1 = ch1
    ch2 = ch2
    r1 = r1
    r2 = r2
    a = a
    b = b
    ChannelKeys = {ch1, ch2}
    StoredRecords = {r1, r2}
    m1 = m1
    m2 = m2
    m3 = m3
    Messages = {m1, m2, m3}
    Sent <- MCSent
    InputChannel <- MCChannelOf
    InputTime <- MCTimeOf
    id = id
    Ids = {id}
    NoId = NoId
    Earlier <- MCEarlier
    Names = {a, b}
    MaxCopies = 2
    MaxBatch = 3
    EventCase = EventCase
    Top = Top
    NoCase = NoCase
    NoChannelKey = NoChannelKey
SYMMETRY MCSymmetry
INVARIANTS
    MergeExact
    VerdictsSound
    SummariesCover
    LocatedOnce
CHECK_DEADLOCK FALSE
