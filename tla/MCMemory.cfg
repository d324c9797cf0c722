SPECIFICATION MCSpec
CONSTANTS
    a = a
    b = b
    r1 = r1
    r2 = r2
    r3 = r3
    r4 = r4
    both = both
    forced = forced
    plain = plain
    Keys = {a, b}
    Records = {r1, r2, r3, r4}
    Requests = {both, forced, plain}
    KeyOf <- MCKeyOf
    TimeOf <- MCTimeOf
    RecordsOf <- MCRecordsOf
    Forced <- MCForced
    Before <- MCBefore
    Day <- MCDay
    DayOf <- MCDayOf
    Own = {r3}
    Silent = {r4}
    Counts = {1, 2}
    Starts = {1, 4}
    anna = anna
    boss = boss
    people = people
    x = x
    y = y
    p = p
    q = q
    Torn = Torn
    MaxFailures = 1
    Agents = {anna}
    Roles = {boss}
    Individuals = {people}
    AgentOf <- MCAgentOf
    Texts = {x, y}
    Empty = x
    Tasks = {p, q}
    None = None
    TornFile = TornFile
    MaxRequests = 3
    MaxFaults = 1
SYMMETRY Symmetry
INVARIANTS
    FilesKept
    QueriesSeeWrites
    ContextRecovered
    SearchAccurate
    WritesKept
CHECK_DEADLOCK FALSE
