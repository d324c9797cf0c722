SPECIFICATION MCSpec
CONSTANTS
    t1 = t1
    t2 = t2
    l1 = l1
    l2 = l2
    Tasks = {t1, t2}
    InitialConfigs <- MCConfigs
    MemberLists <- MCMemberLists
    Posts <- MCPosts
    Torn = Torn
    MaxUsers = 2
    MaxGroups = 1
    MaxDays = 2
    MaxChanges = 2
    MaxMessages = 2
    MaxFailures = 1
    MaxWebEvents = 4
    r1 = r1
    r2 = r2
    p1 = p1
    u = u
    v = v
    Replies = {r1, r2}
    Others = {p1}
    Identities = {u, v}
    Speaker = u
    MaxFaults = 1
    a = a
    b = b
    h1 = h1
    p = p
    x = x
    y = y
    z = z
    q = q
    k1 = k1
    Stations = {a, b, h1}
    Servers = {p}
    Native <- MCNative
    Prefix <- MCPrefix
    NoPrefix = NoPrefix
    OddNames <- MCOddNames
    Given = Given
    Listings = {l1, l2}
    Calls = {k1}
    Idle = Idle
    MaxListings = 2
    MaxLosses = 2
    one = one
    two = two
    Providers = {one, two}
    Urls = {u, v}
    CallIds = {x}
    RetryCount = 1
    MaxToolRounds = 1
    MaxSends = 3
    MaxEdits = 2
SYMMETRY Symmetry
INVARIANTS
    
    NoticesTell
    
    
    ListingComplete
    ListedToolRuns
    CallsAsConfigured
CHECK_DEADLOCK FALSE
