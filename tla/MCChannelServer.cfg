SPECIFICATION MCSpec
CONSTANTS
    c1 = c1
    c2 = c2
    u1 = u1
    Clients = {c1, c2}
    Users = {u1}
    BindUsers <- MCBindUsers
    MaxConnects = 3
    MaxRequests = 2
    doc = doc
    img = img
    d1 = d1
    Absent = Absent
    Attachments = {doc, img}
    Size <- MCSize
    PageUploads = {img}
    Downloads = {d1}
    MaxChunks = 3
    MaxFaults = 1
INVARIANTS
    ToldIsBound
    NoneStranded
    UploadKept
    DownloadKept
CHECK_DEADLOCK FALSE
