SPECIFICATION Spec
CONSTANTS
    a = a
    b = b
    s1 = s1
    s2 = s2
    NoText = NoText
    Bodies = {a, b}
    Texts = {s1, s2}
    Faults = {"io", "torn", "clock", "read"}
    MaxContext = 2
    MaxNow = 1
SYMMETRY Symmetric
INVARIANTS
    NoContextLost
    CacheMirrorsMemory
