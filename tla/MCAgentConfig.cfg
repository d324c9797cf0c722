SPECIFICATION MCSpec
CONSTANTS
    home = home
    ann = ann
    ben = ben
    boss = boss
    u = u
    v = v
    w = w
    one = one
    two = two
    NoRole = NoRole
    Unset = Unset
    Nobody = Nobody
    Ego <- MCEgo
    Models <- MCModels
    Workloads <- MCWorkloads
    MaxFailures = 2
INVARIANTS
    RestartChangesNothing
    ModelInForce
    ChoicesKept
CHECK_DEADLOCK FALSE
