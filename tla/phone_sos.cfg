SPECIFICATION OfflineSpec
CONSTANTS
    Parts = {"sos", "queue", "sms"}
    r1 = r1
    r2 = r2
    u1 = u1
    u2 = u2
    j1 = j1
    j2 = j2
    q1 = q1
    q2 = q2
    q3 = q3
    t1 = t1
    t2 = t2
    NoUser = NoUser
    Refs <- TwoSos
    Users <- TwoUsers
    Jobs <- TwoJobs
    MaxSwitches = 1
    MaxFaults = 1
    SwitchInFlight = FALSE
    Ops <- ThreeOps
    Persons = {"p1", "p2"}
    NoPerson = "nobody"
    OwnerOf <- WhoQueues
    MaxSignIns = 3
    MaxLost = 2
    JoinInFlight = FALSE
    Texts <- TwoTexts
    MaxRequests = 2
    MaxVersion = 2
    MaxCuts = 1
INVARIANTS
    QueueHolds
    ReplayedOnce
    TextsHold
SYMMETRY Symmetry
CHECK_DEADLOCK FALSE
