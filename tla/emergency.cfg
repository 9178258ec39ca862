SPECIFICATION AskedSpec
CONSTANTS
    Parts = {"emergency", "offgrid", "page", "tier"}
    i1 = i1
    o1 = o1
    c1 = c1
    c2 = c2
    r1 = r1
    r2 = r2
    e1 = e1
    w1 = w1
    w2 = w2
    NoIncident = NoIncident
    Owners = {o1}
    Incidents <- OneIncident
    Requests <- TwoRequests
    Owner <- SameOwner
    Contacts <- TwoContacts
    Sources = {"manual", "crash_model", "sms"}
    MaxBatches = 1
    MaxRounds = 5
    SlowSends = FALSE
    Faults = {"send", "request", "restart"}
    MaxFaults = 1
    Emergencies <- OneEmergency
    Types = {"medical"}
    Pages <- TwoTabs
    SosPage = w1
    MaxRetries = 1
    MaxAlerts = 1
    MaxMishaps = 1
    MaxEdits = 1
    SlowEdits = FALSE
    Followed = {f1, f2}
    Conns = {x1, x2}
    Taps = {t1}
    NotFollowing = NotFollowing
    NoConn = NoConn
    Last = 2
    MaxFed = 1
    MaxTurns = 2
    MaxBreaks = 1
    SwitchInFlight = FALSE
    FlapInRenewal = FALSE
    OfflineFailures = 3
    LimitedFailures = 1
INVARIANTS
    ScreenShowsClosed
    TextedOnce
    PageStaysFed
    DeviceKeepsItsWord
PROPERTIES
    NoClaimOnClosed
    FamilyIsTold
    EventuallyDealtWith
    ScreenCatchesUp
    TierFollowsNetwork
CHECK_DEADLOCK FALSE
