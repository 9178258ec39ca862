SPECIFICATION RoadSpec
CONSTANTS
    Parts = {"record", "scanner", "report"}
    x1 = x1
    x2 = x2
    x3 = x3
    d1 = d1
    d2 = d2
    i1 = i1
    i2 = i2
    r1 = r1
    r2 = r2
    o1 = o1
    o2 = o2
    here = here
    c1 = c1
    c2 = c2
    k1 = k1
    k2 = k2
    g1 = g1
    g2 = g2
    g3 = g3
    NoSighting = NoSighting
    NoDevice = NoDevice
    NoIncident = NoIncident
    Sightings = {x1, x2, x3}
    Reports = {x3}
    Severe = {x1, x2}
    Spot <- OneSpot
    Devices = {d1, d2}
    Incidents = {i1, i2}
    Batches = {r1, r2}
    Overlap = FALSE
    Budget = 1
    Officers = {o1, o2}
    Streams = {c1, c2}
    NoStream = NoStream
    Passes = {k1, k2}
    MaxPicks = 1
    MaxHides = 1
    LateImage = FALSE
    Drafts = {g1, g2, g3}
    NoDraft = NoDraft
SYMMETRY Symmetry
INVARIANTS
    OneSignalPerSighting
    ScanFollowsSource
    SentMeansFiled
PROPERTIES
    RoadRecordStands
CHECK_DEADLOCK FALSE
