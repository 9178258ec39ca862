SPECIFICATION FairSpec
CONSTANTS
    b1 = b1
    b2 = b2
    m1 = m1
    m2 = m2
    m3 = m3
    narrow = narrow
    wide = wide
    Nobody = Nobody
    Bookings <- OneBooking
    Mechanics <- ThreeMechanics
    Plans <- NarrowOrWide
    DefaultPlan = narrow
    Reach <- ReachWider
    WaveSize <- WavesWider
    Roles = {"customer"}
    Commands = {"cancel"}
    LateAccepts = FALSE
    Faults = {}
    MaxFaults = 0
INVARIANTS
    OneWaveAtATime
    NoOrphanedSearch
PROPERTIES
    SearchMovesOn
CHECK_DEADLOCK FALSE
