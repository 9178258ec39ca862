SPECIFICATION Spec
CONSTANTS
    b1 = b1
    b2 = b2
    m1 = m1
    m2 = m2
    m3 = m3
    narrow = narrow
    wide = wide
    Nobody = Nobody
    Bookings <- TwoBookings
    Mechanics <- TwoMechanics
    Plans <- OneAtATime
    DefaultPlan = narrow
    Reach <- ReachAll
    WaveSize <- WavesOfOne
    Roles = {"customer"}
    Commands = {"cancel"}
    LateAccepts = TRUE
    Faults = {}
    MaxFaults = 0
SYMMETRY BothSymmetry
INVARIANTS
    OneJob
    OffersMatchBooking
PROPERTIES
    NeverReopened
CHECK_DEADLOCK FALSE
