SPECIFICATION Spec
CONSTANTS
    b1 = b1
    b2 = b2
    m1 = m1
    m2 = m2
    m3 = m3
    narrow = narrow
    wide = wide
    Nobody = Nobody
    Bookings <- TwoBookings
    Mechanics <- OneMechanic
    Plans <- OneAtATime
    DefaultPlan = narrow
    Reach <- ReachAll
    WaveSize <- WavesOfOne
    Roles = {"customer", "mechanic", "admin"}
    Commands <- Command
    LateAccepts = TRUE
    Faults = {"declined", "expired", "withdrawn", "restart"}
    MaxFaults = 1
SYMMETRY BookingSymmetry
INVARIANTS
    JobsCountedOnce
PROPERTIES
    Allocates
CHECK_DEADLOCK FALSE
