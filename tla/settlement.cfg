SPECIFICATION RecordsSpec
CONSTANTS
    Parts = {"settlement", "intake", "reviews", "audit", "contacts"}
    b1 = b1
    p1 = p1
    p2 = p2
    p3 = p3
    v1 = v1
    v2 = v2
    v3 = v3
    v4 = v4
    v5 = v5
    v6 = v6
    w1 = w1
    w2 = w2
    w3 = w3
    NoBooking = NoBooking
    Bookings <- OneBooking
    Payments <- ThreePayments
    Methods = {"direct", "checkout"}
    MaxFaults = 1
    Users = {u1, u2}
    Calls = {l1, l2}
    BookingKeys = {k1, k2, k3}
    NoBookingKey = NoBookingKey
    MaxDrafts = 2
    Reviewers <- SixReviewers
    BookingOf <- BookingRated
    MechanicOf <- WorkRated
    Workers <- ThreeWorkers
    Arrival <- HowTheyCame
    MaxStars = 2
    Entries = 3
    MaxClock = 4
    MaxStamp = 4
    MaxChanges = 2
    ClockSteps = FALSE
    Rows = {x1, x2, x3}
    Numbers = {n1, n2}
    Codes = {k1, k2}
    Chats = {h1}
    NoChat = NoChat
    NoRow = NoRow
    Adds = {d1, d2}
    Invites = {e1, e2}
    Starts = {s1, s2}
    MaxContacts = 1
INVARIANTS
    LedgerIsTrue
    AckedIsAccountedFor
    OneBookingPerDraft
    RatingReproducible
    VerifyTellsTruth
    ContactsHold
PROPERTIES
    CaptureClosesInvoice
CHECK_DEADLOCK FALSE
