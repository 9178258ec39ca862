SPECIFICATION Spec
CONSTANTS
    s1 = s1
    s2 = s2
    s3 = s3
    s4 = s4
    f1 = f1
    f2 = f2
    r1 = r1
    r2 = r2
    r3 = r3
    NoSession = NoSession
    NoFamily = NoFamily
    Sessions <- FourSessions
    Families <- TwoFamilies
    Requests <- TwoRequests
    MaxStreams = 4
    MaxWork = 1
    Kinds = {"signin", "refresh", "signout", "delete", "book", "stream"}
SYMMETRY Symmetry
INVARIANTS
    OneLivePerFamily
    OwnersEndIsFinal
PROPERTIES
    EndedStaysEnded
    NoOpenWorkScrubbed
CHECK_DEADLOCK FALSE
