SPECIFICATION SignInSpec
CONSTANTS
    Parts = {"otp", "google", "phone"}
    r1 = r1
    r2 = r2
    k1 = k1
    k2 = k2
    a1 = a1
    a2 = a2
    a3 = a3
    p1 = p1
    p2 = p2
    NoKey = NoKey
    NoIp = NoIp
    None = None
    Keys <- TwoKeys
    Ips = {ip1}
    OtpRequests <- TwoRequests
    MaxAttempts = 2
    IpMax = 2
    MaxChallenges = 3
    Accounts = {a1, a2, a3}
    Subs = {g1}
    Phones = {p1, p2}
    Nonces = {n1, n2}
    GoogleRequests <- TwoRequests
    Registered <- OneHasPhone
    MaxTokens = 3
    Callers = {"c1", "launch"}
    LaunchCheck = "launch"
    PhoneFaults = 1
SYMMETRY Symmetry
INVARIANTS
    CodesLimited
    DoorsHold
    SignOutSticks
    NoFalseTheft
PROPERTIES
    MergesOnlyEmptyAccounts
CHECK_DEADLOCK FALSE
