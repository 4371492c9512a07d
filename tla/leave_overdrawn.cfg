SPECIFICATION MCSpec
CONSTANTS
    boss = boss
    nobody = nobody
    noClaim = noClaim
    c1 = c1
    c2 = c2
    k1 = k1
    x1 = x1
    x2 = x2
    r1 = r1
    r2 = r2
    h1 = h1
    h2 = h2
    noon = noon
    None = None
    Users <- MCUsers
    Nobody = nobody
    NoClaim = noClaim
    Claims <- MCClaims
    Calls <- MCCalls
    Requests <- MCRequests
    Requester <- MCRequester
    Accruals <- MCAccruals
    LeaveDays <- MCLeaveDays
    Prorated <- MCProrated
    Months = 2
    JoinMonth = 1
    Days = 2
    DayLength = 3
    Start = 0
    End = 2
    Width = 2
    NoTime = None
    NoAddress = None
    Bare = None
    Regularization <- MCRegularization
    Punches <- MCHandlers
    MaxStops = 1
    Date <- MCDate
    Request <- MCRequest
    Holiday <- MCHoliday
    Handlers <- MCHandlers
    MaxQuota = 1
    MaxPolicies = 0
INVARIANT NeverOverdrawn
SYMMETRY MCSymmetry
CHECK_DEADLOCK FALSE
