SPECIFICATION MCSpec
CONSTANTS
    ann = ann
    apollo = apollo
    r1 = r1
    r2 = r2
    Users <- MCUsers
    Projects <- MCProjects
    Requests <- MCRequests
    Hours <- MCHours
    Deltas <- MCDeltas
    Thresholds <- MCThresholds
    DailyCap = 4
    Budget = 5
    MaxEntries = 3
    MaxCosts = 1
    MaxExpenses = 1
    Faults = TRUE
    User <- MCUser
    Lead = "lead"
    Task <- MCTask
    Changer <- MCChanger
    From = 1
    DueDay = 1
    MaxDay = 2
INVARIANTS OverrunBounded AlertLadder  
PROPERTY LockedDateClosed
SYMMETRY MCSymmetry
CHECK_DEADLOCK FALSE
