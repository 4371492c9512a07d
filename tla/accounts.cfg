SPECIFICATION MCSpec
CONSTANTS
    ann = ann
    ben = ben
    mail = mail
    s1 = s1
    s2 = s2
    c1 = c1
    c2 = c2
    q1 = q1
    q2 = q2
    None = None
    Owner = ann
    User <- MCUser
    Contact <- MCContact
    ErasedPhone <- MCErasedPhone
    RoleSets <- MCRoleSets
    Session <- MCSession
    Call <- MCCall
    Request <- MCRequest
    MaxVersion = 3
    MaxTries = 2
    MaxFaults = 2
    Tabs <- MCTabs
    Requests <- MCRequests
    MaxLogins = 2
    MaxTokens = 2
INVARIANTS SessionsEnd ErasureHolds  BrowserFollowsSession
PROPERTY RequestsSettle
CHECK_DEADLOCK FALSE
