SPECIFICATION MCSpec
CONSTANTS
    user = user
    lead = lead
    admin = admin
    engineering = engineering
    travel = travel
    regularization = regularization
    monday = monday
    c1 = c1
    c2 = c2
    c3 = c3
    Nobody = Nobody
    NoTarget = NoTarget
    Users <- MCUsers
    Teams <- MCTeams
    Days <- MCDays
    RoleOf <- MCRoleOf
    Requester <- MCRequester
    TypeOf <- MCTypeOf
    DayOf <- MCDayOf
    Targets <- MCBothTargets
    User <- MCUsers
    Team = {1}
    Call <- MCTwoCalls
    MainRole <- MCMainRole
    TaskReader <- MCTaskReaders
    ProjectReader <- MCProjectReaders
    Expense = {1, 2}
    Attachment = {1}
    Moment = {1, 2}
    Amount = {1, 2}
    Cap = {0, 1}
    None = 9
    Calls <- MCTwoCalls
INVARIANTS RecordsAgree DecidedByEligible EffectsMatchDecision  
PROPERTIES ImplementsRecord
CHECK_DEADLOCK FALSE
