SPECIFICATION MCSpec
CONSTANTS
    ann = ann
    t1 = t1
    t2 = t2
    p1 = p1
    p2 = p2
    c1 = c1
    c2 = c2
    x1 = x1
    x2 = x2
    d1 = d1
    d2 = d2
    n1 = n1
    n2 = n2
    o1 = o1
    e1 = e1
    e2 = e2
    None = None
    Nil = None
    Process <- MCProcess
    Question <- MCQuestion
    Blocked = {}
    Document <- MCDocument
    Plan <- MCPlans
    Conf <- MCConf
    Threshold = 65
    Role = "USER"
    Granted <- MCGranted
    Chats <- MCChats
    Editors <- MCEditors
    MaxEffects = 2
    user = user
    lead = lead
    admin = admin
    b1 = b1
    b2 = b2
    Keep = Keep
    User <- MCUsers
    Team <- MCTeams
    Task <- MCTasks
    Milestone <- MCMilestones
    Call <- MCCalls
    RoleOf <- MCRoleOf
    Matching <- MCMatching
    Creates <- MCCreates
    Updates <- MCUpdates
    Mentions <- MCMentions
    Queries <- MCQueries
    MaxSends = 2
    MaxHookFaults = 1
    Sha <- MCShas
    Ticket <- MCTickets
    NoKey <- MCNoKey
    Author <- MCAuthor
    Nobody <- MCNoKey
    Delivery <- MCDeliveries
    Contents <- MCContents
    HookCall <- MCHookCalls
    Phone <- MCPhones
    Stranger = stranger
    Topic <- MCTopics
    NoTopic = None
    Payload <- MCPayloads
    Batch <- Batches
    Handler <- MCHandlers
    MaxTries = 2
    MaxFaults = 1
INVARIANT CheckInRecorded
CHECK_DEADLOCK FALSE
