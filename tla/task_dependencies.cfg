SPECIFICATION MCSpec
CONSTANTS
    t1 = t1
    t2 = t2
    t3 = t3
    c1 = c1
    c2 = c2
    admin = admin
    lead = lead
    person = person
    team = team
    month = month
    p1 = p1
    m1 = m1
    s1 = s1
    s2 = s2
    w1 = w1
    w2 = w2
    None = None
    early = early
    late = late
    weekly = weekly
    p2 = p2
    Tasks <- MCTasks
    Calls <- MCCalls
    Cycle <- MCCycles
    Team <- MCTeams
    Lead <- MCLeads
    Admin <- MCAdmins
    Person <- MCPersons
    ReviewCalls <- MCCalls
    Nobody = None
    Project <- MCProjects
    Milestone <- MCMilestones
    Status <- MCStatuses
    Workflow <- MCWorkflows
    SuperAdmin <- MCAdmins
    TeamLead <- MCLeads
    ProjectCalls <- MCCalls
INVARIANT ReviewsStand
PROPERTIES CycleOnlyByOverlap CallsEnd ProjectInOrder TemplatesServed
