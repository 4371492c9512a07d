SPECIFICATION MCSpec
CONSTANTS
    todo = todo
    done = done
    noStatus = noStatus
    c1 = c1
    c2 = c2
    NoStatus = noStatus
    MaxKey = 2
    Statuses <- MCStatuses
    Done <- MCDone
    Allowed <- MCAllowed
    LastRun = 1
    Calls <- MCCalls
    MaxRows = 3
    Cards <- MCCards
    Columns <- MCStatuses
    First <- MCFirst
    Ways <- MCWays
    Moves <- MCCalls
    MaxWrites = 2
    None = noStatus
    Script <- DemoScript
    CreateMilestone <- DemoMilestone
    Runs <- MCCalls
    LastTaskKey = 4
INVARIANTS KeysDense GeneratedOnce  QuietBoardIsCurrent
PROPERTIES PathBreaksByStaleChange SeedConverges
SYMMETRY MCSymmetry
CHECK_DEADLOCK FALSE
