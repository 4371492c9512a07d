SPECIFICATION MCSpec
CONSTANTS
    whatsapp = whatsapp
    inApp = inApp
    e1 = e1
    e2 = e2
    w1 = w1
    w2 = w2
    f1 = f1
    f2 = f2
    w = w
    Deliveries <- MCDeliveries
    InApp <- MCInApp
    Mutable <- MCMutable
    Emitters <- MCEmitters
    Jobs <- MCJobs
    Workers <- MCWorkers
    MaxAttempts = 3
    MaxStalls = 1
INVARIANTS SentAgainOnlyByRetry ClosedMeansHandled EventReflectsDeliveries
PROPERTIES QuietEventuallyHandled
SYMMETRY MCSymmetry
CHECK_DEADLOCK FALSE
