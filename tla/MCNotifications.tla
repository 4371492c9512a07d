--------------------------- MODULE MCNotifications ---------------------------
(* Two channels: WhatsApp, which a user may switch off, and in-app.  Either  *)
(* one worker that never dies runs up to three attempts of every job (the    *)
(* quiet system), or two replicas share three jobs.                          *)
EXTENDS Notifications, TLC

CONSTANTS whatsapp, inApp, e1, e2, w1, w2, f1, f2, w

MCDeliveries == {whatsapp, inApp}
MCInApp == {inApp}
MCMutable == {whatsapp}
MCEmitters == {e1, e2, f1, f2}
MCWorkers == {w1, w2, w}

\* One job per emitter and delivery, so that no emitter waits for an id.
MCJobs == 1 .. 4

\* The quiet system has emitters and a worker of its own: the symmetry has
\* nothing to identify where liveness is at stake.
MCSymmetry == Permutations({w1, w2}) \cup Permutations({e1, e2})

VARIABLE quiet

\* Nothing is lost, and no process stops.
QuietNext ==
    /\ (\E f \in {f1, f2} : Emit(f)) \/ Process(w)
    /\ doubtful' = {}

\* Only one job is taken a second time, after a stall or a failure, and it sends
\* to the provider.
Replicas ==
    LET again == {j \in Jobs : job'[j].stalls > 0
                                  \/ (job'[j].attempts > 0 /\ job'[j].state # "waiting")}
    IN /\ \/ \E e \in {e1, e2} : Emit(e) \/ EmitterLost(e)
          \/ \E v \in {w1, w2} : Process(v) \/ Stall(v)
       /\ job'[4].state = "free"
       /\ Cardinality(again) <= 1 /\ (\A j \in again : job'[j].delivery = {whatsapp})
       /\ \A j \in Jobs : job'[j].stalls + job'[j].attempts <= 1

MCSpec ==
    /\ quiet \in BOOLEAN /\ Init
    /\ [][(IF quiet THEN QuietNext ELSE Replicas) /\ UNCHANGED quiet]_<<vars, quiet>>
    /\ \A f \in {f1, f2} : WF_vars(quiet /\ Emit(f))
    /\ WF_vars(quiet /\ Process(w))

\* In a quiet system every delivery gets an outcome, and the event leaves
\* PENDING for good.
QuietEventuallyHandled == quiet => EventuallyHandled
=============================================================================
