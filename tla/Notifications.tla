---------------------------- MODULE Notifications ----------------------------
(***************************************************************************)
(* One notification event of apps/api (one eventKey): emitToUser creates   *)
(* the event with a delivery per channel and queues a BullMQ job per       *)
(* PENDING delivery; NotificationDeliveryProcessor runs processDelivery.   *)
(* Events share nothing but the workers, so one event stands for all.      *)
(*                                                                         *)
(* The queue gives at-least-once execution: a job whose run throws is run  *)
(* again up to MaxAttempts times, and a job whose process died ("stalled") *)
(* goes back to the queue up to MaxStalls times.                           *)
(***************************************************************************)
EXTENDS Naturals, FiniteSets

CONSTANTS
    Deliveries,   \* one per channel of the event
    InApp,        \* the deliveries on the IN_APP channel: sending is a no-op
    Mutable,      \* the deliveries whose channel a user may switch off
    Emitters,     \* executions of emitToUser with this eventKey
    Workers,      \* concurrent runs of the delivery processor
    Jobs,         \* job ids, handed out in order
    MaxAttempts,  \* the "attempts" option of deliveryQueue.add (3)
    MaxStalls     \* BullMQ's maxStalledCount; 0 in a system without faults

ASSUME ConstantsAssumption ==
    /\ Deliveries # {} /\ InApp \subseteq Deliveries /\ Mutable \subseteq Deliveries
    /\ Jobs \subseteq Nat /\ MaxAttempts \in Nat \ {0} /\ MaxStalls \in Nat

VARIABLES
    event,     \* NotificationEvent.status, ABSENT before the row exists
    delivery,  \* NotificationDelivery.status
    sends,     \* history: messages the runs of each job have handed to the provider
    emitter,   \* [pc, rows]: stage of an emitToUser and the rows left to queue
    job,       \* [state, delivery, attempts, stalls]
    worker,    \* [pc, job, next]: a run of processDelivery
    doubtful,  \* history: deliveries two runs of which have overlapped, or that a run
               \* has sent and then not marked
    raced      \* history: two runs have overlapped, or one has stopped after its mark

vars == <<event, delivery, sends, emitter, job, worker, doubtful, raced>>
history == <<doubtful, raced>>

EventStatus == {"ABSENT", "PENDING", "SENT", "FAILED"}
DeliveryStatus == {"ABSENT", "PENDING", "SENT", "FAILED", "SKIPPED"}
EmitterPc == {"start", "create", "list", "add", "end"}
WorkerPc == {"idle", "read", "pref", "skip", "send", "markSent", "markFailed",
             "refresh", "refreshThenFail", "write", "writeThenFail"}

JobRecord ==
    [state: {"free", "waiting", "active", "ended"}, delivery: SUBSET Deliveries,
     attempts: 0..MaxAttempts, stalls: 0..MaxStalls]

TypeOK ==
    /\ event \in EventStatus
    /\ delivery \in [Deliveries -> DeliveryStatus]
    /\ sends \in [Jobs -> Nat]
    /\ emitter \in [Emitters -> [pc: EmitterPc, rows: SUBSET Deliveries]]
    /\ job \in [Jobs -> JobRecord]
    /\ worker \in [Workers -> [pc: WorkerPc, job: SUBSET Jobs, next: EventStatus]]
    /\ doubtful \subseteq Deliveries /\ raced \in BOOLEAN

Init ==
    /\ event = "ABSENT"
    /\ delivery = [d \in Deliveries |-> "ABSENT"]
    /\ sends = [j \in Jobs |-> 0]
    /\ emitter = [e \in Emitters |-> [pc |-> "start", rows |-> {}]]
    /\ job = [j \in Jobs |-> [state |-> "free", delivery |-> {}, attempts |-> 0, stalls |-> 0]]
    /\ worker = [w \in Workers |-> [pc |-> "idle", job |-> {}, next |-> "ABSENT"]]
    /\ doubtful = {} /\ raced = FALSE

-----------------------------------------------------------------------------
\* createOrGetEvent, then enqueueEventDeliveries

FindEvent(e) ==
    /\ emitter[e].pc = "start"
    /\ emitter' = [emitter EXCEPT ![e].pc = IF event = "ABSENT" THEN "create" ELSE "list"]
    /\ UNCHANGED <<event, delivery, sends, job, worker, history>>

\* The event and its deliveries are inserted in one transaction; the unique
\* event key refuses the insert of an emitter that lost the race (P2002).
CreateEvent(e) ==
    /\ emitter[e].pc = "create"
    /\ \/ /\ event = "ABSENT"
          /\ event' = "PENDING"
          /\ delivery' = [d \in Deliveries |-> "PENDING"]
          /\ emitter' = [emitter EXCEPT ![e].pc = "list"]
       \/ /\ event # "ABSENT"
          /\ emitter' = [emitter EXCEPT ![e].pc = "end"]
          /\ UNCHANGED <<event, delivery>>
    /\ UNCHANGED <<sends, job, worker, history>>

ListPending(e) ==
    /\ emitter[e].pc = "list"
    /\ emitter' = [emitter EXCEPT ![e] =
                      [pc |-> "add", rows |-> {d \in Deliveries : delivery[d] = "PENDING"}]]
    /\ UNCHANGED <<event, delivery, sends, job, worker, history>>

FreeJobs == {j \in Jobs : job[j].state = "free"}
NextJob == {j \in FreeJobs : \A k \in FreeJobs : j <= k}

AddJob(e) ==
    /\ emitter[e].pc = "add"
    /\ \/ /\ emitter[e].rows = {}
          /\ emitter' = [emitter EXCEPT ![e].pc = "end"]
          /\ UNCHANGED job
       \/ \E d \in emitter[e].rows, j \in NextJob :
              /\ emitter' = [emitter EXCEPT ![e].rows = @ \ {d}]
              /\ job' = [job EXCEPT ![j] = [state |-> "waiting", delivery |-> {d},
                                            attempts |-> 0, stalls |-> 0]]
    /\ UNCHANGED <<event, delivery, sends, worker, history>>

\* Redis refuses the job, or the process stops, between two statements.
EmitterLost(e) ==
    /\ MaxStalls > 0
    /\ emitter[e].pc \in {"create", "list", "add"}
    /\ emitter' = [emitter EXCEPT ![e].pc = "end"]
    /\ UNCHANGED <<event, delivery, sends, job, worker, history>>

-----------------------------------------------------------------------------
\* A run of processDelivery

Quiet == \A w \in Workers : worker[w].pc = "idle"

\* The delivery of a run, as the set holding it (empty when idle).
DeliveryOf(w) == UNION {job[j].delivery : j \in worker[w].job}
Goto(w, pc) == worker' = [worker EXCEPT ![w].pc = pc]
SetStatus(w, s) ==
    delivery' = [d \in Deliveries |-> IF d \in DeliveryOf(w) THEN s ELSE delivery[d]]

EndJob(w) ==
    /\ job' = [j \in Jobs |-> IF j \in worker[w].job
                              THEN [job[j] EXCEPT !.state = "ended"] ELSE job[j]]
    /\ worker' = [worker EXCEPT ![w] = [pc |-> "idle", job |-> {}, next |-> "ABSENT"]]

TakeJob(w, j) ==
    /\ worker[w].pc = "idle"
    /\ job[j].state = "waiting"
    /\ job' = [job EXCEPT ![j].state = "active"]
    /\ worker' = [worker EXCEPT ![w].pc = "read", ![w].job = {j}]
    /\ doubtful' = doubtful \cup (job[j].delivery \cap UNION {DeliveryOf(v) : v \in Workers})
    /\ raced' = (raced \/ ~Quiet)
    /\ UNCHANGED <<event, delivery, sends, emitter>>

\* Mutant: the early return looks for SKIPPED only.
AlreadyHandledSkippedOnly == {"SKIPPED"}

\* Rows in these statuses are left alone.
AlreadyHandled == {"SENT", "SKIPPED"}

ReadDelivery(w) ==
    /\ worker[w].pc = "read"
    /\ \/ /\ \E d \in DeliveryOf(w) : delivery[d] \in AlreadyHandled
          /\ EndJob(w)
       \/ /\ \A d \in DeliveryOf(w) : delivery[d] \notin AlreadyHandled
          /\ Goto(w, "pref")
          /\ UNCHANGED job
    /\ UNCHANGED <<event, delivery, sends, emitter, history>>

\* The user's preferences may say either at this moment.
ReadPreference(w) ==
    /\ worker[w].pc = "pref"
    /\ \/ Goto(w, "send")
       \/ DeliveryOf(w) \subseteq Mutable /\ Goto(w, "skip")
    /\ UNCHANGED <<event, delivery, sends, emitter, job, history>>

\* Mutant: the event is not refreshed after a skip, and the job ends.
MarkSkippedOnly(w) ==
    /\ worker[w].pc = "skip"
    /\ SetStatus(w, "SKIPPED")
    /\ EndJob(w)
    /\ UNCHANGED <<event, sends, emitter, history>>

MarkSkipped(w) ==
    /\ worker[w].pc = "skip"
    /\ SetStatus(w, "SKIPPED")
    /\ Goto(w, "refresh")
    /\ UNCHANGED <<event, sends, emitter, job, history>>

\* The provider accepts the message, or the send fails (not configured, HTTP error).
SendMessage(w) ==
    /\ worker[w].pc = "send"
    /\ \/ /\ sends' = [j \in Jobs |-> IF j \in worker[w].job /\ DeliveryOf(w) \cap InApp = {}
                                    THEN sends[j] + 1 ELSE sends[j]]
          /\ Goto(w, "markSent")
       \/ /\ DeliveryOf(w) \cap InApp = {}
          /\ Goto(w, "markFailed")
          /\ UNCHANGED sends
    /\ UNCHANGED <<event, delivery, emitter, job, history>>

\* The update may fail too, and is inside the same try as the send.
MarkSent(w) ==
    /\ worker[w].pc = "markSent"
    /\ \/ SetStatus(w, "SENT") /\ Goto(w, "refresh") /\ UNCHANGED doubtful
       \/ /\ MaxStalls > 0 /\ Goto(w, "markFailed") /\ UNCHANGED delivery
          /\ doubtful' = doubtful \cup DeliveryOf(w)
    /\ UNCHANGED <<event, sends, emitter, job, raced>>

\* Mutant: a failed delivery is put back to PENDING for its retry.
MarkFailedReopens(w) ==
    /\ worker[w].pc = "markFailed"
    /\ SetStatus(w, "PENDING")
    /\ Goto(w, "refreshThenFail")
    /\ UNCHANGED <<event, sends, emitter, job, history>>

MarkFailed(w) ==
    /\ worker[w].pc = "markFailed"
    /\ SetStatus(w, "FAILED")
    /\ Goto(w, "refreshThenFail")
    /\ UNCHANGED <<event, sends, emitter, job, history>>

Pending == \E d \in Deliveries : delivery[d] = "PENDING"
Failed == \E d \in Deliveries : delivery[d] = "FAILED"

\* The event status computed from the delivery rows.
Aggregate == IF Pending THEN "PENDING" ELSE IF Failed THEN "FAILED" ELSE "SENT"

\* refreshEventStatus reads all deliveries ...
RefreshRead(w) ==
    /\ worker[w].pc \in {"refresh", "refreshThenFail"}
    /\ worker' = [worker EXCEPT ![w].pc = IF @ = "refresh" THEN "write" ELSE "writeThenFail",
                                ![w].next = Aggregate]
    /\ UNCHANGED <<event, delivery, sends, emitter, job, history>>

\* The run threw: BullMQ queues the job again until its attempts are spent.
Retry(w) ==
    /\ job' = [j \in Jobs |->
                  IF j \in worker[w].job
                  THEN [job[j] EXCEPT !.attempts = @ + 1,
                                      !.state = IF job[j].attempts + 1 < MaxAttempts
                                                THEN "waiting" ELSE "ended"]
                  ELSE job[j]]
    /\ worker' = [worker EXCEPT ![w] = [pc |-> "idle", job |-> {}, next |-> "ABSENT"]]

\* ... and writes the status it computed; then the run returns or throws.
RefreshWrite(w) ==
    /\ worker[w].pc \in {"write", "writeThenFail"}
    /\ event' = worker[w].next
    /\ IF worker[w].pc = "write" THEN EndJob(w) ELSE Retry(w)
    /\ UNCHANGED <<delivery, sends, emitter, history>>

Refreshing == {"refresh", "refreshThenFail", "write", "writeThenFail"}

\* The process dies in the middle of a run.
Stall(w) ==
    /\ worker[w].pc # "idle"
    /\ \A j \in worker[w].job : job[j].stalls < MaxStalls
    /\ job' = [j \in Jobs |->
                  IF j \in worker[w].job
                  THEN [job[j] EXCEPT !.stalls = @ + 1, !.state = "waiting"] ELSE job[j]]
    /\ worker' = [worker EXCEPT ![w] = [pc |-> "idle", job |-> {}, next |-> "ABSENT"]]
    /\ doubtful' = doubtful \cup IF worker[w].pc = "markSent" THEN DeliveryOf(w) ELSE {}
    /\ raced' = (raced \/ worker[w].pc \in Refreshing)
    /\ UNCHANGED <<event, delivery, sends, emitter>>

-----------------------------------------------------------------------------
Emit(e) == FindEvent(e) \/ CreateEvent(e) \/ ListPending(e) \/ AddJob(e)

Run(w) ==
    \/ ReadDelivery(w) \/ ReadPreference(w) \/ MarkSkipped(w) \/ SendMessage(w)
    \/ MarkSent(w) \/ MarkFailed(w) \/ RefreshRead(w) \/ RefreshWrite(w)

Process(w) == Run(w) \/ \E j \in Jobs : TakeJob(w, j)

Next ==
    \/ \E e \in Emitters : Emit(e) \/ EmitterLost(e)
    \/ \E w \in Workers : Process(w) \/ Stall(w)

Spec == Init /\ [][Next]_vars

\* A started emitToUser goes on, and a live worker keeps taking and running jobs.
FairSpec ==
    /\ Spec
    /\ \A e \in Emitters : WF_vars(Emit(e))
    /\ \A w \in Workers : WF_vars(Process(w))

-----------------------------------------------------------------------------
\* Properties

JobsFor(d) == {j \in Jobs : d \in job[j].delivery}

\* A delivery marked SENT was handed to its provider.
SentWasSent ==
    \A d \in Deliveries \ InApp : delivery[d] = "SENT" => \E j \in JobsFor(d) : sends[j] > 0

\* A job sends no more messages than it has been run.  Whatever emitters repeat
\* the event key, two messages of one delivery take two runs of it that overlap,
\* or one that sent it and could not say so.
SentAgainOnlyByRetry ==
    /\ \A j \in Jobs :
          sends[j] <= job[j].attempts + job[j].stalls
                        + IF job[j].state \in {"active", "ended"} THEN 1 ELSE 0
    /\ \A d \in Deliveries \ doubtful : \A j, k \in JobsFor(d) :
          sends[j] <= 1 /\ (sends[j] > 0 /\ sends[k] > 0 => j = k)

\* refreshEventStatus may write a status computed before other workers moved on,
\* but an event that left PENDING never leaves a delivery still to be sent behind.
ClosedMeansHandled ==
    event \in {"SENT", "FAILED"} => \A d \in Deliveries : delivery[d] # "PENDING"

\* A SENT or SKIPPED delivery keeps its status, unless two runs of it have
\* overlapped, or one sent it and could not say so.
HandledIsFinal ==
    [][\A d \in Deliveries \ doubtful' :
         delivery[d] \in AlreadyHandled => delivery'[d] = delivery[d]]_vars

\* When nobody is at work, the status of the event is that of its deliveries,
\* unless runs have overlapped or one has stopped between its mark and its refresh
\* (the run that follows returns early and refreshes nothing).
EventReflectsDeliveries ==
    Quiet /\ ~raced /\ event # "ABSENT" => event = Aggregate

\* One worker that never dies, and emitters that are not lost: every delivery
\* gets an outcome and the event leaves PENDING for good.
EventuallyHandled == <>[](event \in {"SENT", "FAILED"})
=============================================================================
