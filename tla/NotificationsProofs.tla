------------------------- MODULE NotificationsProofs -------------------------
(***************************************************************************)
(* Theorems about the messages that go out: about Notifications, for any   *)
(* number of emitters, deliveries, workers and jobs, any retry limit and   *)
(* any number of stalls; and about those that come in, by the WhatsApp     *)
(* webhook, for any messages and requests.                                 *)
(*                                                                         *)
(* ClosedMeansHandled is not inductive: a worker may hold a status it      *)
(* computed long ago.  What saves it is that PENDING is only ever written  *)
(* when the event is created (Existing: nobody runs before that), so a     *)
(* computed SENT or FAILED stays true of the deliveries (Computed).        *)
(***************************************************************************)
EXTENDS Notifications, WhatsApp, FiniteSetTheorems, SequenceTheorems, TLAPS

\* A job in a worker's hands is active, and in nobody else's.
Holding ==
    /\ \A w \in Workers : \A j \in worker[w].job : job[j].state = "active"
    /\ \A w, v \in Workers : \A j \in worker[w].job : j \in worker[v].job => v = w

\* A job that is waiting or running has an attempt left.
Entitled ==
    \A j \in Jobs : job[j].state \in {"waiting", "active"} => job[j].attempts < MaxAttempts

\* Nothing is queued or run before the event exists.
Existing ==
    /\ \A e \in Emitters : emitter[e].pc \in {"list", "add"} => event # "ABSENT"
    /\ \A j \in Jobs : job[j].state # "free" => event # "ABSENT"
    /\ \A w \in Workers : worker[w].pc # "idle" => event # "ABSENT"

\* The status a worker is about to write is still justified by the deliveries.
Computed ==
    \A w \in Workers :
        worker[w].pc \in {"write", "writeThenFail"} =>
            /\ worker[w].next # "ABSENT"
            /\ worker[w].next # "PENDING" => \A d \in Deliveries : delivery[d] # "PENDING"

HistoryType == doubtful \subseteq Deliveries /\ raced \in BOOLEAN

\* The type invariant with what it needs to be inductive.
TInv == TypeOK /\ Holding /\ Entitled

USE DEF EventStatus, DeliveryStatus, EmitterPc, WorkerPc

-----------------------------------------------------------------------------
\* The initial states satisfy the type invariant.
LEMMA InitTInv == Init => TInv
<1> SUFFICES ASSUME Init PROVE TInv
  OBVIOUS
<1>1. job \in [Jobs -> JobRecord]
  BY ConstantsAssumption DEF Init, JobRecord
<1>2. TypeOK
  BY <1>1 DEF Init, TypeOK
<1>3. Holding /\ Entitled
  BY DEF Init, Holding, Entitled
<1> QED BY <1>2, <1>3 DEF TInv

\* A step of an emitter keeps the type invariant.
LEMMA EmitTInv ==
  ASSUME TInv, NEW e \in Emitters, Emit(e) \/ EmitterLost(e)
  PROVE  TInv'
<1>1. CASE FindEvent(e)
  BY <1>1 DEF FindEvent, history, TInv, TypeOK, JobRecord, Holding, Entitled
<1>2. CASE CreateEvent(e)
  BY <1>2 DEF CreateEvent, history, TInv, TypeOK, JobRecord, Holding, Entitled
<1>3. CASE ListPending(e)
  BY <1>3 DEF ListPending, history, TInv, TypeOK, JobRecord, Holding, Entitled
<1>4. CASE AddJob(e)
  <2>1. CASE emitter[e].rows = {} /\ emitter' = [emitter EXCEPT ![e].pc = "end"] /\ UNCHANGED job
    BY <1>4, <2>1 DEF AddJob, history, TInv, TypeOK, JobRecord, Holding, Entitled
  <2>2. ASSUME NEW d \in emitter[e].rows, NEW j \in NextJob,
               emitter' = [emitter EXCEPT ![e].rows = @ \ {d}],
               job' = [job EXCEPT ![j] = [state |-> "waiting", delivery |-> {d},
                                          attempts |-> 0, stalls |-> 0]]
        PROVE  TInv'
    <3>1. /\ j \in Jobs /\ job[j].state = "free" /\ d \in Deliveries
          /\ UNCHANGED <<event, delivery, sends, worker, history>>
      BY <1>4, <2>2 DEF AddJob, NextJob, FreeJobs, TInv, TypeOK, JobRecord
    <3>2. [state |-> "waiting", delivery |-> {d}, attempts |-> 0, stalls |-> 0]
             \in JobRecord
      BY <3>1, ConstantsAssumption DEF JobRecord
    <3>3. TypeOK'
      BY <2>2, <3>1, <3>2 DEF history, TInv, TypeOK, JobRecord
    <3>4. Holding' /\ Entitled'
      BY <2>2, <3>1, ConstantsAssumption DEF TInv, TypeOK, JobRecord, Holding, Entitled
    <3> QED BY <3>3, <3>4 DEF TInv
  <2> QED BY <1>4, <2>1, <2>2 DEF AddJob
<1>5. CASE EmitterLost(e)
  BY <1>5 DEF EmitterLost, history, TInv, TypeOK, JobRecord, Holding, Entitled
<1> QED BY <1>1, <1>2, <1>3, <1>4, <1>5 DEF Emit

\* Counting a failed attempt, or a stall, keeps a job record well typed.
LEMMA CountedAttempt ==
  ASSUME NEW r \in JobRecord, r.attempts < MaxAttempts
  PROVE  [r EXCEPT !.attempts = r.attempts + 1,
                   !.state = IF r.attempts + 1 < MaxAttempts THEN "waiting" ELSE "ended"]
            \in JobRecord
<1>1. r.attempts + 1 \in 0..MaxAttempts
  BY ConstantsAssumption DEF JobRecord
<1> QED BY <1>1 DEF JobRecord

LEMMA CountedStall ==
  ASSUME NEW r \in JobRecord, r.stalls < MaxStalls
  PROVE  [r EXCEPT !.stalls = r.stalls + 1, !.state = "waiting"] \in JobRecord
<1>1. r.stalls + 1 \in 0..MaxStalls
  BY ConstantsAssumption DEF JobRecord
<1> QED BY <1>1 DEF JobRecord

\* What the history variables record are deliveries, and whether runs raced.
LEMMA HistoryKeeps ==
  ASSUME TInv, NEW w \in Workers, Process(w) \/ Stall(w)
  PROVE  HistoryType'
<1>1. DeliveryOf(w) \subseteq Deliveries
  BY DEF DeliveryOf, TInv, TypeOK, JobRecord
<1>2. doubtful' \subseteq Deliveries
  <2>1. ASSUME NEW j \in Jobs, TakeJob(w, j) PROVE doubtful' \subseteq Deliveries
    BY <2>1 DEF TakeJob, TInv, TypeOK, JobRecord
  <2>2. CASE MarkSent(w) \/ Stall(w)
    BY <1>1, <2>2 DEF MarkSent, Stall, TInv, TypeOK
  <2>3. CASE Run(w) /\ ~MarkSent(w)
    BY <2>3 DEF Run, ReadDelivery, ReadPreference, MarkSkipped, SendMessage, MarkFailed,
                RefreshRead, RefreshWrite, history, TInv, TypeOK
  <2> QED BY <2>1, <2>2, <2>3 DEF Process
<1>3. raced' \in BOOLEAN
  <2>1. ASSUME NEW j \in Jobs, TakeJob(w, j) PROVE raced' \in BOOLEAN
    BY <2>1, Zenon DEF TakeJob
  <2>2. CASE Stall(w)
    BY <2>2, Zenon DEF Stall
  <2>3. CASE Run(w)
    BY <2>3 DEF Run, ReadDelivery, ReadPreference, MarkSkipped, SendMessage, MarkSent,
                MarkFailed, RefreshRead, RefreshWrite, history, TInv, TypeOK
  <2> QED BY <2>1, <2>2, <2>3 DEF Process
<1> QED BY <1>2, <1>3 DEF HistoryType

\* Giving a job back, in any of the three ways, keeps the type invariant.
LEMMA ReleaseTInv ==
  ASSUME TInv, NEW w \in Workers,
         EndJob(w) \/ Retry(w) \/ Stall(w),
         event' \in EventStatus, UNCHANGED <<delivery, sends, emitter>>, HistoryType'
  PROVE  TInv'
<1>1. worker' = [worker EXCEPT ![w] = [pc |-> "idle", job |-> {}, next |-> "ABSENT"]]
  BY DEF EndJob, Retry, Stall
<1>2. \A j \in worker[w].job : j \in Jobs /\ job[j].state = "active"
                               /\ job[j].attempts < MaxAttempts
  BY DEF TInv, TypeOK, JobRecord, Holding, Entitled
<1>3. TypeOK'
  <2>1. job' \in [Jobs -> JobRecord]
    <3>1. CASE EndJob(w)
      <4>1. \A j \in Jobs : job[j] \in JobRecord
        BY DEF TInv, TypeOK
      <4>2. \A k \in JobRecord : [k EXCEPT !.state = "ended"] \in JobRecord
        BY DEF JobRecord
      <4> QED BY <3>1, <4>1, <4>2 DEF EndJob
    <3>2. CASE Retry(w)
      <4>1. ASSUME NEW j \in worker[w].job
            PROVE  job'[j] \in JobRecord
        <5>1. j \in Jobs /\ job[j].attempts \in Nat /\ job[j].attempts < MaxAttempts
          BY <1>2 DEF TInv, TypeOK, JobRecord
        <5>2. job'[j] = [job[j] EXCEPT !.attempts = job[j].attempts + 1,
                                      !.state = IF job[j].attempts + 1 < MaxAttempts
                                                THEN "waiting" ELSE "ended"]
          BY <3>2, <5>1 DEF Retry
        <5>3. job[j] \in JobRecord
          BY <5>1 DEF TInv, TypeOK
        <5> QED BY <5>1, <5>2, <5>3, CountedAttempt
      <4>2. \A j \in Jobs \ worker[w].job : job'[j] = job[j]
        BY <3>2 DEF Retry
      <4>3. job' = [j \in Jobs |-> job'[j]]
        BY <3>2 DEF Retry
      <4>4. \A j \in Jobs : job'[j] \in JobRecord
        BY <4>1, <4>2 DEF TInv, TypeOK
      <4> QED BY <4>3, <4>4
    <3>3. CASE Stall(w)
      <4>1. ASSUME NEW j \in worker[w].job
            PROVE  job'[j] \in JobRecord
        <5>1. j \in Jobs /\ job[j].stalls \in Nat /\ job[j].stalls < MaxStalls
          <6>1. job[j].stalls < MaxStalls
            BY <3>3 DEF Stall
          <6>2. j \in Jobs
            BY <1>2
          <6> QED BY <6>1, <6>2 DEF TInv, TypeOK, JobRecord
        <5>2. job'[j] = [job[j] EXCEPT !.stalls = job[j].stalls + 1, !.state = "waiting"]
          BY <3>3, <5>1 DEF Stall
        <5>3. job[j] \in JobRecord
          BY <5>1 DEF TInv, TypeOK
        <5> QED BY <5>1, <5>2, <5>3, CountedStall
      <4>2. \A j \in Jobs \ worker[w].job : job'[j] = job[j]
        BY <3>3 DEF Stall
      <4>3. job' = [j \in Jobs |-> job'[j]]
        BY <3>3 DEF Stall
      <4>4. \A j \in Jobs : job'[j] \in JobRecord
        BY <4>1, <4>2 DEF TInv, TypeOK
      <4> QED BY <4>3, <4>4
    <3> QED BY <3>1, <3>2, <3>3
  <2> QED BY <1>1, <2>1 DEF HistoryType, TInv, TypeOK, JobRecord
<1>4. Holding'
  <2>1. \A j \in Jobs : j \notin worker[w].job => job'[j] = job[j]
    <3>1. CASE EndJob(w)
      BY <3>1 DEF EndJob
    <3>2. CASE Retry(w)
      BY <3>2 DEF Retry
    <3>3. CASE Stall(w)
      BY <3>3 DEF Stall
    <3> QED BY <3>1, <3>2, <3>3
  <2> QED BY <1>1, <2>1 DEF TInv, TypeOK, JobRecord, Holding
<1>5. Entitled'
  <2>1. ASSUME NEW j \in worker[w].job, job'[j].state \in {"waiting", "active"}
        PROVE  job'[j].attempts < MaxAttempts
    <3>1. j \in Jobs /\ job[j].attempts \in Nat /\ job[j].attempts < MaxAttempts
      BY <1>2 DEF TInv, TypeOK, JobRecord
    <3>2. CASE EndJob(w)
      BY <2>1, <3>1, <3>2 DEF EndJob, TInv, TypeOK, JobRecord
    <3>3. CASE Retry(w)
      <4>1. job'[j] = [job[j] EXCEPT !.attempts = job[j].attempts + 1,
                                    !.state = IF job[j].attempts + 1 < MaxAttempts
                                              THEN "waiting" ELSE "ended"]
        BY <3>1, <3>3 DEF Retry
      <4> QED BY <2>1, <3>1, <4>1 DEF TInv, TypeOK, JobRecord
    <3>4. CASE Stall(w)
      <4>1. job'[j] = [job[j] EXCEPT !.stalls = job[j].stalls + 1, !.state = "waiting"]
        BY <3>1, <3>4 DEF Stall
      <4> QED BY <3>1, <4>1 DEF TInv, TypeOK, JobRecord
    <3> QED BY <3>2, <3>3, <3>4
  <2>2. \A j \in Jobs \ worker[w].job : job'[j] = job[j]
    BY DEF EndJob, Retry, Stall
  <2> QED BY <2>1, <2>2 DEF TInv, Entitled
<1> QED BY <1>3, <1>4, <1>5 DEF TInv

\* Going on inside a run keeps the type invariant.
LEMMA GotoTInv ==
  ASSUME TInv, NEW w \in Workers, NEW pc \in WorkerPc, Goto(w, pc),
         delivery' \in [Deliveries -> DeliveryStatus], sends' \in [Jobs -> Nat],
         UNCHANGED <<event, emitter, job>>, HistoryType'
  PROVE  TInv'
<1>1. worker' \in [Workers -> [pc: WorkerPc, job: SUBSET Jobs, next: EventStatus]]
  <2>1. PICK k : k = [worker[w] EXCEPT !.pc = pc]
    OBVIOUS
  <2>2. worker' = [worker EXCEPT ![w] = k]
    BY <2>1 DEF Goto
  <2>3. k \in [pc: WorkerPc, job: SUBSET Jobs, next: EventStatus]
    BY <2>1 DEF TInv, TypeOK
  <2> QED BY <2>2, <2>3 DEF TInv, TypeOK
<1>2. \A v \in Workers : worker'[v].job = worker[v].job
  BY DEF Goto, TInv, TypeOK, JobRecord
<1>3. TypeOK'
  BY <1>1 DEF HistoryType, TInv, TypeOK, JobRecord
<1>4. Holding' /\ Entitled'
  BY <1>2 DEF TInv, Holding, Entitled
<1> QED BY <1>3, <1>4 DEF TInv

\* Writing a status keeps the delivery column well typed.
LEMMA SetStatusType ==
  ASSUME TInv, NEW w \in Workers, NEW s \in DeliveryStatus, SetStatus(w, s)
  PROVE  delivery' \in [Deliveries -> DeliveryStatus]
  BY DEF SetStatus, TInv, TypeOK, JobRecord

\* A step of a worker keeps the type invariant.
LEMMA WorkerTInv ==
  ASSUME TInv, NEW w \in Workers, Process(w) \/ Stall(w)
  PROVE  TInv'
<1>0. HistoryType'
  BY HistoryKeeps
<1>1. ASSUME NEW j \in Jobs, TakeJob(w, j)
      PROVE  TInv'
  BY <1>0, <1>1 DEF TakeJob, HistoryType, TInv, TypeOK, JobRecord, Holding, Entitled
<1>2. CASE ReadDelivery(w)
  <2>1. CASE EndJob(w)
    BY <1>0, <1>2, <2>1, ReleaseTInv DEF ReadDelivery, TInv, TypeOK, JobRecord
  <2>2. CASE Goto(w, "pref") /\ UNCHANGED job
    BY <1>0, <1>2, <2>2, GotoTInv DEF ReadDelivery, TInv, TypeOK, JobRecord
  <2> QED BY <1>2, <2>1, <2>2 DEF ReadDelivery
<1>3. CASE ReadPreference(w)
  BY <1>0, <1>3, GotoTInv DEF ReadPreference, TInv, TypeOK, JobRecord
<1>4. CASE MarkSkipped(w)
  <2>1. delivery' \in [Deliveries -> DeliveryStatus]
    BY <1>4, SetStatusType DEF MarkSkipped
  <2>2. sends' \in [Jobs -> Nat]
    BY <1>4 DEF MarkSkipped, TInv, TypeOK, JobRecord
  <2> QED BY <1>0, <1>4, <2>1, <2>2, GotoTInv DEF MarkSkipped
<1>5. CASE SendMessage(w)
  <2>1. sends' \in [Jobs -> Nat]
    BY <1>5 DEF SendMessage, TInv, TypeOK, JobRecord
  <2>2. delivery' \in [Deliveries -> DeliveryStatus]
    BY <1>5 DEF SendMessage, TInv, TypeOK, JobRecord
  <2>3. Goto(w, "markSent") \/ Goto(w, "markFailed")
    BY <1>5 DEF SendMessage
  <2>4. UNCHANGED <<event, emitter, job>>
    BY <1>5 DEF SendMessage
  <2> QED BY <1>0, <2>1, <2>2, <2>3, <2>4, GotoTInv
<1>6. CASE MarkSent(w)
  <2>1. CASE SetStatus(w, "SENT") /\ Goto(w, "refresh")
    <3>1. delivery' \in [Deliveries -> DeliveryStatus]
      BY <2>1, SetStatusType
    <3>2. sends' \in [Jobs -> Nat]
      BY <1>6 DEF MarkSent, TInv, TypeOK, JobRecord
    <3> QED BY <1>0, <1>6, <2>1, <3>1, <3>2, GotoTInv DEF MarkSent
  <2>2. CASE Goto(w, "markFailed") /\ UNCHANGED delivery
    BY <1>0, <1>6, <2>2, GotoTInv DEF MarkSent, TInv, TypeOK, JobRecord
  <2> QED BY <1>6, <2>1, <2>2 DEF MarkSent
<1>7. CASE MarkFailed(w)
  <2>1. delivery' \in [Deliveries -> DeliveryStatus]
    BY <1>7, SetStatusType DEF MarkFailed
  <2>2. sends' \in [Jobs -> Nat]
    BY <1>7 DEF MarkFailed, TInv, TypeOK, JobRecord
  <2> QED BY <1>0, <1>7, <2>1, <2>2, GotoTInv DEF MarkFailed
<1>8. CASE RefreshRead(w)
  <2>1. Aggregate \in EventStatus
    BY DEF Aggregate
  <2>2. worker' \in [Workers -> [pc: WorkerPc, job: SUBSET Jobs, next: EventStatus]]
    <3>1. PICK pc \in WorkerPc :
               worker' = [worker EXCEPT ![w].pc = pc, ![w].next = Aggregate]
      BY <1>8, Zenon DEF RefreshRead
    <3>2. PICK k : k = [worker[w] EXCEPT !.pc = pc, !.next = Aggregate]
      OBVIOUS
    <3>3. worker' = [worker EXCEPT ![w] = k]
      BY <3>1, <3>2
    <3>4. k \in [pc: WorkerPc, job: SUBSET Jobs, next: EventStatus]
      BY <2>1, <3>2 DEF TInv, TypeOK
    <3> QED BY <3>3, <3>4 DEF TInv, TypeOK
  <2>3. \A v \in Workers : worker'[v].job = worker[v].job
    BY <1>8 DEF RefreshRead, TInv, TypeOK, JobRecord
  <2>4. TypeOK'
    BY <1>0, <1>8, <2>2 DEF RefreshRead, HistoryType, TInv, TypeOK, JobRecord
  <2>5. Holding' /\ Entitled'
    BY <1>8, <2>3 DEF RefreshRead, TInv, Holding, Entitled
  <2> QED BY <2>4, <2>5 DEF TInv
<1>9. CASE RefreshWrite(w)
  BY <1>0, <1>9, ReleaseTInv DEF RefreshWrite, TInv, TypeOK, JobRecord
<1>10. CASE Stall(w)
  BY <1>0, <1>10, ReleaseTInv DEF Stall, TInv, TypeOK, JobRecord
<1> QED BY <1>1, <1>2, <1>3, <1>4, <1>5, <1>6, <1>7, <1>8, <1>9, <1>10 DEF Process, Run

\* Every column keeps its type and no job is run beyond its attempts.
LEMMA NextTInv == TInv /\ [Next]_vars => TInv'
<1>1. ASSUME TInv, UNCHANGED vars PROVE TInv'
  BY <1>1 DEF vars, TInv, TypeOK, JobRecord, Holding, Entitled
<1> QED BY <1>1, EmitTInv, WorkerTInv DEF Next

\* Every reachable state is well typed: a job is never run more often than its
\* attempts and stalls allow (BullMQ's bookkeeping with processDelivery on top).
THEOREM TypeCorrect == Spec => []TypeOK
<1>1. Spec => []TInv
  BY InitTInv, NextTInv, PTL DEF Spec
<1>2. TInv => TypeOK
  BY DEF TInv
<1> QED BY <1>1, <1>2, PTL

-----------------------------------------------------------------------------
\* The aggregate of deliveries says something else than PENDING only when none is.
LEMMA AggregateSound ==
  /\ Aggregate # "ABSENT"
  /\ Aggregate # "PENDING" => \A d \in Deliveries : delivery[d] # "PENDING"
  BY DEF Aggregate, Pending

\* What a step of a worker leaves alone of what the closing argument looks at.
WorkerStep(w) ==
    /\ emitter' = emitter
    /\ event' # event =>
          worker[w].pc \in {"write", "writeThenFail"} /\ event' = worker[w].next
    /\ \A d \in Deliveries : delivery'[d] = "PENDING" => delivery[d] = "PENDING"
    /\ \A v \in Workers \ {w} : worker'[v] = worker[v]
    /\ worker'[w].pc \in {"write", "writeThenFail"} => worker'[w].next = Aggregate
    /\ worker[w].pc # "idle" \/ \E j \in Jobs : job[j].state = "waiting"
    /\ \A j \in Jobs : job[j].state = "free" => job'[j].state = "free"

LEMMA ReleaseFrame ==
  ASSUME TInv, NEW w \in Workers, EndJob(w) \/ Retry(w) \/ Stall(w)
  PROVE  /\ \A j \in Jobs : job[j].state = "free" => job'[j].state = "free"
         /\ \A v \in Workers \ {w} : worker'[v] = worker[v]
         /\ worker'[w].pc = "idle"
<1>1. \A j \in Jobs : j \notin worker[w].job => job'[j] = job[j]
  BY DEF EndJob, Retry, Stall
<1>2. \A j \in worker[w].job : job[j].state # "free"
  BY DEF TInv, Holding
<1>3. worker' = [worker EXCEPT ![w] = [pc |-> "idle", job |-> {}, next |-> "ABSENT"]]
  BY DEF EndJob, Retry, Stall
<1> QED BY <1>1, <1>2, <1>3 DEF TInv, TypeOK

LEMMA GotoFrame ==
  ASSUME TInv, NEW w \in Workers, NEW pc \in WorkerPc \ {"write", "writeThenFail"},
         Goto(w, pc), worker[w].pc # "idle", UNCHANGED <<event, emitter, job>>,
         \A d \in Deliveries : delivery'[d] = "PENDING" => delivery[d] = "PENDING"
  PROVE  WorkerStep(w)
<1>1. /\ \A v \in Workers \ {w} : worker'[v] = worker[v]
      /\ worker'[w].pc = pc
  BY DEF Goto, TInv, TypeOK
<1> QED BY <1>1 DEF WorkerStep

LEMMA WorkerFrame ==
  ASSUME TInv, NEW w \in Workers, Process(w) \/ Stall(w)
  PROVE  WorkerStep(w)
<1>1. ASSUME NEW j \in Jobs, TakeJob(w, j)
      PROVE  WorkerStep(w)
  <2>1. /\ \A v \in Workers \ {w} : worker'[v] = worker[v]
        /\ worker'[w].pc = "read"
    BY <1>1 DEF TakeJob, TInv, TypeOK
  <2>2. \A k \in Jobs : job[k].state = "free" => job'[k].state = "free"
    BY <1>1 DEF TakeJob, TInv, TypeOK, JobRecord
  <2> QED BY <1>1, <2>1, <2>2 DEF TakeJob, WorkerStep
<1>2. CASE ReadDelivery(w)
  <2>1. CASE EndJob(w)
    <3>1. worker[w].pc # "idle" /\ UNCHANGED <<event, delivery, emitter>>
      BY <1>2 DEF ReadDelivery
    <3> QED BY <2>1, <3>1, ReleaseFrame DEF WorkerStep
  <2>2. CASE Goto(w, "pref") /\ UNCHANGED job
    BY <1>2, <2>2, GotoFrame DEF ReadDelivery
  <2> QED BY <1>2, <2>1, <2>2 DEF ReadDelivery
<1>3. CASE ReadPreference(w)
  BY <1>3, GotoFrame DEF ReadPreference
<1>4. CASE MarkSkipped(w)
  <2>1. \A d \in Deliveries : delivery'[d] = "PENDING" => delivery[d] = "PENDING"
    BY <1>4 DEF MarkSkipped, SetStatus
  <2> QED BY <1>4, <2>1, GotoFrame DEF MarkSkipped
<1>5. CASE SendMessage(w)
  <2>1. Goto(w, "markSent") \/ Goto(w, "markFailed")
    BY <1>5 DEF SendMessage
  <2>2. worker[w].pc # "idle" /\ UNCHANGED <<event, emitter, job, delivery>>
    BY <1>5 DEF SendMessage
  <2> QED BY <2>1, <2>2, GotoFrame
<1>6. CASE MarkSent(w)
  <2>1. \A d \in Deliveries : delivery'[d] = "PENDING" => delivery[d] = "PENDING"
    BY <1>6 DEF MarkSent, SetStatus
  <2>2. Goto(w, "refresh") \/ Goto(w, "markFailed")
    BY <1>6 DEF MarkSent
  <2>3. worker[w].pc # "idle" /\ UNCHANGED <<event, emitter, job>>
    BY <1>6 DEF MarkSent
  <2> QED BY <2>1, <2>2, <2>3, GotoFrame
<1>7. CASE MarkFailed(w)
  <2>1. \A d \in Deliveries : delivery'[d] = "PENDING" => delivery[d] = "PENDING"
    BY <1>7 DEF MarkFailed, SetStatus
  <2> QED BY <1>7, <2>1, GotoFrame DEF MarkFailed
<1>8. CASE RefreshRead(w)
  <2>1. \A v \in Workers \ {w} : worker'[v] = worker[v]
    BY <1>8 DEF RefreshRead, TInv, TypeOK
  <2>2. worker'[w].next = Aggregate
    BY <1>8 DEF RefreshRead, TInv, TypeOK
  <2> QED BY <1>8, <2>1, <2>2 DEF RefreshRead, WorkerStep
<1>9. CASE RefreshWrite(w)
  <2>1. EndJob(w) \/ Retry(w)
    BY <1>9 DEF RefreshWrite
  <2>2. /\ worker[w].pc \in {"write", "writeThenFail"} /\ event' = worker[w].next
        /\ UNCHANGED <<delivery, emitter>>
    BY <1>9 DEF RefreshWrite
  <2> QED BY <2>1, <2>2, ReleaseFrame DEF WorkerStep
<1>10. CASE Stall(w)
  <2>1. worker[w].pc # "idle" /\ UNCHANGED <<event, delivery, emitter>>
    BY <1>10 DEF Stall
  <2> QED BY <1>10, <2>1, ReleaseFrame DEF WorkerStep
<1> QED BY <1>1, <1>2, <1>3, <1>4, <1>5, <1>6, <1>7, <1>8, <1>9, <1>10 DEF Process, Run

\* Everything the closing argument needs.
CInv == TInv /\ Existing /\ Computed /\ ClosedMeansHandled

LEMMA InitCInv == Init => CInv
<1>1. Init => Existing /\ Computed /\ ClosedMeansHandled
  BY DEF Init, Existing, Computed, ClosedMeansHandled
<1> QED BY <1>1, InitTInv DEF CInv

\* A step of an emitter: the only one that makes deliveries PENDING comes first.
LEMMA EmitCInv ==
  ASSUME CInv, NEW e \in Emitters, Emit(e) \/ EmitterLost(e)
  PROVE  Existing' /\ Computed' /\ ClosedMeansHandled'
<1> USE DEF CInv, Existing, Computed, ClosedMeansHandled, TInv, TypeOK
<1>1. CASE FindEvent(e)
  BY <1>1 DEF FindEvent
<1>2. CASE CreateEvent(e)
  BY <1>2 DEF CreateEvent
<1>3. CASE ListPending(e)
  BY <1>3 DEF ListPending
<1>4. CASE AddJob(e)
  <2>1. UNCHANGED <<event, delivery, worker>> /\ event # "ABSENT"
    BY <1>4 DEF AddJob
  <2> QED BY <2>1
<1>5. CASE EmitterLost(e)
  BY <1>5 DEF EmitterLost
<1> QED BY <1>1, <1>2, <1>3, <1>4, <1>5 DEF Emit

\* A step of a worker: it starts only on an existing event, computes from the
\* rows it reads, and never reopens one.
LEMMA WorkerCInv ==
  ASSUME CInv, NEW w \in Workers, Process(w) \/ Stall(w)
  PROVE  Existing' /\ Computed' /\ ClosedMeansHandled'
<1>1. WorkerStep(w)
  BY WorkerFrame DEF CInv
<1>2. event # "ABSENT" /\ event' # "ABSENT"
  BY <1>1 DEF WorkerStep, CInv, Existing, Computed
<1>3. Existing'
  BY <1>2 DEF Existing
<1>4. Computed'
  BY <1>1, AggregateSound DEF WorkerStep, CInv, Computed
<1>5. ClosedMeansHandled'
  BY <1>1 DEF WorkerStep, CInv, Computed, ClosedMeansHandled
<1> QED BY <1>3, <1>4, <1>5

LEMMA NextCInv == CInv /\ [Next]_vars => CInv'
<1>1. ASSUME CInv, UNCHANGED vars
      PROVE  Existing' /\ Computed' /\ ClosedMeansHandled'
  BY <1>1 DEF vars, CInv, Existing, Computed, ClosedMeansHandled
<1> QED BY <1>1, EmitCInv, WorkerCInv, NextTInv DEF Next, CInv

\* An event that left PENDING has no delivery left to send, although
\* refreshEventStatus writes what it read several steps earlier.
THEOREM ClosedForGood == Spec => []ClosedMeansHandled
<1>1. Spec => []CInv
  BY InitCInv, NextCInv, PTL DEF Spec
<1>2. CInv => ClosedMeansHandled
  BY DEF CInv
<1> QED BY <1>1, <1>2, PTL

-----------------------------------------------------------------------------
\* A job that has been queued is for one delivery; a worker has one job or none.
Carried ==
    /\ \A j \in Jobs : IF job[j].state = "free" THEN job[j].delivery = {} /\ sends[j] = 0
                       ELSE \E d \in Deliveries : job[j].delivery = {d}
    /\ \A w \in Workers : IF worker[w].pc = "idle" THEN worker[w].job = {}
                          ELSE \E j \in Jobs : worker[w].job = {j}

Works(w, d) == \E j \in worker[w].job : d \in job[j].delivery

LEMMA WorksIsDelivery ==
  ASSUME NEW w \in Workers
  PROVE  \A d : d \in DeliveryOf(w) <=> Works(w, d)
  BY DEF DeliveryOf, Works

\* What a step of a worker that has job j, for delivery d, leaves alone ...
Frame(w, j, d) ==
    /\ \A v \in Workers \ {w} : worker'[v] = worker[v]
    /\ worker'[w].job = IF worker'[w].pc = "idle" THEN {} ELSE {j}
    /\ \A k \in Jobs : job'[k].delivery = job[k].delivery
    /\ \A k \in Jobs \ {j} : sends'[k] = sends[k] /\ job'[k] = job[k]
    /\ job'[j].state # "free"
    /\ \A e \in Deliveries \ {d} : delivery'[e] = delivery[e]
    /\ doubtful \subseteq doubtful'
    /\ emitter' = emitter

\* ... and what it does.
Outcome(w, j, d) ==
    \/ /\ worker'[w].pc = "idle" /\ UNCHANGED <<delivery, sends>>
       /\ worker[w].pc = "markSent" => d \in doubtful'
    \/ /\ worker[w].pc = "read" /\ worker'[w].pc = "pref" /\ UNCHANGED <<delivery, sends>>
       /\ delivery[d] \notin AlreadyHandled
    \/ /\ worker[w].pc = "pref" /\ worker'[w].pc \in {"skip", "send"}
       /\ UNCHANGED <<delivery, sends>>
    \/ /\ worker[w].pc = "send" /\ worker'[w].pc = "markSent" /\ delivery' = delivery
       /\ sends'[j] = IF d \in InApp THEN sends[j] ELSE sends[j] + 1
    \/ /\ worker[w].pc = "send" /\ worker'[w].pc = "markFailed" /\ UNCHANGED <<delivery, sends>>
    \/ /\ worker[w].pc = "markSent" /\ worker'[w].pc = "markFailed"
       /\ d \in doubtful' /\ UNCHANGED <<delivery, sends>>
    \/ /\ worker[w].pc = "markSent" /\ worker'[w].pc = "refresh"
       /\ delivery'[d] = "SENT" /\ sends' = sends
    \/ /\ worker[w].pc = "skip" /\ worker'[w].pc = "refresh"
       /\ delivery'[d] = "SKIPPED" /\ sends' = sends
    \/ /\ worker[w].pc = "markFailed" /\ worker'[w].pc = "refreshThenFail"
       /\ delivery'[d] = "FAILED" /\ sends' = sends
    \/ /\ worker[w].pc \in Refreshing /\ worker'[w].pc \in Refreshing
       /\ UNCHANGED <<delivery, sends>>

\* A run that goes on has its job counted already; one that ends is counted now.
Tally(j) == job[j].attempts + job[j].stalls + IF job[j].state \in {"active", "ended"} THEN 1 ELSE 0

LEMMA Holds ==
  ASSUME TInv, Carried, NEW w \in Workers, worker[w].pc # "idle"
  PROVE  \E j \in Jobs, d \in Deliveries :
            /\ worker[w].job = {j} /\ job[j].delivery = {d} /\ job[j].state = "active"
            /\ DeliveryOf(w) = {d}
<1>1. PICK j \in Jobs : worker[w].job = {j}
  BY DEF Carried
<1>2. job[j].state = "active"
  BY <1>1 DEF TInv, Holding
<1>3. PICK d \in Deliveries : job[j].delivery = {d}
  BY <1>2 DEF Carried
<1>4. DeliveryOf(w) = {d}
  BY <1>1, <1>3 DEF DeliveryOf
<1> QED BY <1>1, <1>2, <1>3, <1>4

\* Giving the job back.
LEMMA GivesBack ==
  ASSUME TInv, NEW w \in Workers, NEW j \in Jobs, NEW d \in Deliveries,
         worker[w].job = {j}, job[j].delivery = {d}, job[j].state = "active",
         EndJob(w) \/ Retry(w) \/ Stall(w), UNCHANGED <<delivery, sends, emitter>>,
         doubtful \subseteq doubtful'
  PROVE  /\ Frame(w, j, d) /\ worker'[w].pc = "idle"
         /\ Tally(j)' >= Tally(j) /\ Tally(j) \in Nat
<1>1. job[j] \in JobRecord /\ job[j].attempts \in Nat /\ job[j].stalls \in Nat
  BY DEF TInv, TypeOK, JobRecord
<1>2. worker' = [worker EXCEPT ![w] = [pc |-> "idle", job |-> {}, next |-> "ABSENT"]]
  BY DEF EndJob, Retry, Stall
<1>3. /\ \A v \in Workers \ {w} : worker'[v] = worker[v]
      /\ worker'[w].pc = "idle" /\ worker'[w].job = {}
  BY <1>2 DEF TInv, TypeOK
<1>4. \A k \in Jobs \ {j} : job'[k] = job[k]
  BY DEF EndJob, Retry, Stall
<1>5. /\ job'[j].delivery = job[j].delivery /\ job'[j].state # "free"
      /\ Tally(j)' >= Tally(j) /\ Tally(j) \in Nat
  <2>1. CASE EndJob(w)
    <3>1. job'[j] = [job[j] EXCEPT !.state = "ended"]
      BY <2>1 DEF EndJob
    <3> QED BY <1>1, <3>1 DEF Tally, JobRecord
  <2>2. CASE Retry(w)
    <3>1. job'[j] = [job[j] EXCEPT !.attempts = job[j].attempts + 1,
                                  !.state = IF job[j].attempts + 1 < MaxAttempts
                                            THEN "waiting" ELSE "ended"]
      BY <2>2 DEF Retry
    <3>2. /\ job'[j].attempts = job[j].attempts + 1 /\ job'[j].stalls = job[j].stalls
          /\ job'[j].delivery = job[j].delivery /\ job'[j].state \in {"waiting", "ended"}
      BY <1>1, <3>1 DEF JobRecord
    <3> QED BY <1>1, <3>2 DEF Tally
  <2>3. CASE Stall(w)
    <3>1. job'[j] = [job[j] EXCEPT !.stalls = job[j].stalls + 1, !.state = "waiting"]
      BY <2>3 DEF Stall
    <3>2. /\ job'[j].stalls = job[j].stalls + 1 /\ job'[j].attempts = job[j].attempts
          /\ job'[j].delivery = job[j].delivery /\ job'[j].state = "waiting"
      BY <1>1, <3>1 DEF JobRecord
    <3> QED BY <1>1, <3>2 DEF Tally
  <2> QED BY <2>1, <2>2, <2>3
<1> QED BY <1>3, <1>4, <1>5 DEF Frame

\* Going on with it.
LEMMA GoesOn ==
  ASSUME TInv, NEW w \in Workers, NEW j \in Jobs, NEW d \in Deliveries,
         worker[w].job = {j}, job[j].state = "active", NEW pc \in WorkerPc \ {"idle"},
         Goto(w, pc), UNCHANGED <<emitter, job>>,
         \A k \in Jobs \ {j} : sends'[k] = sends[k],
         \A e \in Deliveries \ {d} : delivery'[e] = delivery[e],
         doubtful \subseteq doubtful'
  PROVE  Frame(w, j, d) /\ worker'[w].pc = pc
<1>1. /\ \A v \in Workers \ {w} : worker'[v] = worker[v]
      /\ worker'[w].pc = pc /\ worker'[w].job = {j}
  BY DEF Goto, TInv, TypeOK
<1> QED BY <1>1 DEF Frame

\* Every step of a run is one of these.
LEMMA RunSteps ==
  ASSUME TInv, NEW w \in Workers, NEW j \in Jobs, NEW d \in Deliveries,
         worker[w].job = {j}, job[j].delivery = {d}, job[j].state = "active",
         DeliveryOf(w) = {d}, Run(w) \/ Stall(w)
  PROVE  /\ Frame(w, j, d) /\ Outcome(w, j, d)
         /\ worker'[w].pc = "idle" => Tally(j)' >= Tally(j)
         /\ worker'[w].pc # "idle" => job' = job
<1>0. Tally(j)' = Tally(j) \/ job' # job
  BY DEF Tally
<1>1. CASE ReadDelivery(w)
  <2>1. CASE EndJob(w)
    BY <1>1, <2>1, GivesBack DEF ReadDelivery, Outcome, history
  <2>2. CASE Goto(w, "pref") /\ UNCHANGED job /\ delivery[d] \notin AlreadyHandled
    BY <1>1, <2>2, GoesOn DEF ReadDelivery, Outcome, history
  <2> QED BY <1>1, <2>1, <2>2 DEF ReadDelivery
<1>2. CASE ReadPreference(w)
  BY <1>2, GoesOn DEF ReadPreference, Outcome, history
<1>3. CASE MarkSkipped(w)
  <2>1. delivery'[d] = "SKIPPED" /\ \A e \in Deliveries \ {d} : delivery'[e] = delivery[e]
    BY <1>3 DEF MarkSkipped, SetStatus
  <2> QED BY <1>3, <2>1, GoesOn DEF MarkSkipped, Outcome, history
<1>4. CASE SendMessage(w)
  <2>1. CASE Goto(w, "markFailed") /\ UNCHANGED sends
    BY <1>4, <2>1, GoesOn DEF SendMessage, Outcome, history
  <2>2. CASE /\ sends' = [k \in Jobs |-> IF k \in worker[w].job /\ DeliveryOf(w) \cap InApp = {}
                                         THEN sends[k] + 1 ELSE sends[k]]
             /\ Goto(w, "markSent")
    <3>1. /\ \A k \in Jobs \ {j} : sends'[k] = sends[k]
          /\ sends'[j] = IF d \in InApp THEN sends[j] ELSE sends[j] + 1
      BY <2>2
    <3> QED BY <1>4, <2>2, <3>1, GoesOn DEF SendMessage, Outcome, history
  <2> QED BY <1>4, <2>1, <2>2 DEF SendMessage
<1>5. CASE MarkSent(w)
  <2>1. CASE SetStatus(w, "SENT") /\ Goto(w, "refresh") /\ UNCHANGED doubtful
    <3>1. delivery'[d] = "SENT" /\ \A e \in Deliveries \ {d} : delivery'[e] = delivery[e]
      BY <2>1 DEF SetStatus
    <3> QED BY <1>5, <2>1, <3>1, GoesOn DEF MarkSent, Outcome
  <2>2. CASE Goto(w, "markFailed") /\ UNCHANGED delivery /\ doubtful' = doubtful \cup DeliveryOf(w)
    BY <1>5, <2>2, GoesOn DEF MarkSent, Outcome
  <2> QED BY <1>5, <2>1, <2>2 DEF MarkSent
<1>6. CASE MarkFailed(w)
  <2>1. delivery'[d] = "FAILED" /\ \A e \in Deliveries \ {d} : delivery'[e] = delivery[e]
    BY <1>6 DEF MarkFailed, SetStatus
  <2> QED BY <1>6, <2>1, GoesOn DEF MarkFailed, Outcome, history
<1>7. CASE RefreshRead(w)
  <2>1. /\ \A v \in Workers \ {w} : worker'[v] = worker[v]
        /\ worker'[w].job = {j} /\ worker[w].pc \in Refreshing
        /\ worker'[w].pc \in {"write", "writeThenFail"}
    BY <1>7 DEF RefreshRead, Refreshing, TInv, TypeOK
  <2> QED BY <1>7, <2>1 DEF RefreshRead, Refreshing, Frame, Outcome, history
<1>8. CASE RefreshWrite(w)
  <2>1. EndJob(w) \/ Retry(w)
    BY <1>8 DEF RefreshWrite
  <2> QED BY <1>8, <2>1, GivesBack DEF RefreshWrite, Outcome, history
<1>9. CASE Stall(w)
  <2>1. doubtful \subseteq doubtful' /\ (worker[w].pc = "markSent" => d \in doubtful')
    BY <1>9 DEF Stall
  <2> QED BY <1>9, <2>1, GivesBack DEF Stall, Outcome
<1> QED BY <1>1, <1>2, <1>3, <1>4, <1>5, <1>6, <1>7, <1>8, <1>9 DEF Run

-----------------------------------------------------------------------------
\* Everything the claims about sends and outcomes need, beside CInv: for a
\* delivery in doubt nothing but the count of each job's runs.
Counted ==
    /\ \A j \in Jobs : sends[j] <= Tally(j)
    /\ \A w \in Workers : worker[w].pc \in {"read", "pref", "skip", "send"} =>
           \A j \in worker[w].job : sends[j] < Tally(j)

Sole ==
    \A d \in Deliveries \ doubtful : \A v, w \in Workers : Works(v, d) /\ Works(w, d) => v = w

\* Who is about to mark a delivery has found it unhandled, and unsent when he is
\* about to send it or has failed to.
Unhandled ==
    \A d \in Deliveries \ doubtful, w \in Workers : Works(w, d) =>
        /\ worker[w].pc \in {"pref", "skip", "send", "markSent", "markFailed"} =>
               delivery[d] \notin AlreadyHandled
        /\ worker[w].pc \in {"pref", "skip", "send", "markFailed"} =>
               \A k \in JobsFor(d) : sends[k] = 0

\* One message, and it is on record or about to be.
Told ==
    \A d \in Deliveries \ doubtful : \A k \in JobsFor(d) : sends[k] > 0 =>
        /\ sends[k] = 1 /\ \A i \in JobsFor(d) : sends[i] > 0 => i = k
        /\ \/ delivery[d] = "SENT"
           \/ \E w \in Workers : worker[w].pc = "markSent" /\ Works(w, d)

\* A worker about to mark a delivery SENT has had it accepted by the provider.
HandedOver ==
    \A w \in Workers, d \in Deliveries \ InApp :
        worker[w].pc = "markSent" /\ Works(w, d) => \E k \in JobsFor(d) : sends[k] > 0

Fresh == event = "ABSENT" => \A d \in Deliveries : delivery[d] = "ABSENT"

SInv ==
    /\ CInv /\ Carried /\ Counted /\ Sole /\ Unhandled /\ Told /\ HandedOver /\ SentWasSent
    /\ Fresh

LEMMA InitSInv == Init => SInv
<1> SUFFICES ASSUME Init PROVE SInv
  OBVIOUS
<1>1. CInv
  BY InitCInv
<1>2. Carried /\ SentWasSent /\ Fresh
  BY DEF Init, Carried, SentWasSent, Fresh
<1>3. Counted
  BY DEF Init, Counted, Tally
<1>4. Sole /\ Unhandled /\ Told /\ HandedOver
  BY DEF Init, Sole, Unhandled, Told, HandedOver, Works, JobsFor
<1> QED BY <1>1, <1>2, <1>3, <1>4 DEF SInv

\* An emitter brings the deliveries about when nobody works on them, or queues a
\* new job, which has sent nothing.
LEMMA EmitSInv ==
  ASSUME SInv, CInv', NEW e \in Emitters, Emit(e) \/ EmitterLost(e)
  PROVE  SInv'
<1>0. UNCHANGED <<sends, worker, doubtful>>
  BY DEF Emit, FindEvent, CreateEvent, ListPending, AddJob, EmitterLost, history
<1> USE DEF SInv, CInv, TInv
<1>1. CASE job' = job
  <2>1. \/ UNCHANGED <<event, delivery>>
        \/ event = "ABSENT" /\ event' # "ABSENT" /\ delivery' = [d \in Deliveries |-> "PENDING"]
    BY <1>1 DEF Emit, FindEvent, CreateEvent, ListPending, AddJob, EmitterLost, NextJob,
                FreeJobs, TypeOK
  <2>2. event = "ABSENT" => (\A w \in Workers : worker[w].job = {})
                              /\ \A j \in Jobs : job[j].delivery = {} /\ sends[j] = 0
    BY DEF Existing, Carried
  <2>3. event = "ABSENT" => \A d \in Deliveries : JobsFor(d) = {}
                                /\ \A w \in Workers : ~Works(w, d)
    BY <2>2 DEF JobsFor, Works
  <2>4. \A d \in Deliveries : JobsFor(d)' = JobsFor(d)
            /\ \A w \in Workers : Works(w, d)' <=> Works(w, d)
    BY <1>0, <1>1 DEF JobsFor, Works
  <2>5. Carried' /\ Counted' /\ Sole'
    BY <1>0, <1>1, <2>4 DEF Carried, Counted, Tally, Sole
  <2>6. Unhandled' /\ Told'
    BY <1>0, <2>1, <2>3, <2>4 DEF Unhandled, Told
  <2>7. HandedOver' /\ SentWasSent' /\ Fresh'
    BY <1>0, <2>1, <2>3, <2>4 DEF HandedOver, SentWasSent, Fresh
  <2> QED BY <2>5, <2>6, <2>7
<1>2. CASE job' # job
  <2>1. AddJob(e)
    BY <1>2 DEF Emit, FindEvent, CreateEvent, ListPending, EmitterLost
  <2>2. PICK d \in emitter[e].rows, j \in NextJob :
           job' = [job EXCEPT ![j] = [state |-> "waiting", delivery |-> {d},
                                      attempts |-> 0, stalls |-> 0]]
    BY <1>2, <2>1 DEF AddJob
  <2>3. /\ j \in Jobs /\ job[j].state = "free" /\ d \in Deliveries
        /\ sends[j] = 0 /\ job[j].delivery = {} /\ UNCHANGED <<event, delivery>>
    BY <2>1, <2>2 DEF AddJob, NextJob, FreeJobs, TypeOK, Carried
  <2>4. /\ \A k \in Jobs \ {j} : job'[k] = job[k]
        /\ job'[j].state = "waiting" /\ job'[j].delivery = {d}
        /\ job'[j].attempts = 0 /\ job'[j].stalls = 0
    BY <2>2, <2>3 DEF TypeOK
  <2>5. \A w \in Workers : j \notin worker[w].job /\ worker[w].job \subseteq Jobs
    BY <2>3 DEF Holding, TypeOK
  <2>6. \A c \in Deliveries : \A w \in Workers : Works(w, c)' <=> Works(w, c)
    BY <1>0, <2>4, <2>5 DEF Works
  <2>7. \A c \in Deliveries : JobsFor(c)' = IF c = d THEN JobsFor(c) \cup {j} ELSE JobsFor(c)
    BY <2>3, <2>4 DEF JobsFor
  <2>8. Carried'
    BY <1>0, <2>3, <2>4 DEF Carried
  <2>9. Counted'
    BY <1>0, <2>3, <2>4, <2>5 DEF Counted, Tally
  <2>10. Sole' /\ Unhandled'
    BY <1>0, <2>3, <2>6, <2>7 DEF Sole, Unhandled
  <2>11. Told'
    BY <1>0, <2>3, <2>6, <2>7 DEF Told
  <2>12. HandedOver' /\ SentWasSent' /\ Fresh'
    BY <1>0, <2>3, <2>6, <2>7 DEF HandedOver, SentWasSent, Fresh
  <2> QED BY <2>8, <2>9, <2>10, <2>11, <2>12
<1> QED BY <1>1, <1>2

\* A worker takes a job: its delivery is in doubt if somebody has it already.
LEMMA TakeSInv ==
  ASSUME SInv, CInv', NEW w \in Workers, NEW j \in Jobs, TakeJob(w, j)
  PROVE  SInv'
<1> USE DEF SInv, CInv, TInv
<1>1. /\ UNCHANGED <<event, delivery, sends, emitter>> /\ worker[w].pc = "idle"
      /\ \A v \in Workers \ {w} : worker'[v] = worker[v]
      /\ worker'[w].pc = "read" /\ worker'[w].job = {j}
      /\ \A k \in Jobs \ {j} : job'[k] = job[k]
      /\ job[j].state = "waiting" /\ job'[j].state = "active" /\ job'[j].delivery = job[j].delivery
      /\ job'[j].attempts = job[j].attempts /\ job'[j].stalls = job[j].stalls
  BY DEF TakeJob, TypeOK, JobRecord
<1>2. PICK d \in Deliveries : job[j].delivery = {d}
  BY <1>1 DEF Carried
<1>3. /\ doubtful \subseteq doubtful'
      /\ d \notin doubtful' => \A v \in Workers : ~Works(v, d)
  BY <1>2, WorksIsDelivery DEF TakeJob
<1>4. \A c \in Deliveries : JobsFor(c)' = JobsFor(c)
  BY <1>1 DEF JobsFor
<1>5. \A c \in Deliveries :
         /\ \A v \in Workers \ {w} : Works(v, c)' <=> Works(v, c)
         /\ Works(w, c)' <=> c = d
         /\ ~Works(w, c)
  <2>1. \A v \in Workers : worker[v].job \subseteq Jobs
    BY DEF TypeOK
  <2>2. \A k \in Jobs : job'[k].delivery = job[k].delivery
    BY <1>1
  <2> QED BY <1>1, <1>2, <2>1, <2>2 DEF Works, Carried
<1>6. Carried'
  BY <1>1 DEF Carried
<1>7. Counted'
  <2>1. job[j].attempts \in Nat /\ job[j].stalls \in Nat /\ sends[j] \in Nat
    BY DEF TypeOK, JobRecord
  <2>2. \A v \in Workers : worker[v].job \subseteq Jobs /\ j \notin worker[v].job
    BY <1>1 DEF TypeOK, Holding
  <2>3. \A k \in Jobs \ {j} : Tally(k)' = Tally(k)
    BY <1>1 DEF Tally
  <2>4. sends[j] < Tally(j)' /\ sends[j] <= Tally(j)'
    <3>1. Tally(j) = job[j].attempts + job[j].stalls
      BY <1>1, <2>1 DEF Tally
    <3>2. Tally(j)' = job[j].attempts + job[j].stalls + 1
      BY <1>1 DEF Tally
    <3> QED BY <2>1, <3>1, <3>2 DEF Counted
  <2>5. \A k \in Jobs : sends'[k] <= Tally(k)'
    BY <1>1, <2>3, <2>4 DEF Counted
  <2>6. ASSUME NEW v \in Workers, worker'[v].pc \in {"read", "pref", "skip", "send"},
               NEW k \in worker'[v].job
        PROVE  sends'[k] < Tally(k)'
    <3>1. CASE v = w
      BY <1>1, <2>4, <2>6, <3>1
    <3>2. CASE v # w
      <4>1. worker'[v] = worker[v] /\ k \in Jobs \ {j}
        BY <1>1, <2>2, <2>6, <3>2
      <4> QED BY <1>1, <2>3, <2>6, <4>1 DEF Counted
    <3> QED BY <3>1, <3>2
  <2> QED BY <2>5, <2>6 DEF Counted
<1>8. Sole' /\ Unhandled'
  BY <1>1, <1>3, <1>4, <1>5 DEF Sole, Unhandled
<1>9. Told'
  BY <1>1, <1>3, <1>4, <1>5 DEF Told
<1>10. HandedOver' /\ SentWasSent' /\ Fresh'
  BY <1>1, <1>4, <1>5 DEF HandedOver, SentWasSent, Fresh
<1> QED BY <1>6, <1>7, <1>8, <1>9, <1>10

\* A run, or its end, by what it does to its job and its delivery.
LEMMA RunSInv ==
  ASSUME SInv, CInv', NEW w \in Workers, Run(w) \/ Stall(w)
  PROVE  SInv'
<1> USE DEF SInv, CInv, TInv
<1>0. worker[w].pc # "idle"
  BY DEF Run, ReadDelivery, ReadPreference, MarkSkipped, SendMessage, MarkSent, MarkFailed,
         RefreshRead, RefreshWrite, Stall
<1>1. PICK j \in Jobs, d \in Deliveries :
         /\ worker[w].job = {j} /\ job[j].delivery = {d} /\ job[j].state = "active"
         /\ DeliveryOf(w) = {d}
  BY <1>0, Holds
<1>2. /\ Frame(w, j, d) /\ Outcome(w, j, d)
      /\ worker'[w].pc = "idle" => Tally(j)' >= Tally(j)
      /\ worker'[w].pc # "idle" => job' = job
  BY <1>1, RunSteps
<1>3. \A c \in Deliveries : JobsFor(c)' = JobsFor(c)
  BY <1>2 DEF Frame, JobsFor
<1>4. \A c \in Deliveries :
         /\ \A v \in Workers \ {w} : Works(v, c)' <=> Works(v, c)
         /\ Works(w, c) <=> c = d
         /\ Works(w, c)' <=> c = d /\ worker'[w].pc # "idle"
  <2>1. \A v \in Workers : worker[v].job \subseteq Jobs
    BY DEF TypeOK
  <2> QED BY <1>1, <1>2, <2>1 DEF Works, Frame
<1>5. sends[j] \in Nat /\ (sends' = sends \/ (sends'[j] \in Nat /\ sends'[j] >= sends[j]
                                               /\ worker[w].pc = "send"))
  BY <1>2 DEF Outcome, TypeOK
<1>6. Carried'
  <2>1. \A k \in Jobs \ {j} : job'[k] = job[k] /\ sends'[k] = sends[k]
    BY <1>2 DEF Frame
  <2> QED BY <1>1, <1>2, <2>1 DEF Carried, Frame
<1>7. Counted'
  <2>1. \A k \in Jobs \ {j} : Tally(k)' = Tally(k) /\ sends'[k] = sends[k]
    BY <1>2 DEF Frame, Tally
  <2>2. Tally(j) \in Nat /\ Tally(j)' \in Nat
    BY DEF TypeOK, JobRecord, Tally
  <2>3. Tally(j)' >= Tally(j)
    <3>1. job' = job => Tally(j)' = Tally(j)
      BY DEF Tally
    <3> QED BY <1>2, <2>2, <3>1
  <2>4. /\ sends'[j] <= Tally(j)'
        /\ worker'[w].pc \in {"read", "pref", "skip", "send"} => sends'[j] < Tally(j)'
    <3>1. worker'[w].pc \in {"read", "pref", "skip", "send"} =>
             worker[w].pc \in {"read", "pref"} /\ sends' = sends
      BY <1>2 DEF Outcome, Refreshing
    <3>2. worker[w].pc = "send" => sends'[j] <= sends[j] + 1
      BY <1>2, <1>5 DEF Outcome, Refreshing, TypeOK
    <3>3. worker[w].pc \in {"read", "pref", "skip", "send"} => sends[j] < Tally(j)
      BY <1>1 DEF Counted
    <3>4. sends[j] <= Tally(j)
      BY DEF Counted
    <3>5. sends'[j] \in Nat
      BY DEF TypeOK
    <3> QED BY <1>5, <2>2, <2>3, <3>1, <3>2, <3>3, <3>4, <3>5
  <2>5. \A v \in Workers \ {w} : worker'[v] = worker[v] /\ j \notin worker[v].job
                                   /\ worker[v].job \subseteq Jobs
    BY <1>1, <1>2 DEF Frame, Holding, TypeOK
  <2>6. worker'[w].job \subseteq {j}
    BY <1>2 DEF Frame
  <2> QED BY <2>1, <2>4, <2>5, <2>6 DEF Counted
<1>8. /\ \A v \in Workers \ {w} : worker'[v] = worker[v]
      /\ \A k \in Jobs \ {j} : sends'[k] = sends[k]
      /\ \A c \in Deliveries \ {d} : delivery'[c] = delivery[c] /\ j \notin JobsFor(c)
      /\ j \in JobsFor(d) /\ doubtful \subseteq doubtful'
  BY <1>1, <1>2 DEF Frame, JobsFor
<1>9. Sole'
  BY <1>4, <1>8 DEF Sole
\* Deliveries of others.
<1>10. ASSUME NEW c \in Deliveries \ doubtful', c # d
       PROVE  /\ \A k \in JobsFor(c) : sends'[k] = sends[k]
              /\ delivery'[c] = delivery[c] /\ c \notin doubtful
              /\ \A v \in Workers : Works(v, c)' <=> Works(v, c) /\ v # w
  BY <1>4, <1>8, <1>10 DEF JobsFor
\* The delivery of this run, when it is not in doubt.
<1>11. ASSUME d \notin doubtful'
       PROVE  \A v \in Workers : Works(v, d) => v = w
  BY <1>4, <1>8, <1>11 DEF Sole
<1>12. ASSUME d \notin doubtful', worker[w].pc = "read", delivery[d] \notin AlreadyHandled
       PROVE  \A k \in JobsFor(d) : sends[k] = 0
  <2>1. d \notin doubtful /\ \A k \in JobsFor(d) : sends[k] \in Nat
    BY <1>8, <1>12 DEF JobsFor, TypeOK
  <2> QED BY <1>11, <1>12, <2>1 DEF Told, AlreadyHandled
<1>13. ASSUME d \notin doubtful', worker'[w].pc # "idle"
       PROVE  /\ worker'[w].pc \in {"pref", "skip", "send", "markSent", "markFailed"} =>
                     delivery'[d] \notin AlreadyHandled
              /\ worker'[w].pc \in {"pref", "skip", "send", "markFailed"} =>
                     \A k \in JobsFor(d) : sends'[k] = 0
  BY <1>2, <1>4, <1>8, <1>12, <1>13 DEF Outcome, Unhandled, Refreshing
<1>14. Unhandled'
  BY <1>3, <1>4, <1>8, <1>10, <1>11, <1>13 DEF Unhandled
<1>15. Told'
  <2>1. ASSUME NEW c \in Deliveries \ doubtful', c # d, NEW k \in JobsFor(c), sends'[k] > 0
        PROVE  /\ sends'[k] = 1 /\ \A i \in JobsFor(c) : sends'[i] > 0 => i = k
               /\ \/ delivery'[c] = "SENT"
                  \/ \E v \in Workers : worker'[v].pc = "markSent" /\ Works(v, c)'
    BY <1>4, <1>8, <1>10, <2>1 DEF Told
  <2>2. ASSUME d \notin doubtful', NEW k \in JobsFor(d), sends'[k] > 0
        PROVE  /\ sends'[k] = 1 /\ \A i \in JobsFor(d) : sends'[i] > 0 => i = k
               /\ \/ delivery'[d] = "SENT"
                  \/ \E v \in Workers : worker'[v].pc = "markSent" /\ Works(v, d)'
    <3>0. d \notin doubtful
      BY <1>8, <2>2
    <3>1. CASE worker[w].pc = "send" /\ worker'[w].pc = "markSent"
      <4>1. /\ \A i \in JobsFor(d) : sends[i] = 0
            /\ sends'[j] \in {0, 1}
        BY <1>2, <1>4, <1>8, <3>0, <3>1 DEF Unhandled, Outcome, Refreshing
      <4> QED BY <1>4, <1>8, <2>2, <3>1, <4>1 DEF JobsFor
    <3>2. CASE sends' = sends /\ worker[w].pc = "markSent"
      BY <1>2, <2>2, <3>0, <3>2 DEF Told, Outcome, Refreshing
    <3>3. CASE sends' = sends /\ worker[w].pc # "markSent"
      <4>1. delivery[d] = "SENT"
        BY <1>11, <2>2, <3>0, <3>3 DEF Told
      <4>2. worker[w].pc \notin {"skip", "markFailed"}
        BY <1>4, <3>0, <4>1 DEF Unhandled, AlreadyHandled
      <4>3. delivery'[d] = "SENT"
        BY <1>2, <3>3, <4>1, <4>2 DEF Outcome
      <4> QED BY <2>2, <3>0, <3>3, <4>3 DEF Told
    <3>4. sends' = sends \/ (worker[w].pc = "send" /\ worker'[w].pc = "markSent")
      BY <1>2 DEF Outcome, Refreshing
    <3> QED BY <3>1, <3>2, <3>3, <3>4
  <2> QED BY <1>3, <2>1, <2>2 DEF Told
<1>16. \A k \in Jobs : sends[k] > 0 => sends'[k] > 0
  BY <1>5, <1>8 DEF TypeOK
<1>17. HandedOver'
  <2>1. ASSUME d \notin InApp, worker'[w].pc = "markSent" PROVE sends'[j] > 0
    BY <1>2, <1>5, <2>1 DEF Outcome, Refreshing
  <2> QED BY <1>1, <1>3, <1>4, <1>8, <1>16, <2>1 DEF HandedOver, JobsFor
<1>18. SentWasSent'
  <2>1. \A c \in Deliveries : delivery'[c] = "SENT" =>
           delivery[c] = "SENT" \/ (c = d /\ worker[w].pc = "markSent")
    BY <1>2, <1>8 DEF Outcome
  <2> QED BY <1>3, <1>4, <1>16, <2>1 DEF SentWasSent, HandedOver, JobsFor
<1>19. Fresh'
  <2>1. WorkerStep(w)
    BY WorkerFrame DEF Process
  <2>2. event' # "ABSENT"
    BY <1>0, <2>1 DEF WorkerStep, Existing, Computed
  <2> QED BY <2>2 DEF Fresh
<1> QED BY <1>6, <1>7, <1>9, <1>14, <1>15, <1>17, <1>18, <1>19

LEMMA NextSInv == SInv /\ [Next]_vars => SInv'
<1> SUFFICES ASSUME SInv, [Next]_vars PROVE SInv'
  OBVIOUS
<1>0. CInv'
  BY NextCInv DEF SInv
<1>1. CASE UNCHANGED vars
  BY <1>0, <1>1 DEF vars, SInv, Carried, Counted, Tally, Sole, Unhandled, Told, HandedOver,
                    SentWasSent, Fresh, Works, JobsFor
<1> QED BY <1>0, <1>1, EmitSInv, TakeSInv, RunSInv DEF Next, Process

LEMMA SInvAlways == Spec => []SInv
  BY InitSInv, NextSInv, PTL DEF Spec

\* A delivery is marked SENT only after its provider accepted the message, with
\* any number of workers, retries and stalls.
THEOREM SentOnlyIfSent == Spec => []SentWasSent
<1>1. SInv => SentWasSent
  BY DEF SInv
<1> QED BY <1>1, SInvAlways, PTL

\* A job sends no more messages than it has been run, and the user gets a message
\* once unless two runs of it overlapped or one could not say that it had sent it.
THEOREM OneMessageUnlessInDoubt == Spec => []SentAgainOnlyByRetry
<1>1. SInv => SentAgainOnlyByRetry
  <2> SUFFICES ASSUME SInv PROVE SentAgainOnlyByRetry
    OBVIOUS
  <2>1. \A j \in Jobs : sends[j] \in Nat
    BY DEF SInv, CInv, TInv, TypeOK
  <2>2. \A j \in Jobs :
           sends[j] <= job[j].attempts + job[j].stalls
                         + IF job[j].state \in {"active", "ended"} THEN 1 ELSE 0
    BY DEF SInv, Counted, Tally
  <2>3. ASSUME NEW d \in Deliveries \ doubtful, NEW j \in JobsFor(d), NEW k \in JobsFor(d)
        PROVE  sends[j] <= 1 /\ (sends[j] > 0 /\ sends[k] > 0 => j = k)
    BY <2>1, <2>3 DEF SInv, Told, JobsFor
  <2> QED BY <2>2, <2>3 DEF SentAgainOnlyByRetry
<1> QED BY <1>1, SInvAlways, PTL

\* A delivery that was sent or skipped stays so, unless it is in doubt.
THEOREM OutcomesAreFinal == Spec => HandledIsFinal
<1>1. SInv /\ [Next]_vars =>
        \A d \in Deliveries \ doubtful' :
            delivery[d] \in AlreadyHandled => delivery'[d] = delivery[d]
  <2> SUFFICES ASSUME SInv, [Next]_vars, NEW d \in Deliveries \ doubtful',
                      delivery[d] \in AlreadyHandled, delivery'[d] # delivery[d]
               PROVE  FALSE
    OBVIOUS
  <2>1. ASSUME NEW e \in Emitters, Emit(e) \/ EmitterLost(e) PROVE FALSE
    <3>1. event = "ABSENT"
      BY <2>1 DEF Emit, FindEvent, CreateEvent, ListPending, AddJob, EmitterLost
    <3> QED BY <3>1 DEF SInv, Fresh, AlreadyHandled
  <2>2. ASSUME NEW w \in Workers, Run(w) \/ Stall(w) PROVE FALSE
    <3>0. worker[w].pc # "idle"
      BY <2>2 DEF Run, ReadDelivery, ReadPreference, MarkSkipped, SendMessage, MarkSent,
                  MarkFailed, RefreshRead, RefreshWrite, Stall
    <3>1. PICK j \in Jobs, c \in Deliveries :
             /\ worker[w].job = {j} /\ job[j].delivery = {c} /\ job[j].state = "active"
             /\ DeliveryOf(w) = {c}
      BY <3>0, Holds DEF SInv, CInv
    <3>2. Frame(w, j, c) /\ Outcome(w, j, c)
      BY <2>2, <3>1, RunSteps DEF SInv, CInv
    <3>3. c = d /\ d \notin doubtful /\ Works(w, d)
      BY <3>1, <3>2 DEF Frame, Works
    <3>4. worker[w].pc \in {"skip", "markSent", "markFailed"}
      BY <3>2, <3>3 DEF Outcome
    <3> QED BY <3>3, <3>4 DEF SInv, Unhandled
  <2>3. ASSUME NEW w \in Workers, NEW j \in Jobs, TakeJob(w, j) PROVE FALSE
    BY <2>3 DEF TakeJob
  <2> QED BY <2>1, <2>2, <2>3 DEF Next, Process, vars
<1> QED BY <1>1, SInvAlways, PTL DEF Spec, HandledIsFinal

-----------------------------------------------------------------------------
\* As long as runs have not raced there is one at most, and while the event does
\* not tell what its deliveries do, that run is about to refresh it.
Alone == ~raced => \A v, w \in Workers : worker[v].pc # "idle" /\ worker[w].pc # "idle" => v = w

Reflected ==
    ~raced =>
      /\ event \in {"ABSENT", Aggregate} \/ \E w \in Workers : worker[w].pc \in Refreshing
      /\ \A w \in Workers : worker[w].pc \in {"write", "writeThenFail"} =>
             worker[w].next = Aggregate

RInv == CInv /\ Alone /\ Reflected

\* What a step of a worker does to the event and to what it is computed from.
ReflectStep(w) ==
    /\ \A v \in Workers \ {w} : worker'[v] = worker[v]
    /\ ~raced' => ~raced /\ (worker[w].pc = "idle" => Quiet)
    /\ \/ event' = event
       \/ worker[w].pc \in {"write", "writeThenFail"} /\ event' = worker[w].next
    /\ delivery' = delivery \/ worker'[w].pc \in {"refresh", "refreshThenFail"}
    /\ worker'[w].pc \in {"write", "writeThenFail"} =>
           worker'[w].next = Aggregate /\ delivery' = delivery
    /\ worker[w].pc \in Refreshing /\ worker'[w].pc \notin Refreshing =>
           \/ raced'
           \/ worker[w].pc \in {"write", "writeThenFail"} /\ event' = worker[w].next

LEMMA WorkerReflects ==
  ASSUME TInv, NEW w \in Workers, Process(w) \/ Stall(w)
  PROVE  ReflectStep(w)
<1> USE DEF TInv, TypeOK
<1>1. ASSUME NEW j \in Jobs, TakeJob(w, j) PROVE ReflectStep(w)
  BY <1>1 DEF TakeJob, ReflectStep, Refreshing
<1>2. ASSUME NEW pc \in WorkerPc \ {"write", "writeThenFail"}, Goto(w, pc),
             worker[w].pc \notin Refreshing, worker[w].pc # "idle", UNCHANGED <<event, raced>>,
             delivery' = delivery \/ pc \in {"refresh", "refreshThenFail"}
      PROVE  ReflectStep(w)
  BY <1>2 DEF Goto, ReflectStep, Refreshing
<1>3. CASE ReadDelivery(w)
  <2>1. CASE EndJob(w)
    BY <1>3, <2>1 DEF ReadDelivery, EndJob, ReflectStep, Refreshing, history
  <2>2. CASE Goto(w, "pref")
    BY <1>2, <1>3, <2>2 DEF ReadDelivery, Refreshing, history
  <2> QED BY <1>3, <2>1, <2>2 DEF ReadDelivery
<1>4. CASE ReadPreference(w)
  BY <1>2, <1>4 DEF ReadPreference, Refreshing, history
<1>5. CASE MarkSkipped(w)
  BY <1>2, <1>5 DEF MarkSkipped, Refreshing, history
<1>6. CASE SendMessage(w)
  BY <1>2, <1>6 DEF SendMessage, Refreshing, history
<1>7. CASE MarkSent(w)
  BY <1>2, <1>7 DEF MarkSent, Refreshing
<1>8. CASE MarkFailed(w)
  BY <1>2, <1>8 DEF MarkFailed, Refreshing, history
<1>9. CASE RefreshRead(w)
  BY <1>9 DEF RefreshRead, ReflectStep, Refreshing, history
<1>10. CASE RefreshWrite(w)
  <2>1. /\ \A v \in Workers \ {w} : worker'[v] = worker[v]
        /\ worker'[w].pc = "idle"
    BY <1>10, ReleaseFrame DEF RefreshWrite
  <2> QED BY <1>10, <2>1 DEF RefreshWrite, ReflectStep, Refreshing, history
<1>11. CASE Stall(w)
  <2>1. /\ \A v \in Workers \ {w} : worker'[v] = worker[v]
        /\ worker'[w].pc = "idle"
    BY <1>11, ReleaseFrame
  <2>2. (~raced' => ~raced) /\ (worker[w].pc \in Refreshing => raced')
    BY <1>11 DEF Stall
  <2> QED BY <1>11, <2>1, <2>2 DEF Stall, ReflectStep, Refreshing
<1> QED BY <1>1, <1>3, <1>4, <1>5, <1>6, <1>7, <1>8, <1>9, <1>10, <1>11 DEF Process, Run

LEMMA NextRInv == RInv /\ [Next]_vars => RInv'
<1> SUFFICES ASSUME RInv, [Next]_vars PROVE Alone' /\ Reflected'
  BY NextCInv DEF RInv
<1> USE DEF RInv
<1>1. CASE UNCHANGED vars
  BY <1>1 DEF vars, Alone, Reflected, Aggregate, Pending, Failed
<1>2. ASSUME NEW e \in Emitters, Emit(e) \/ EmitterLost(e) PROVE Alone' /\ Reflected'
  <2>1. UNCHANGED <<worker, raced>>
    BY <1>2 DEF Emit, FindEvent, CreateEvent, ListPending, AddJob, EmitterLost, history
  <2>2. CASE UNCHANGED <<event, delivery>>
    BY <2>1, <2>2 DEF Alone, Reflected, Aggregate, Pending, Failed
  <2>3. CASE event = "ABSENT" /\ event' = "PENDING" /\ delivery' = [d \in Deliveries |-> "PENDING"]
    <3>1. Aggregate' = "PENDING"
      BY <2>3, ConstantsAssumption DEF Aggregate, Pending
    <3>2. \A w \in Workers : worker[w].pc = "idle"
      BY <2>3 DEF CInv, Existing
    <3> QED BY <2>1, <2>3, <3>1, <3>2 DEF Alone, Reflected
  <2> QED BY <1>2, <2>2, <2>3 DEF Emit, FindEvent, CreateEvent, ListPending, AddJob, EmitterLost
<1>3. ASSUME NEW w \in Workers, Process(w) \/ Stall(w) PROVE Alone' /\ Reflected'
  <2>1. ReflectStep(w)
    BY <1>3, WorkerReflects DEF CInv
  <2>2. CASE raced'
    BY <2>2 DEF Alone, Reflected
  <2>3. CASE ~raced'
    <3>1. ~raced /\ \A v \in Workers \ {w} : worker[v].pc = "idle" /\ worker'[v].pc = "idle"
      BY <2>1, <2>3 DEF ReflectStep, Alone, Quiet
    <3>2. delivery' = delivery => Aggregate' = Aggregate
      BY DEF Aggregate, Pending, Failed
    <3>3. worker[w].pc \in {"write", "writeThenFail"} => worker[w].next = Aggregate
      BY <3>1 DEF Reflected
    <3>4. CASE worker'[w].pc \in Refreshing
      BY <2>1, <3>1, <3>2, <3>4 DEF ReflectStep, Alone, Reflected, Refreshing
    <3>5. CASE worker'[w].pc \notin Refreshing
      <4>1. Aggregate' = Aggregate /\ worker'[w].pc \notin {"write", "writeThenFail"}
        BY <2>1, <3>2, <3>5 DEF ReflectStep, Refreshing
      <4>2. event' \in {"ABSENT", Aggregate}
        <5>1. CASE worker[w].pc \in Refreshing
          BY <2>1, <2>3, <3>3, <3>5, <5>1 DEF ReflectStep
        <5>2. CASE worker[w].pc \notin Refreshing
          BY <2>1, <3>1, <5>2 DEF ReflectStep, Reflected, Refreshing
        <5> QED BY <5>1, <5>2
      <4> QED BY <3>1, <4>1, <4>2 DEF Alone, Reflected
    <3> QED BY <3>4, <3>5
  <2> QED BY <2>2, <2>3
<1> QED BY <1>1, <1>2, <1>3 DEF Next

\* When nobody is at work the event tells what its deliveries do, as long as no
\* two runs have overlapped and none has stopped between its mark and its refresh.
THEOREM EventFollowsDeliveries == Spec => []EventReflectsDeliveries
<1>1. Init => RInv
  <2>1. Init => Alone /\ Reflected
    BY DEF Init, Alone, Reflected
  <2> QED BY <2>1, InitCInv DEF RInv
<1>2. RInv => EventReflectsDeliveries
  BY DEF RInv, Reflected, EventReflectsDeliveries, Quiet, Refreshing
<1> QED BY <1>1, <1>2, NextRInv, PTL DEF Spec

-----------------------------------------------------------------------------
(***************************************************************************)
(* The WhatsApp webhook.  Whatever handles a message has passed over none  *)
(* of its payload that goes unanswered (PassedMessages).  Each delivery is *)
(* acknowledged, fails or is under way (Delivered), and stores the rows of *)
(* a message once at most: what the deliveries under way may still store   *)
(* is counted with what has been stored (RowsCounted), and likewise a      *)
(* reply taken and not yet recorded (Recorded).  Unless a user's messages  *)
(* have crossed, one at a time is in hand, and it carries the task he has  *)
(* opened last to the session (Following).                                 *)
(***************************************************************************)
Texting(h) ==
    /\ h.i <= Len(payload[h.p].messages) /\ h.m = payload[h.p].messages[h.i]
    /\ h.pc # "receive" => h.m.name # "NOT_TEXT" /\ h.m.from \in Phone
    /\ h.pc = "perform" =>
          /\ h.m.name \notin Reading
          /\ h.m.name = "EXPENSE_APPLY" => h.task \in Topic

Shaped(h) ==
    /\ h.kind = "none" <=> h.pc = "idle"
    /\ h.kind = "test" => h.pc \in {"execute", "perform"}
    /\ h.kind = "template" => h.pc \in {"reply", "record"}
    /\ h.kind = "webhook" => Texting(h)

HandlerShape == \A c \in Handler : Shaped(handler[c])

Settled(p, i) ==
    \/ replied[<<p, i>>] > 0
    \/ payload[p].messages[i].name = "NOT_TEXT"
    \/ payload[p].messages[i].from \notin subscribed

PassedOver(h) ==
    h.kind = "webhook" =>
        /\ \A i \in 1..MaxLen : i < h.i => Settled(h.p, i)
        /\ h.pc \in {"record", "save"} => replied[<<h.p, h.i>>] > 0

PassedMessages == \A c \in Handler : PassedOver(handler[c])

Delivered ==
    \A p \in Payload :
        /\ payload[p].tries <= broken[p] + 1
        /\ payload[p].acked \/ payload[p].tries <= broken[p]
              \/ \E c \in Handler : InWebhook(c) /\ handler[c].p = p

\* Whether a handler may still store the rows of message i of payload p.
Owing(h, p, i) ==
    /\ h.kind = "webhook" /\ h.p = p
    /\ \/ h.i < i
       \/ h.i = i /\ (h.pc \in {"reply", "record", "save"} => h.m.name = "UNKNOWN")

Owed(p, i) == {c \in Handler : Owing(handler[c], p, i)}

RowsCounted ==
    \A p \in Payload, i \in 1..MaxLen :
        written[<<p, i>>] + Cardinality(Owed(p, i)) <= payload[p].tries

Unrecorded == {c \in Handler : handler[c].pc = "record"}

Recorded == outbox.recorded + Cardinality(Unrecorded) <= outbox.sent

\* What a message in hand carries: l is the task its sender has opened last, s his session.
Carries(h, l, s) ==
    /\ h.pc \in {"store", "execute", "perform"} => h.task = l /\ (s.fresh => s.task = l)
    /\ h.pc = "execute" => h.open = l
    /\ h.pc = "perform" => h.open = IF h.m.name \in Opening THEN h.m.task ELSE l
    /\ h.pc \in {"reply", "record", "save"} => h.open = l

Following ==
    \A c \in Handler : InHand(c) /\ Sender(c) \notin crossed =>
        /\ Carries(handler[c], last[Sender(c)], session[Sender(c)])
        /\ \A d \in Handler : InHand(d) /\ Sender(d) = Sender(c) => d = c

WhatsAppInv ==
    /\ WhatsAppTypeOK /\ HandlerShape /\ AnsweredBeforeAcked /\ PassedMessages /\ Delivered
    /\ RowsCounted /\ Recorded /\ Following /\ ContextFollowsUser

LEMMA Longest == MaxLen \in Nat /\ MaxLen > 0 /\ \A b \in Batch : Len(b) \in 1..MaxLen
<1>1. \A b \in Batch : b \in Seq(Message) /\ Len(b) \in Nat /\ Len(b) > 0
  BY WhatsAppAssumption
<1>2. PICK o \in Batch : \A b \in Batch : Len(b) <= Len(o)
  BY WhatsAppAssumption
<1>3. \E n \in {Len(b) : b \in Batch} : \A b \in Batch : Len(b) <= n
  BY <1>2
<1>4. MaxLen \in {Len(b) : b \in Batch} /\ \A b \in Batch : Len(b) <= MaxLen
  BY <1>3 DEF MaxLen
<1> QED BY <1>1, <1>4

\* What the provider has delivered.
LEMMA Delivering ==
  ASSUME WhatsAppTypeOK, NEW p \in Payload
  PROVE  /\ payload[p].messages \in Seq(Message) /\ Len(payload[p].messages) \in 1..MaxLen
         /\ \A i \in 1..Len(payload[p].messages) :
               payload[p].messages[i] \in Message /\ i \in 1..MaxLen /\ <<p, i>> \in Position
<1>1. payload[p].messages \in Batch
  BY DEF WhatsAppTypeOK
<1>2. payload[p].messages \in Seq(Message) /\ Len(payload[p].messages) \in 1..MaxLen /\ MaxLen \in Nat
  BY <1>1, Longest, WhatsAppAssumption
<1> QED BY <1>2 DEF Position

LEMMA AtRestIs ==
  /\ AtRest \in HandlerRecord /\ AtRest.kind = "none" /\ AtRest.pc = "idle" /\ Shaped(AtRest)
  /\ \A p, i : ~Owing(AtRest, p, i)
<1>1. AnyPayload \in Payload
  BY WhatsAppAssumption DEF AnyPayload
<1>2. 1 \in 1..MaxLen
  BY Longest
<1> QED
  BY <1>1, <1>2 DEF AtRest, HandlerRecord, Message, SessionState, Topics, Shaped, Owing

LEMMA BeginIs ==
  ASSUME WhatsAppTypeOK, NEW c \in Handler, NEW p \in Payload, NEW i \in 1..Len(payload[p].messages)
  PROVE  LET x == BeginMessage(c, p, i)
         IN  /\ x \in HandlerRecord /\ Shaped(x) /\ x.kind = "webhook" /\ x.pc = "receive"
             /\ x.p = p /\ x.i = i /\ x.m = payload[p].messages[i]
<1>1. payload[p].messages[i] \in Message /\ i \in 1..MaxLen
  BY Delivering
<1>2. AtRest \in HandlerRecord
  BY AtRestIs
<1> DEFINE x == BeginMessage(c, p, i)
<1>3. /\ x \in HandlerRecord /\ x.kind = "webhook" /\ x.pc = "receive"
      /\ x.p = p /\ x.i = i /\ x.m = payload[p].messages[i]
  BY <1>1, <1>2 DEF BeginMessage, HandlerRecord
<1> HIDE DEF x
<1>4. Shaped(x)
  BY <1>3 DEF Shaped, Texting
<1> QED
  BY <1>3, <1>4 DEF x

\* A handler that goes on to the statement pc.
LEMMA StepIs ==
  ASSUME WhatsAppTypeOK, NEW c \in Handler, 
         NEW pc \in {"receive", "admit", "store", "execute", "perform", "reply", "record", "save"}
  PROVE  LET x == Step(c, pc)
         IN  /\ x \in HandlerRecord /\ x.pc = pc /\ x.kind = handler[c].kind /\ x.p = handler[c].p
             /\ x.i = handler[c].i /\ x.m = handler[c].m /\ x.task = handler[c].task
             /\ x.open = handler[c].open /\ x.state = handler[c].state /\ x.next = handler[c].next
             /\ x.found = handler[c].found
<1>1. handler[c] \in HandlerRecord
  BY DEF WhatsAppTypeOK
<1> QED
  BY <1>1 DEF Step, HandlerRecord

LEMMA Goes ==
  ASSUME WhatsAppTypeOK, NEW c \in Handler, NEW x, Go(c, x)
  PROVE  /\ handler'[c] = x /\ \A d \in Handler \ {c} : handler'[d] = handler[d]
         /\ x \in HandlerRecord => handler' \in [Handler -> HandlerRecord]
  BY DEF WhatsAppTypeOK, Go

\* What a message that is handled is, and where.
LEMMA HandlerIs ==
  ASSUME WhatsAppTypeOK, HandlerShape, NEW c \in Handler
  PROVE  /\ handler[c] \in HandlerRecord /\ Shaped(handler[c])
         /\ handler[c].p \in Payload /\ handler[c].i \in 1..MaxLen /\ MaxLen \in Nat
         /\ Here(c) \in Position /\ handler[c].m \in Message
         /\ handler[c].kind = "webhook" => 
               /\ handler[c].i \in 1..Len(payload[handler[c].p].messages)
               /\ handler[c].m = payload[handler[c].p].messages[handler[c].i]
<1>1. handler[c] \in HandlerRecord /\ Shaped(handler[c])
  BY DEF WhatsAppTypeOK, HandlerShape
<1>2. handler[c].p \in Payload /\ handler[c].i \in 1..MaxLen
  BY <1>1 DEF HandlerRecord
<1>3. handler[c].kind = "webhook" =>
        /\ handler[c].i \in 1..Len(payload[handler[c].p].messages)
        /\ handler[c].m = payload[handler[c].p].messages[handler[c].i]
  BY <1>1, <1>2, Delivering, Longest DEF Shaped, Texting
<1> QED
  BY <1>1, <1>2, <1>3, Longest DEF Here, Position, HandlerRecord

-----------------------------------------------------------------------------
\* What a command comes to before it writes.
LEMMA OutcomesAre ==
  ASSUME WhatsAppTypeOK, HandlerShape, NEW c \in Handler, handler[c].pc = "execute", NEW r \in Outcomes(c)
  PROVE  \/ r = AtRest /\ handler[c].kind # "webhook"
         \/ /\ r \in HandlerRecord /\ Shaped(r) /\ r.pc \in {"reply", "perform"}
            /\ r.kind = handler[c].kind /\ r.p = handler[c].p /\ r.i = handler[c].i
            /\ r.m = handler[c].m /\ r.task = handler[c].task
            /\ r.pc = "reply" => /\ r.kind = "webhook"
                                 /\ r.open = IF r.m.name = "TASK_DETAIL" /\ r.m.task \in assigned
                                             THEN r.m.task ELSE handler[c].open
            /\ r.pc = "perform" => /\ r.open = IF r.m.name \in Opening THEN r.m.task ELSE handler[c].open
                                   /\ r.m.name # "TASK_DETAIL"
<1> DEFINE h == handler[c]
<1>0. h \in HandlerRecord /\ Shaped(h) /\ h.m \in Message /\ h.kind \in {"webhook", "test"}
  BY HandlerIs DEF Shaped, HandlerRecord
<1>1. h.kind = "webhook" => Texting(h)
  BY <1>0 DEF Shaped
<1>2. ASSUME NEW s \in SessionState, NEW t \in Topics,
             t = IF h.m.name = "TASK_DETAIL" /\ h.m.task \in assigned THEN h.m.task ELSE h.open,
             r = Answer(c, s, t)
      PROVE  \/ r = AtRest /\ h.kind # "webhook"
             \/ /\ r \in HandlerRecord /\ Shaped(r) /\ r.pc = "reply"
                /\ r.kind = h.kind /\ r.p = h.p /\ r.i = h.i /\ r.m = h.m /\ r.task = h.task
                /\ r.kind = "webhook" /\ r.open = t
  <2>1. CASE h.kind # "webhook"
    BY <1>2, <2>1 DEF Answer, InWebhook
  <2>2. CASE h.kind = "webhook"
    <3>1. r = [Step(c, "reply") EXCEPT !.next = s, !.open = t]
      BY <1>2, <2>2 DEF Answer, InWebhook
    <3>2. /\ r \in HandlerRecord /\ r.pc = "reply" /\ r.kind = h.kind /\ r.p = h.p /\ r.i = h.i
          /\ r.m = h.m /\ r.task = h.task /\ r.open = t
      <4>1. PICK k \in HandlerRecord : k = Step(c, "reply")
        BY StepIs
      <4>2. r = [k EXCEPT !.next = s, !.open = t]
        BY <3>1, <4>1
      <4>3. /\ k.pc = "reply" /\ k.kind = h.kind /\ k.p = h.p /\ k.i = h.i
            /\ k.m = h.m /\ k.task = h.task
        BY <4>1, StepIs
      <4> QED BY <1>2, <4>1, <4>2, <4>3 DEF HandlerRecord
    <3>3. Shaped(r)
      BY <1>1, <2>2, <3>2 DEF Shaped, Texting
    <3> QED BY <2>2, <3>2, <3>3
  <2> QED BY <2>1, <2>2
<1>3. h.next \in SessionState /\ h.open \in Topics /\ h.m.task \in Topics
  BY <1>0 DEF HandlerRecord, Message, Topics
<1>4. ASSUME r = Step(c, "perform"), h.m.name \notin Reading \cup Opening,
             h.m.name = "EXPENSE_APPLY" => h.task \in Topic
      PROVE  /\ r \in HandlerRecord /\ Shaped(r) /\ r.pc = "perform"
             /\ r.kind = h.kind /\ r.p = h.p /\ r.i = h.i /\ r.m = h.m /\ r.task = h.task
             /\ r.open = h.open /\ r.m.name \notin Opening
  <2>1. /\ r \in HandlerRecord /\ r.pc = "perform" /\ r.kind = h.kind /\ r.p = h.p /\ r.i = h.i
        /\ r.m = h.m /\ r.task = h.task /\ r.open = h.open
    BY <1>4, StepIs
  <2>2. Shaped(r)
    BY <1>0, <1>1, <1>4, <2>1 DEF Shaped, Texting
  <2> QED BY <1>4, <2>1, <2>2
<1>5. ASSUME r = Opened(c), h.m.name \in Opening \ {"TASK_DETAIL"}
      PROVE  /\ r \in HandlerRecord /\ Shaped(r) /\ r.pc = "perform"
             /\ r.kind = h.kind /\ r.p = h.p /\ r.i = h.i /\ r.m = h.m /\ r.task = h.task
             /\ r.open = h.m.task
  <2>1. "ACTIVE" \in SessionState
    BY DEF SessionState
  <2>2. /\ r \in HandlerRecord /\ r.pc = "perform" /\ r.kind = h.kind /\ r.p = h.p /\ r.i = h.i
        /\ r.m = h.m /\ r.task = h.task /\ r.open = h.m.task
    <3>1. PICK k \in HandlerRecord : k = Step(c, "perform")
      BY StepIs
    <3>2. r = [k EXCEPT !.next = "ACTIVE", !.open = h.m.task]
      BY <1>5, <3>1 DEF Opened
    <3>3. /\ k.pc = "perform" /\ k.kind = h.kind /\ k.p = h.p /\ k.i = h.i
          /\ k.m = h.m /\ k.task = h.task
      BY <3>1, StepIs
    <3> QED BY <1>3, <2>1, <3>1, <3>2, <3>3 DEF HandlerRecord
  <2>3. h.m.name \notin Reading /\ h.m.name # "EXPENSE_APPLY"
    BY <1>5 DEF Opening, Reading
  <2>4. Shaped(r)
    BY <1>0, <1>1, <2>2, <2>3 DEF Shaped, Texting
  <2> QED BY <2>2, <2>4
<1>6. assigned \subseteq Topic
  BY DEF WhatsAppTypeOK
<1>7. "ACTIVE" \in SessionState /\ "AWAITING_CONFIRMATION" \in SessionState
  BY DEF SessionState
<1>8. CASE r = StayOpen(c) /\ ~(h.m.name = "TASK_DETAIL" /\ h.m.task \in assigned)
  <2>1. r = Answer(c, h.next, h.open)
    BY <1>8 DEF StayOpen
  <2> QED BY <1>2, <1>3, <1>8, <2>1
<1>9. CASE h.m.name = "TASK_DETAIL" /\ h.m.task \in assigned
  <2>1. r = Answer(c, "ACTIVE", h.m.task)
    BY <1>9 DEF Outcomes, Report, ShowTask, ChangeTask, Punch, Apply, Spend, DecideLeave, Reading, Opening, Deciding
  <2> QED BY <1>2, <1>3, <1>7, <1>9, <2>1
<1>10. CASE r # StayOpen(c) /\ h.m.name # "TASK_DETAIL"
  <2>1. \/ r = Opened(c) /\ h.m.name \in Opening \ {"TASK_DETAIL"}
        \/ /\ r = Step(c, "perform") /\ h.m.name \notin Reading \cup Opening
           /\ h.m.name = "EXPENSE_APPLY" => h.task \in assigned
        \/ r = Answer(c, "AWAITING_CONFIRMATION", h.open)
    BY <1>10 DEF Outcomes, Report, ShowTask, ChangeTask, Punch, Apply, Spend, DecideLeave, Reading, Opening, Deciding
  <2>2. CASE r = Opened(c) /\ h.m.name \in Opening \ {"TASK_DETAIL"}
    BY <1>5, <2>2
  <2>3. CASE /\ r = Step(c, "perform") /\ h.m.name \notin Reading \cup Opening
             /\ h.m.name = "EXPENSE_APPLY" => h.task \in assigned
    BY <1>4, <1>6, <2>3 DEF Opening
  <2>4. CASE r = Answer(c, "AWAITING_CONFIRMATION", h.open)
    BY <1>2, <1>3, <1>7, <1>10, <2>4
  <2> QED BY <2>1, <2>2, <2>3, <2>4
<1>11. CASE r # StayOpen(c) /\ h.m.name = "TASK_DETAIL" /\ h.m.task \notin assigned
  BY <1>11 DEF Outcomes, Report, ShowTask, ChangeTask, Punch, Apply, Spend, DecideLeave, Reading, Opening, Deciding
<1> QED BY <1>8, <1>9, <1>10, <1>11

-----------------------------------------------------------------------------
(* What a step does, where the record of handler c becomes x: to the counts  *)
(* of the deliveries and of the rows, to what has been answered, and to what *)
(* the user's session is about.                                              *)

Of(h, p) == h.kind = "webhook" /\ h.p = p

\* The delivery goes on, fails, is acknowledged, or begins.
RowsTally(c, x, p) ==
    \/ payload'[p] = payload[p] /\ broken'[p] = broken[p] /\ (Of(handler[c], p) => Of(x, p))
    \/ payload'[p] = payload[p] /\ broken'[p] = broken[p] + 1 /\ Of(handler[c], p)
    \/ payload'[p].tries = payload[p].tries /\ payload'[p].acked /\ broken'[p] = broken[p]
    \/ /\ ~payload[p].acked /\ payload'[p].tries = payload[p].tries + 1 /\ Of(x, p)
       /\ handler[c].kind = "none"
       /\ IF \E d \in Handler : Of(handler[d], p)
          THEN broken'[p] = broken[p] + 1 ELSE broken'[p] = broken[p]

\* Nothing is stored, or a handler that owes the rows stores them.
Rows(c, x, p, i) ==
    \/ /\ written'[<<p, i>>] = written[<<p, i>>] /\ payload'[p].tries = payload[p].tries
       /\ Owing(x, p, i) => Owing(handler[c], p, i)
    \/ written'[<<p, i>>] = written[<<p, i>>] /\ payload'[p].tries = payload[p].tries + 1
    \/ /\ written'[<<p, i>>] = written[<<p, i>>] + 1 /\ payload'[p].tries = payload[p].tries
       /\ Owing(handler[c], p, i) /\ ~Owing(x, p, i)

\* Nothing is sent, a reply is sent, or one that was is recorded.
Taken(c, x) ==
    \/ outbox' = outbox /\ (x.pc = "record" => handler[c].pc = "record")
    \/ outbox'.sent = outbox.sent + 1 /\ outbox'.recorded = outbox.recorded
    \/ /\ outbox'.sent = outbox.sent /\ outbox'.recorded = outbox.recorded + 1
       /\ handler[c].pc = "record" /\ x.pc # "record"

Stands ==
    /\ \A p \in Payload : payload'[p].messages = payload[p].messages
    /\ \A y \in Position : replied[y] > 0 => replied'[y] > 0
    /\ subscribed' \subseteq subscribed

\* Settled, after the step.
SettledThen(p, i) ==
    \/ replied'[<<p, i>>] > 0
    \/ payload'[p].messages[i].name = "NOT_TEXT"
    \/ payload'[p].messages[i].from \notin subscribed'

Answering(x) ==
    /\ Stands /\ Shaped(x) /\ PassedOver(x)'
    /\ \A p \in Payload : payload'[p].acked =>
          payload[p].acked \/ \A i \in 1..Len(payload[p].messages) : SettledThen(p, i)

Hand(h) == h.kind = "webhook" /\ h.pc \in {"store", "execute", "perform", "reply", "record", "save"}

\* No message is in hand, or one is of which the session may be told.
Leads(c, x) ==
    \/ UNCHANGED <<session, last, crossed>> /\ ~Hand(x) /\ ~Hand(handler[c])
    \/ LET u == Sender(c)
       IN  /\ u \in Phone
           /\ \A v \in Phone \ {u} : /\ session'[v] = session[v] /\ last'[v] = last[v]
                                     /\ v \in crossed' <=> v \in crossed
           /\ u \notin crossed' =>
                 /\ \A d \in Handler \ {c} : InHand(d) => Sender(d) # u
                 /\ IF Hand(x) THEN x.m.from = u /\ Carries(x, last'[u], session'[u])
                    ELSE session'[u].fresh => session'[u].task = last'[u]
           /\ Hand(x) => x.m.from = u

Charges ==
    \A y \in charged' : y \in charged \/ (y.task # NoTopic /\ (y.sure => y.task = y.last))

StepOf(c, x) ==
    /\ Go(c, x) /\ x \in HandlerRecord /\ Taken(c, x) /\ Answering(x) /\ Leads(c, x) /\ Charges
    /\ \A p \in Payload : RowsTally(c, x, p)
    /\ \A p \in Payload, i \in 1..MaxLen : Rows(c, x, p, i)

-----------------------------------------------------------------------------
LEMMA Enlarged ==
  ASSUME NEW c \in Handler, NEW S \in SUBSET Handler, NEW T \in SUBSET Handler,
         \A d \in Handler \ {c} : d \in T => d \in S
  PROVE  /\ Cardinality(S) \in Nat /\ Cardinality(T) \in Nat
         /\ Cardinality(T) <= Cardinality(S) + 1
         /\ (c \in T => c \in S) => Cardinality(T) <= Cardinality(S)
         /\ c \in S /\ c \notin T => Cardinality(T) + 1 <= Cardinality(S)
<1>1. IsFiniteSet(Handler)
  BY WhatsAppAssumption
<1>2. IsFiniteSet(S) /\ IsFiniteSet(T) /\ Cardinality(S) \in Nat /\ Cardinality(T) \in Nat
  BY <1>1, FS_Subset, FS_CardinalityType
<1>3. Cardinality(T) <= Cardinality(S) + 1
  <2>1. T \subseteq S \cup {c}
    OBVIOUS
  <2>2. IsFiniteSet(S \cup {c}) /\ Cardinality(S \cup {c}) <= Cardinality(S) + 1
    <3>1. /\ IsFiniteSet(S \cup {c})
          /\ Cardinality(S \cup {c}) = IF c \in S THEN Cardinality(S) ELSE Cardinality(S) + 1
      BY <1>2, FS_AddElement, Zenon
    <3> QED BY <1>2, <3>1
  <2>3. Cardinality(T) <= Cardinality(S \cup {c}) /\ Cardinality(S \cup {c}) \in Nat
    BY <2>1, <2>2, FS_Subset, FS_CardinalityType
  <2> QED BY <1>2, <2>2, <2>3
<1>4. (c \in T => c \in S) => Cardinality(T) <= Cardinality(S)
  <2>1. (c \in T => c \in S) => T \subseteq S
    OBVIOUS
  <2> QED BY <1>2, <2>1, FS_Subset
<1>5. ASSUME c \in S, c \notin T PROVE Cardinality(T) + 1 <= Cardinality(S)
  <2>1. T \subseteq S \ {c}
    BY <1>5
  <2>2. IsFiniteSet(S \ {c}) /\ Cardinality(S \ {c}) = Cardinality(S) - 1
    BY <1>2, <1>5, FS_RemoveElement
  <2>3. Cardinality(T) <= Cardinality(S \ {c})
    BY <2>1, <2>2, FS_Subset
  <2> QED BY <1>2, <2>2, <2>3
<1> QED BY <1>2, <1>3, <1>4, <1>5

LEMMA CountsKept ==
  ASSUME WhatsAppInv, WhatsAppTypeOK', NEW c \in Handler, NEW x, StepOf(c, x)
  PROVE  Delivered' /\ RowsCounted' /\ Recorded'
<1> USE DEF WhatsAppInv
<1>1. handler'[c] = x /\ \A d \in Handler \ {c} : handler'[d] = handler[d]
  BY Goes DEF StepOf
<1>2. Delivered'
  <2> SUFFICES ASSUME NEW p \in Payload
               PROVE  /\ payload'[p].tries <= broken'[p] + 1
                      /\ payload'[p].acked \/ payload'[p].tries <= broken'[p]
                            \/ \E d \in Handler : Of(handler'[d], p)
    BY DEF Delivered, Of, InWebhook
  <2>1. RowsTally(c, x, p)
    BY DEF StepOf
  <2>2. /\ payload[p].tries \in Nat /\ broken[p] \in Nat
        /\ payload[p].tries <= broken[p] + 1
        /\ payload[p].acked \/ payload[p].tries <= broken[p] \/ \E d \in Handler : Of(handler[d], p)
    BY DEF WhatsAppTypeOK, Delivered, Of, InWebhook
  <2> QED BY <1>1, <2>1, <2>2 DEF RowsTally
<1>3. RowsCounted'
  <2> SUFFICES ASSUME NEW p \in Payload, NEW i \in 1..MaxLen
               PROVE  written'[<<p, i>>] + Cardinality(Owed(p, i)') <= payload'[p].tries
    BY DEF RowsCounted
  <2>1. Rows(c, x, p, i)
    BY DEF StepOf
  <2>2. <<p, i>> \in Position /\ written[<<p, i>>] \in Nat /\ payload[p].tries \in Nat
    <3>1. <<p, i>> \in Position
      BY DEF Position
    <3>2. written \in [Position -> Nat] /\ payload[p] \in [messages: Batch, tries: 0..MaxTries, acked: BOOLEAN]
      BY DEF WhatsAppTypeOK
    <3>3. payload[p].tries \in 0..MaxTries
      BY <3>2
    <3> QED BY <3>1, <3>2, <3>3
  <2>3. written[<<p, i>>] + Cardinality(Owed(p, i)) <= payload[p].tries
    BY DEF RowsCounted
  <2>4. /\ Owed(p, i) \in SUBSET Handler /\ Owed(p, i)' \in SUBSET Handler
        /\ \A d \in Handler \ {c} : d \in Owed(p, i)' => d \in Owed(p, i)
        /\ c \in Owed(p, i) <=> Owing(handler[c], p, i)
        /\ c \in Owed(p, i)' <=> Owing(x, p, i)
    BY <1>1 DEF Owed, Owing
  <2> HIDE DEF Owed
  <2>5. /\ Cardinality(Owed(p, i)) \in Nat /\ Cardinality(Owed(p, i)') \in Nat
        /\ Cardinality(Owed(p, i)') <= Cardinality(Owed(p, i)) + 1
        /\ (c \in Owed(p, i)' => c \in Owed(p, i)) => Cardinality(Owed(p, i)') <= Cardinality(Owed(p, i))
        /\ c \in Owed(p, i) /\ c \notin Owed(p, i)' => Cardinality(Owed(p, i)') + 1 <= Cardinality(Owed(p, i))
    BY <2>4, Enlarged
  <2> QED BY <2>1, <2>2, <2>3, <2>4, <2>5 DEF Rows
<1>4. Recorded'
  <2>1. Taken(c, x) /\ outbox.sent \in Nat /\ outbox.recorded \in Nat
    BY DEF StepOf, WhatsAppTypeOK
  <2>2. /\ Unrecorded \in SUBSET Handler /\ Unrecorded' \in SUBSET Handler
        /\ \A d \in Handler \ {c} : d \in Unrecorded' => d \in Unrecorded
        /\ c \in Unrecorded <=> handler[c].pc = "record"
        /\ c \in Unrecorded' <=> x.pc = "record"
    BY <1>1 DEF Unrecorded
  <2>3. /\ Cardinality(Unrecorded) \in Nat /\ Cardinality(Unrecorded') \in Nat
        /\ Cardinality(Unrecorded') <= Cardinality(Unrecorded) + 1
        /\ (c \in Unrecorded' => c \in Unrecorded) => Cardinality(Unrecorded') <= Cardinality(Unrecorded)
        /\ c \in Unrecorded /\ c \notin Unrecorded' => Cardinality(Unrecorded') + 1 <= Cardinality(Unrecorded)
    BY <2>2, Enlarged
  <2>4. outbox.recorded + Cardinality(Unrecorded) <= outbox.sent
    BY DEF Recorded
  <2> QED BY <2>1, <2>2, <2>3, <2>4 DEF Taken, Recorded
<1> QED BY <1>2, <1>3, <1>4

LEMMA AnswersKept ==
  ASSUME WhatsAppInv, NEW c \in Handler, NEW x, StepOf(c, x)
  PROVE  HandlerShape' /\ AnsweredBeforeAcked' /\ PassedMessages'
<1> USE DEF WhatsAppInv
<1>1. handler'[c] = x /\ \A d \in Handler \ {c} : handler'[d] = handler[d]
  BY Goes DEF StepOf
<1>2. Stands /\ Answering(x)
  BY DEF StepOf, Answering
<1>3. ASSUME NEW p \in Payload, NEW i \in 1..MaxLen, i <= Len(payload[p].messages), Settled(p, i) PROVE Settled(p, i)'
  <2>1. <<p, i>> \in Position
    BY DEF Position
  <2> QED BY <1>2, <1>3, <2>1 DEF Settled, Stands
<1>4. HandlerShape'
  <2>1. ASSUME NEW h \in HandlerRecord, Shaped(h) PROVE Shaped(h)'
    BY <1>2, <2>1 DEF Shaped, Texting, Stands, HandlerRecord
  <2>2. x \in HandlerRecord /\ Shaped(x)
    BY <1>2 DEF StepOf, Answering
  <2>3. ASSUME NEW d \in Handler PROVE Shaped(handler[d])'
    <3>1. PICK h \in HandlerRecord : h = handler'[d] /\ Shaped(h)
      BY <1>1, <2>2, HandlerIs
    <3>2. Shaped(h)'
      BY <2>1, <3>1
    <3> QED BY <3>1, <3>2 DEF Shaped, Texting
  <2> QED BY <2>3 DEF HandlerShape
<1>5. AnsweredBeforeAcked'
  <2>1. ASSUME NEW p \in Payload, payload'[p].acked, NEW i \in 1..Len(payload[p].messages) PROVE Settled(p, i)'
    <3>1. i \in 1..MaxLen
      BY Delivering
    <3>2. CASE payload[p].acked
      <4>1. Settled(p, i)
        BY <3>2 DEF AnsweredBeforeAcked, Settled
      <4> QED BY <1>3, <3>1, <4>1
    <3> QED BY <1>2, <2>1, <3>2 DEF Answering, SettledThen, Settled
  <2> QED BY <1>2, <2>1 DEF AnsweredBeforeAcked, Settled, Stands
<1>6. PassedMessages'
  <2>1. ASSUME NEW d \in Handler \ {c} PROVE PassedOver(handler[d])'
    <3>1. PassedOver(handler[d]) /\ handler'[d] = handler[d]
      BY <1>1 DEF PassedMessages
    <3>2. CASE handler[d].kind = "webhook"
      <4>1. /\ handler[d].p \in Payload /\ handler[d].i \in 1..Len(payload[handler[d].p].messages)
            /\ Len(payload[handler[d].p].messages) \in Nat /\ <<handler[d].p, handler[d].i>> \in Position
        BY <3>2, HandlerIs, Delivering DEF Here
      <4>2. \A i \in 1..MaxLen : i < handler[d].i => Settled(handler[d].p, i)'
        BY <1>3, <3>1, <3>2, <4>1 DEF PassedOver
      <4> QED BY <1>2, <3>1, <3>2, <4>1, <4>2 DEF PassedOver, Stands, Settled
    <3> QED BY <3>1, <3>2 DEF PassedOver
  <2> QED BY <1>1, <1>2, <2>1 DEF PassedMessages, Answering, PassedOver, Settled
<1> QED BY <1>4, <1>5, <1>6

LEMMA ContextKept ==
  ASSUME WhatsAppInv, NEW c \in Handler, NEW x, StepOf(c, x)
  PROVE  Following' /\ ContextFollowsUser'
<1> USE DEF WhatsAppInv
<1>1. handler'[c] = x /\ \A d \in Handler \ {c} : handler'[d] = handler[d]
  BY Goes DEF StepOf
<1>2. \A d \in Handler : (InHand(d) <=> Hand(handler[d])) /\ (InHand(d)' <=> Hand(handler'[d]))
  BY DEF InHand, InWebhook, Hand
<1>3. \A y \in charged' : y.task # NoTopic /\ (y.sure => y.task = y.last)
  BY DEF StepOf, Charges, ContextFollowsUser
<1>4. CASE UNCHANGED <<session, last, crossed>> /\ ~Hand(x) /\ ~Hand(handler[c])
  <2>1. Following'
    BY <1>1, <1>2, <1>4 DEF Following, Sender, Carries
  <2> QED BY <1>1, <1>2, <1>3, <1>4, <2>1 DEF ContextFollowsUser, Sender
<1>5. CASE ~(UNCHANGED <<session, last, crossed>> /\ ~Hand(x) /\ ~Hand(handler[c]))
  <2> DEFINE u == Sender(c)
  <2>1. /\ u \in Phone
        /\ \A v \in Phone \ {u} : /\ session'[v] = session[v] /\ last'[v] = last[v]
                                  /\ v \in crossed' <=> v \in crossed
        /\ u \notin crossed' =>
              /\ \A d \in Handler \ {c} : InHand(d) => Sender(d) # u
              /\ IF Hand(x) THEN x.m.from = u /\ Carries(x, last'[u], session'[u])
                 ELSE session'[u].fresh => session'[u].task = last'[u]
        /\ Hand(x) => x.m.from = u
    BY <1>5 DEF StepOf, Leads
  <2>2. \A d \in Handler : Sender(d) = handler[d].m.from /\ Sender(d)' = handler'[d].m.from
    BY DEF Sender
  <2>3. \A d \in Handler : Hand(handler[d]) => handler[d].m.from \in Phone
    BY HandlerIs DEF Hand, Shaped, Texting
  <2> HIDE DEF u
  <2>4. ASSUME NEW d \in Handler, Hand(handler'[d]), handler'[d].m.from \notin crossed'
        PROVE  /\ Carries(handler'[d], last'[handler'[d].m.from], session'[handler'[d].m.from])
               /\ \A e \in Handler : Hand(handler'[e]) /\ handler'[e].m.from = handler'[d].m.from => e = d
    <3>1. CASE d = c
      BY <1>1, <1>2, <2>1, <2>2, <2>4, <3>1
    <3>2. CASE d # c
      <4>1. handler'[d] = handler[d] /\ handler[d].m.from \in Phone
        BY <1>1, <2>3, <2>4, <3>2
      <4>2. handler[d].m.from # u
        BY <1>2, <2>1, <2>2, <2>4, <3>2, <4>1
      <4>3. handler[d].m.from \notin crossed
        BY <2>1, <2>4, <4>1, <4>2
      <4>4. /\ Carries(handler[d], last[handler[d].m.from], session[handler[d].m.from])
            /\ \A e \in Handler : Hand(handler[e]) /\ handler[e].m.from = handler[d].m.from => e = d
        BY <1>2, <2>2, <2>4, <4>1, <4>3 DEF Following
      <4> QED BY <1>1, <2>1, <4>1, <4>2, <4>4
    <3> QED BY <3>1, <3>2
  <2>5. Following'
    BY <1>2, <2>2, <2>4 DEF Following
  <2>6. ASSUME NEW v \in Phone, v \notin crossed', session'[v].fresh,
               ~\E d \in Handler : Hand(handler'[d]) /\ handler'[d].m.from = v
        PROVE  session'[v].task = last'[v]
    <3>1. CASE v = u
      BY <1>1, <2>1, <2>6, <3>1
    <3>2. CASE v # u
      <4>1. ~\E d \in Handler : Hand(handler[d]) /\ handler[d].m.from = v
        BY <1>1, <2>2, <2>6, <3>2 DEF u
      <4> QED BY <1>2, <2>1, <2>2, <2>6, <3>2, <4>1 DEF ContextFollowsUser
    <3> QED BY <3>1, <3>2
  <2> QED BY <1>2, <1>3, <2>2, <2>5, <2>6 DEF ContextFollowsUser
<1> QED BY <1>4, <1>5

-----------------------------------------------------------------------------
(* The three ways in which a handler goes on, and what they count.           *)

\* It goes to another statement of the same message, and nothing is stored.
LEMMA StaysCounts ==
  ASSUME WhatsAppTypeOK, NEW c \in Handler, NEW x,
         x.kind = handler[c].kind, x.p = handler[c].p, x.i = handler[c].i, x.m = handler[c].m,
         handler[c].pc \in {"reply", "record", "save"} => x.pc \in {"reply", "record", "save"},
         UNCHANGED <<payload, broken, written>>
  PROVE  /\ \A p \in Payload : RowsTally(c, x, p)
         /\ \A p \in Payload, i \in 1..MaxLen : Rows(c, x, p, i)
  BY DEF RowsTally, Of, Rows, Owing

\* It fails.
LEMMA FailCounts ==
  ASSUME WhatsAppTypeOK, NEW c \in Handler, Fail(c), UNCHANGED <<payload, written>>
  PROVE  /\ Go(c, AtRest)
         /\ broken' \in [Payload -> Nat]
         /\ \A p \in Payload : RowsTally(c, AtRest, p)
         /\ \A p \in Payload, i \in 1..MaxLen : Rows(c, AtRest, p, i)
<1>1. handler[c].p \in Payload
  BY DEF WhatsAppTypeOK, HandlerRecord
<1>2. Go(c, AtRest)
  BY DEF Fail
<1>3. broken' \in [Payload -> Nat]
  BY <1>1 DEF Fail, WhatsAppTypeOK
<1>4. \A p \in Payload : RowsTally(c, AtRest, p)
  BY <1>1 DEF Fail, RowsTally, Of, InWebhook, WhatsAppTypeOK
<1>5. \A p \in Payload, i \in 1..MaxLen : Rows(c, AtRest, p, i)
  BY AtRestIs DEF Rows
<1> QED BY <1>2, <1>3, <1>4, <1>5

\* It goes to the next message, or is answered.
LEMMA AdvanceCounts ==
  ASSUME WhatsAppTypeOK, HandlerShape, NEW c \in Handler, handler[c].kind = "webhook", Advance(c),
         UNCHANGED broken
  PROVE  \E x \in HandlerRecord :
         /\ Go(c, x) /\ Shaped(x) /\ ~Hand(x) /\ x.pc \in {"idle", "receive"}
         /\ \A p \in Payload : RowsTally(c, x, p)
         /\ payload' \in [Payload -> [messages: Batch, tries: 0..MaxTries, acked: BOOLEAN]]
         /\ \A p \in Payload : /\ payload'[p].messages = payload[p].messages
                               /\ payload'[p].tries = payload[p].tries
                               /\ payload'[p].acked => \/ payload[p].acked
                                                       \/ /\ p = handler[c].p
                                                          /\ handler[c].i = Len(payload[p].messages)
         /\ x.kind = "webhook" => x.p = handler[c].p /\ x.i = handler[c].i + 1
         /\ \A p \in Payload, i \in 1..MaxLen :
               Owing(x, p, i) => Owing(handler[c], p, i) /\ <<p, i>> # Here(c)
<1> DEFINE h == handler[c]
<1>1. /\ h.p \in Payload /\ h.i \in 1..Len(payload[h.p].messages)
      /\ Len(payload[h.p].messages) \in Nat /\ payload[h.p] \in [messages: Batch, tries: 0..MaxTries, acked: BOOLEAN]
  <2>1. h.p \in Payload /\ h.i \in 1..Len(payload[h.p].messages) /\ MaxLen \in Nat
    BY HandlerIs, Zenon
  <2>2. Len(payload[h.p].messages) \in 1..MaxLen
    BY <2>1, Delivering, Zenon
  <2>3. payload[h.p] \in [messages: Batch, tries: 0..MaxTries, acked: BOOLEAN]
    BY <2>1 DEF WhatsAppTypeOK
  <2> QED BY <2>1, <2>2, <2>3
<1>2. CASE h.i < Len(payload[h.p].messages)
  <2>1. PICK x \in HandlerRecord : x = BeginMessage(c, h.p, h.i + 1)
    BY <1>1, <1>2, BeginIs
  <2>2. Go(c, x) /\ payload' = payload
    BY <1>2, <2>1 DEF Advance
  <2>3. x.kind = "webhook" /\ x.pc = "receive" /\ Shaped(x) /\ x.p = h.p /\ x.i = h.i + 1
    BY <1>1, <1>2, <2>1, BeginIs
  <2>4. \A p \in Payload, i \in 1..MaxLen : Owing(x, p, i) => Owing(h, p, i) /\ <<p, i>> # Here(c)
    BY <1>1, <2>3 DEF Owing, Here
  <2>5. \A p \in Payload : RowsTally(c, x, p)
    BY <2>2, <2>3 DEF RowsTally, Of
  <2>6. ~Hand(x)
    BY <2>3 DEF Hand
  <2> QED BY <2>2, <2>3, <2>4, <2>5, <2>6 DEF WhatsAppTypeOK
<1>3. CASE ~(h.i < Len(payload[h.p].messages))
  <2>1. Go(c, AtRest) /\ payload' = [payload EXCEPT ![h.p].acked = TRUE]
    BY <1>3 DEF Advance
  <2>2. /\ payload'[h.p] = [payload[h.p] EXCEPT !.acked = TRUE]
        /\ \A p \in Payload \ {h.p} : payload'[p] = payload[p]
    BY <1>1, <2>1 DEF WhatsAppTypeOK
  <2>3. /\ payload'[h.p].messages = payload[h.p].messages /\ payload'[h.p].tries = payload[h.p].tries
        /\ payload'[h.p].acked /\ payload'[h.p] \in [messages: Batch, tries: 0..MaxTries, acked: BOOLEAN]
    BY <1>1, <2>2
  <2>4. payload' \in [Payload -> [messages: Batch, tries: 0..MaxTries, acked: BOOLEAN]]
    BY <2>1, <2>2, <2>3 DEF WhatsAppTypeOK
  <2>5. \A p \in Payload : RowsTally(c, AtRest, p)
    BY <2>2, <2>3 DEF RowsTally, Of
  <2>6. ~Hand(AtRest)
    BY AtRestIs DEF Hand
  <2>7. h.i = Len(payload[h.p].messages)
    BY <1>1, <1>3
  <2> QED BY <2>1, <2>2, <2>3, <2>4, <2>5, <2>6, <2>7, AtRestIs
<1> QED BY <1>2, <1>3

(* And what they answer.                                                     *)
LEMMA SettledStays ==
  ASSUME WhatsAppTypeOK, Stands, NEW p \in Payload, NEW i \in 1..Len(payload[p].messages), Settled(p, i)
  PROVE  SettledThen(p, i)
<1>1. <<p, i>> \in Position
  BY Delivering
<1> QED BY <1>1 DEF Settled, SettledThen, Stands

LEMMA PassedBefore ==
  ASSUME WhatsAppInv, Stands, NEW c \in Handler, handler[c].kind = "webhook"
  PROVE  \A i \in 1..MaxLen : i < handler[c].i => SettledThen(handler[c].p, i)
<1>1. /\ handler[c].p \in Payload /\ handler[c].i \in 1..Len(payload[handler[c].p].messages)
      /\ Len(payload[handler[c].p].messages) \in Nat
  BY HandlerIs, Delivering DEF WhatsAppInv
<1>2. \A i \in 1..MaxLen : i < handler[c].i => Settled(handler[c].p, i)
  <2>1. PassedOver(handler[c])
    BY DEF WhatsAppInv, PassedMessages
  <2> QED BY <2>1 DEF PassedOver
<1>3. PICK p \in Payload : p = handler[c].p
  BY <1>1
<1>4. ASSUME NEW i \in 1..MaxLen, i < handler[c].i PROVE SettledThen(p, i)
  <2>1. i \in 1..Len(payload[p].messages) /\ Settled(p, i)
    BY <1>1, <1>2, <1>3, <1>4
  <2> QED BY <2>1, SettledStays DEF WhatsAppInv
<1> QED BY <1>3, <1>4

LEMMA StaysAnswers ==
  ASSUME WhatsAppInv, Stands, UNCHANGED payload, NEW c \in Handler, NEW x \in HandlerRecord, Shaped(x),
         x.kind = handler[c].kind, x.p = handler[c].p, x.i = handler[c].i,
         x.kind = "webhook" /\ x.pc \in {"record", "save"} => replied'[Here(c)] > 0
  PROVE  Answering(x)
<1>1. PassedOver(x)'
  BY PassedBefore DEF PassedOver, Here, Settled, SettledThen
<1> QED BY <1>1 DEF Answering

LEMMA EndsAnswers == ASSUME Stands, UNCHANGED payload PROVE Answering(AtRest)
  BY AtRestIs DEF Answering, PassedOver

LEMMA AdvanceAnswers ==
  ASSUME WhatsAppInv, Stands, NEW c \in Handler, handler[c].kind = "webhook", SettledThen(handler[c].p, handler[c].i),
         NEW x \in HandlerRecord, Shaped(x), x.pc \in {"idle", "receive"},
         x.kind = "webhook" => x.p = handler[c].p /\ x.i = handler[c].i + 1,
         \A p \in Payload : payload'[p].acked => \/ payload[p].acked
                                                 \/ /\ p = handler[c].p
                                                    /\ handler[c].i = Len(payload[p].messages)
  PROVE  Answering(x)
<1>1. /\ handler[c].p \in Payload /\ handler[c].i \in 1..Len(payload[handler[c].p].messages)
      /\ Len(payload[handler[c].p].messages) \in 1..MaxLen /\ MaxLen \in Nat
  BY HandlerIs, Delivering, Longest DEF WhatsAppInv
<1>2. \A i \in 1..MaxLen : i <= handler[c].i => SettledThen(handler[c].p, i)
  BY <1>1, PassedBefore
<1>3. PassedOver(x)'
  <2>1. x.pc \notin {"record", "save"}
    OBVIOUS
  <2>2. ASSUME x.kind = "webhook", NEW i \in 1..MaxLen, i < x.i PROVE SettledThen(x.p, i)
    <3>1. x.p = handler[c].p /\ i <= handler[c].i
      BY <1>1, <2>2
    <3> QED BY <1>2, <3>1
  <2> QED BY <2>1, <2>2 DEF PassedOver, Settled, SettledThen
<1>4. ASSUME NEW p \in Payload, payload'[p].acked, ~payload[p].acked, NEW i \in 1..Len(payload[p].messages)
      PROVE  SettledThen(p, i)
  BY <1>1, <1>2, <1>4
<1> QED BY <1>3, <1>4 DEF Answering

-----------------------------------------------------------------------------
LEMMA DeliverSteps ==
  ASSUME WhatsAppInv, NEW c \in Handler, NEW p \in Payload, Deliver(c, p)
  PROVE  WhatsAppTypeOK' /\ \E x : StepOf(c, x)
<1> USE DEF WhatsAppInv
<1>1. /\ handler[c].pc = "idle" /\ ~payload[p].acked /\ payload[p].tries < MaxTries /\ Go(c, BeginMessage(c, p, 1))
      /\ payload' = [payload EXCEPT ![p].tries = @ + 1]
      /\ UNCHANGED <<session, subscribed, assigned, leave, faults, written, replied, outbox, last,
                     charged, crossed>>
  BY DEF Deliver, At
<1>2. handler[c].kind = "none"
  BY <1>1 DEF HandlerShape, Shaped
<1>3. 1 \in 1..Len(payload[p].messages)
  BY Delivering, Longest
<1>4. PICK x \in HandlerRecord :
         Go(c, x) /\ Shaped(x) /\ x.kind = "webhook" /\ x.pc = "receive" /\ x.p = p /\ x.i = 1
  BY <1>1, <1>3, BeginIs
<1>5. /\ payload'[p] = [payload[p] EXCEPT !.tries = @ + 1]
      /\ \A q \in Payload \ {p} : payload'[q] = payload[q]
  BY <1>1 DEF WhatsAppTypeOK
<1>6. payload[p] \in [messages: Batch, tries: 0..MaxTries, acked: BOOLEAN]
  BY DEF WhatsAppTypeOK
<1>7. /\ payload'[p] \in [messages: Batch, tries: 0..MaxTries, acked: BOOLEAN]
      /\ payload'[p].messages = payload[p].messages /\ payload'[p].acked = payload[p].acked
      /\ payload'[p].tries = payload[p].tries + 1
  <2>1. payload[p].tries + 1 \in 0..MaxTries
    BY <1>1, <1>6, WhatsAppAssumption
  <2> QED BY <1>5, <1>6, <2>1
<1>8. /\ IF \E d \in Handler : Of(handler[d], p) THEN broken'[p] = broken[p] + 1 ELSE broken'[p] = broken[p]
      /\ \A q \in Payload \ {p} : broken'[q] = broken[q]
      /\ broken' \in [Payload -> Nat]
  BY DEF Deliver, Of, InWebhook, WhatsAppTypeOK
<1>9. WhatsAppTypeOK'
  <2>1. payload' \in [Payload -> [messages: Batch, tries: 0..MaxTries, acked: BOOLEAN]]
    BY <1>1, <1>5, <1>7 DEF WhatsAppTypeOK
  <2>2. handler' \in [Handler -> HandlerRecord]
    BY <1>1, <1>4, Goes
  <2> QED BY <1>1, <1>8, <2>1, <2>2 DEF WhatsAppTypeOK
<1>10. Answering(x)
  <2>1. Stands
    BY <1>1, <1>5, <1>7 DEF Stands
  <2>2. PassedOver(x)'
    BY <1>4 DEF PassedOver
  <2> QED BY <1>4, <1>5, <1>7, <2>1, <2>2 DEF Answering
<1>11. \A q \in Payload : RowsTally(c, x, q)
  BY <1>1, <1>2, <1>4, <1>5, <1>7, <1>8 DEF RowsTally, Of
<1>12. \A q \in Payload, i \in 1..MaxLen : Rows(c, x, q, i)
  BY <1>1, <1>4, <1>5, <1>7 DEF Rows, Owing
<1>13. Taken(c, x) /\ Leads(c, x) /\ Charges
  BY <1>1, <1>2, <1>4 DEF Taken, Leads, Charges, Hand
<1> QED BY <1>1, <1>4, <1>9, <1>10, <1>11, <1>12, <1>13 DEF StepOf

LEMMA ReceiveSteps ==
  ASSUME WhatsAppInv, NEW c \in Handler, Receive(c)
  PROVE  WhatsAppTypeOK' /\ \E x : StepOf(c, x)
<1> USE DEF WhatsAppInv
<1>1. /\ handler[c].pc = "receive"
      /\ UNCHANGED <<session, subscribed, assigned, leave, faults, written, replied, outbox, broken,
                     last, charged, crossed>>
  BY DEF Receive, At
<1>2. handler[c].kind = "webhook"
  BY <1>1, HandlerIs DEF Shaped, HandlerRecord
<1>3. CASE handler[c].m.name # "NOT_TEXT" /\ Sender(c) \in subscribed
  <2>1. PICK x \in HandlerRecord : x = Step(c, "admit")
    BY StepIs
  <2>2. Go(c, x) /\ payload' = payload
    BY <1>3, <2>1 DEF Receive
  <2>3. /\ x.pc = "admit" /\ x.kind = handler[c].kind /\ x.p = handler[c].p /\ x.i = handler[c].i
        /\ x.m = handler[c].m
    BY <2>1, StepIs
  <2>4. Shaped(x)
    <3>1. handler[c].m.from \in Phone
      BY <1>3 DEF Sender, WhatsAppTypeOK
    <3> QED BY <1>2, <1>3, <2>3, <3>1, HandlerIs DEF Shaped, Texting
  <2>5. Stands
    BY <1>1, <2>2 DEF Stands
  <2>6. Answering(x)
    BY <2>2, <2>3, <2>4, <2>5, StaysAnswers
  <2>7. handler' \in [Handler -> HandlerRecord]
    BY <2>2, Goes
  <2>8. WhatsAppTypeOK'
    BY <1>1, <2>2, <2>7 DEF WhatsAppTypeOK
  <2>9. /\ \A p \in Payload : RowsTally(c, x, p)
        /\ \A p \in Payload, i \in 1..MaxLen : Rows(c, x, p, i)
    BY <1>1, <2>2, <2>3, StaysCounts
  <2>10. Taken(c, x) /\ Leads(c, x) /\ Charges
    BY <1>1, <2>3 DEF Taken, Leads, Charges, Hand
  <2> QED BY <2>2, <2>6, <2>8, <2>9, <2>10 DEF StepOf
<1>4. CASE ~(handler[c].m.name # "NOT_TEXT" /\ Sender(c) \in subscribed)
  <2>1. Advance(c)
    BY <1>4 DEF Receive
  <2>2. PICK x \in HandlerRecord :
         /\ Go(c, x) /\ Shaped(x) /\ ~Hand(x) /\ x.pc \in {"idle", "receive"}
         /\ \A p \in Payload : RowsTally(c, x, p)
         /\ payload' \in [Payload -> [messages: Batch, tries: 0..MaxTries, acked: BOOLEAN]]
         /\ \A p \in Payload : /\ payload'[p].messages = payload[p].messages
                               /\ payload'[p].tries = payload[p].tries
                               /\ payload'[p].acked => \/ payload[p].acked
                                                       \/ /\ p = handler[c].p
                                                          /\ handler[c].i = Len(payload[p].messages)
         /\ x.kind = "webhook" => x.p = handler[c].p /\ x.i = handler[c].i + 1
         /\ \A p \in Payload, i \in 1..MaxLen :
               Owing(x, p, i) => Owing(handler[c], p, i) /\ <<p, i>> # Here(c)
    BY <1>1, <1>2, <2>1, AdvanceCounts
  <2>3. Stands
    BY <1>1, <2>2 DEF Stands
  <2>4. SettledThen(handler[c].p, handler[c].i)
    <3>1. handler[c].p \in Payload /\ handler[c].m = payload[handler[c].p].messages[handler[c].i]
      BY <1>2, HandlerIs
    <3> QED BY <1>1, <1>4, <2>2, <3>1 DEF SettledThen, Sender
  <2>5. Answering(x)
    BY <1>2, <2>2, <2>3, <2>4, AdvanceAnswers
  <2>6. handler' \in [Handler -> HandlerRecord]
    BY <2>2, Goes
  <2>7. WhatsAppTypeOK'
    BY <1>1, <2>2, <2>6 DEF WhatsAppTypeOK
  <2>8. \A p \in Payload, i \in 1..MaxLen : Rows(c, x, p, i)
    BY <1>1, <2>2 DEF Rows
  <2>9. Taken(c, x) /\ Leads(c, x) /\ Charges
    BY <1>1, <2>2 DEF Taken, Leads, Charges, Hand
  <2> QED BY <2>2, <2>5, <2>7, <2>8, <2>9 DEF StepOf
<1> QED BY <1>3, <1>4

LEMMA AdmitSteps ==
  ASSUME WhatsAppInv, NEW c \in Handler, Admit(c)
  PROVE  WhatsAppTypeOK' /\ \E x : StepOf(c, x)
<1> USE DEF WhatsAppInv
<1> DEFINE u == Sender(c)
<1>1. /\ handler[c].pc = "admit"
      /\ UNCHANGED <<payload, session, subscribed, assigned, leave, faults, written, replied, outbox,
                     charged>>
  BY DEF Admit, At
<1>2. handler[c].kind = "webhook" /\ u \in Phone /\ handler[c].m.from = u
  BY <1>1, HandlerIs DEF Shaped, Texting, HandlerRecord, Sender
<1>3. /\ last' = IF session[u].fresh THEN last ELSE [last EXCEPT ![u] = NoTopic]
      /\ crossed' = IF \E d \in Handler \ {c} : InHand(d) /\ Sender(d) = u
                    THEN crossed \cup {u}
                    ELSE IF session[u].fresh THEN crossed ELSE crossed \ {u}
  BY DEF Admit
<1>4. /\ session[u] \in SessionRecord /\ last[u] \in Topics
      /\ last' \in [Phone -> Topics] /\ crossed' \subseteq Phone
      /\ last'[u] = IF session[u].fresh THEN last[u] ELSE NoTopic
      /\ \A v \in Phone \ {u} : last'[v] = last[v] /\ (v \in crossed' <=> v \in crossed)
      /\ u \notin crossed' => /\ \A d \in Handler \ {c} : InHand(d) => Sender(d) # u
                              /\ session[u].fresh => u \notin crossed
  <2>1. session[u] \in SessionRecord /\ last[u] \in Topics
    BY <1>2 DEF WhatsAppTypeOK
  <2>2. last' \in [Phone -> Topics] /\ last'[u] = (IF session[u].fresh THEN last[u] ELSE NoTopic)
        /\ \A v \in Phone \ {u} : last'[v] = last[v]
    BY <1>2, <1>3 DEF WhatsAppTypeOK, Topics
  <2> QED BY <1>2, <1>3, <2>1, <2>2 DEF WhatsAppTypeOK
<1>5. Charges /\ Stands
  BY <1>1 DEF Charges, Stands
\* While none of the user's messages is in hand, a session that goes on is about
\* the task he has opened last.
<1>6. ASSUME u \notin crossed', session[u].fresh PROVE session[u].task = last[u]
  <2>1. u \notin crossed /\ ~InHand(c) /\ \A d \in Handler \ {c} : InHand(d) => Sender(d) # u
    BY <1>1, <1>4, <1>6 DEF InHand
  <2> QED BY <1>2, <1>6, <2>1 DEF ContextFollowsUser
<1>7. CASE u \in subscribed
  <2>1. ReadSession(c) \in HandlerRecord
        /\ ReadSession(c).pc = "store" /\ ReadSession(c).kind = handler[c].kind
        /\ ReadSession(c).p = handler[c].p /\ ReadSession(c).i = handler[c].i
        /\ ReadSession(c).m = handler[c].m
        /\ ReadSession(c).task = IF session[u].fresh THEN session[u].task ELSE NoTopic
    <3>1. PICK k \in HandlerRecord : k = Step(c, "store")
      BY StepIs
    <3>2. /\ k.pc = "store" /\ k.kind = handler[c].kind /\ k.p = handler[c].p /\ k.i = handler[c].i
          /\ k.m = handler[c].m
      BY <3>1, StepIs
    <3>3. PICK e \in BOOLEAN, s \in SessionState, t \in Topics :
             /\ ReadSession(c) = [k EXCEPT !.found = e, !.state = s, !.task = t]
             /\ t = IF session[u].fresh THEN session[u].task ELSE NoTopic
      <4>1. /\ session[u].exists \in BOOLEAN
            /\ (IF ~session[u].exists THEN "ACTIVE" ELSE IF session[u].fresh THEN session[u].state ELSE "IDLE")
                  \in SessionState
            /\ (IF session[u].fresh THEN session[u].task ELSE NoTopic) \in Topics
        BY <1>4 DEF SessionRecord, SessionState, Topics
      <4> QED BY <3>1, <4>1 DEF ReadSession
    <3> QED BY <3>2, <3>3 DEF HandlerRecord
  <2>2. PICK x \in HandlerRecord :
           /\ Go(c, x) /\ x.pc = "store" /\ x.kind = handler[c].kind /\ x.p = handler[c].p
           /\ x.i = handler[c].i /\ x.m = handler[c].m
           /\ x.task = IF session[u].fresh THEN session[u].task ELSE NoTopic
    BY <1>7, <2>1 DEF Admit
  <2>3. broken' = broken
    BY <1>7 DEF Admit
  <2>4. handler' \in [Handler -> HandlerRecord]
    BY <2>2, Goes
  <2>5. WhatsAppTypeOK'
    BY <1>1, <1>4, <2>3, <2>4 DEF WhatsAppTypeOK
  <2>6. Shaped(x)
    BY <1>1, <1>2, <2>2, HandlerIs DEF Shaped, Texting
  <2>7. Answering(x)
    BY <1>1, <1>5, <2>2, <2>6, StaysAnswers
  <2>8. /\ \A p \in Payload : RowsTally(c, x, p)
        /\ \A p \in Payload, i \in 1..MaxLen : Rows(c, x, p, i)
    BY <1>1, <2>2, <2>3, StaysCounts
  <2>9. Leads(c, x)
    <3>1. u \notin crossed' => Carries(x, last'[u], session'[u])
      BY <1>1, <1>4, <1>6, <2>2 DEF Carries
    <3> QED BY <1>1, <1>2, <1>4, <2>2, <3>1 DEF Leads, Hand
  <2>10. Taken(c, x)
    BY <1>1, <2>2 DEF Taken
  <2> QED BY <1>5, <2>2, <2>5, <2>7, <2>8, <2>9, <2>10 DEF StepOf
<1>8. CASE u \notin subscribed
  <2>1. Fail(c)
    BY <1>8 DEF Admit
  <2>2. /\ Go(c, AtRest) /\ broken' \in [Payload -> Nat]
        /\ \A p \in Payload : RowsTally(c, AtRest, p)
        /\ \A p \in Payload, i \in 1..MaxLen : Rows(c, AtRest, p, i)
    BY <1>1, <2>1, FailCounts
  <2>3. handler' \in [Handler -> HandlerRecord]
    BY <2>2, Goes, AtRestIs
  <2>4. WhatsAppTypeOK'
    BY <1>1, <1>4, <2>2, <2>3 DEF WhatsAppTypeOK
  <2>5. Leads(c, AtRest)
    BY <1>1, <1>2, <1>4, <1>6, AtRestIs DEF Leads, Hand
  <2>6. Taken(c, AtRest)
    BY <1>1, AtRestIs DEF Taken
  <2> QED BY <1>1, <1>5, <2>2, <2>4, <2>5, <2>6, AtRestIs, EndsAnswers DEF StepOf
<1> QED BY <1>7, <1>8

\* What is known of a message in hand that has not crossed another.
LEMMA InHandIs ==
  ASSUME WhatsAppInv, NEW c \in Handler, Hand(handler[c])
  PROVE  /\ Sender(c) \in Phone /\ handler[c].m.from = Sender(c) /\ handler[c].m.name # "NOT_TEXT"
         /\ session[Sender(c)] \in SessionRecord /\ last[Sender(c)] \in Topics
         /\ Sender(c) \notin crossed =>
               /\ Carries(handler[c], last[Sender(c)], session[Sender(c)])
               /\ \A d \in Handler \ {c} : InHand(d) => Sender(d) # Sender(c)
<1>1. InHand(c)
  BY DEF Hand, InHand, InWebhook
<1>2. Sender(c) \in Phone /\ handler[c].m.from = Sender(c) /\ handler[c].m.name # "NOT_TEXT"
  BY HandlerIs DEF WhatsAppInv, Hand, Shaped, Texting, Sender
<1> QED BY <1>1, <1>2 DEF WhatsAppInv, Following, WhatsAppTypeOK

LEMMA StoreSteps ==
  ASSUME WhatsAppInv, NEW c \in Handler, StoreSession(c)
  PROVE  WhatsAppTypeOK' /\ \E x : StepOf(c, x)
<1> USE DEF WhatsAppInv
<1> DEFINE u == Sender(c)
<1>1. /\ handler[c].pc = "store"
      /\ UNCHANGED <<payload, subscribed, assigned, leave, faults, written, replied, outbox, last,
                     charged, crossed>>
  BY DEF StoreSession, At
<1>2. handler[c].kind = "webhook" /\ Hand(handler[c])
  BY <1>1, HandlerIs DEF Shaped, HandlerRecord, Hand
<1>3. Charges /\ Stands
  BY <1>1 DEF Charges, Stands
<1>4. CASE handler[c].found \/ ~session[u].exists
  <2>1. PICK x \in HandlerRecord :
           /\ Go(c, x) /\ x.pc = "execute" /\ x.kind = handler[c].kind /\ x.p = handler[c].p
           /\ x.i = handler[c].i /\ x.m = handler[c].m /\ x.task = handler[c].task
           /\ x.open = handler[c].task
    <3>1. PICK k \in HandlerRecord : k = Step(c, "execute")
      BY StepIs
    <3>2. /\ k.pc = "execute" /\ k.kind = handler[c].kind /\ k.p = handler[c].p /\ k.i = handler[c].i
          /\ k.m = handler[c].m /\ k.task = handler[c].task
      BY <3>1, StepIs
    <3>3. handler[c].state \in SessionState /\ handler[c].task \in Topics
      BY HandlerIs DEF HandlerRecord
    <3>4. PICK x : x = [k EXCEPT !.next = handler[c].state, !.open = handler[c].task]
      OBVIOUS
    <3>5. Go(c, x)
      BY <1>4, <3>1, <3>4 DEF StoreSession
    <3>6. x \in HandlerRecord /\ x.open = handler[c].task
      BY <3>1, <3>3, <3>4 DEF HandlerRecord
    <3>7. x.pc = k.pc /\ x.kind = k.kind /\ x.p = k.p /\ x.i = k.i /\ x.m = k.m /\ x.task = k.task
      BY <3>1, <3>4 DEF HandlerRecord
    <3> QED BY <3>2, <3>5, <3>6, <3>7
  <2>2. PICK s \in SessionRecord : /\ session' = [session EXCEPT ![u] = s]
                                   /\ s.task = handler[c].task
    <3>1. handler[c].state \in SessionState /\ handler[c].task \in Topics
      BY HandlerIs DEF HandlerRecord
    <3>2. [exists |-> TRUE, state |-> handler[c].state, task |-> handler[c].task, fresh |-> TRUE] \in SessionRecord
      BY <3>1 DEF SessionRecord
    <3> QED BY <1>4, <3>2 DEF StoreSession
  <2>3. /\ session' \in [Phone -> SessionRecord] /\ session'[u] = s
        /\ \A v \in Phone \ {u} : session'[v] = session[v]
    BY <1>2, <2>2, InHandIs DEF WhatsAppTypeOK
  <2>4. broken' = broken
    BY <1>4 DEF StoreSession
  <2>5. handler' \in [Handler -> HandlerRecord]
    BY <2>1, Goes
  <2>6. WhatsAppTypeOK'
    BY <1>1, <2>3, <2>4, <2>5 DEF WhatsAppTypeOK
  <2>7. Shaped(x)
    BY <1>1, <1>2, <2>1, HandlerIs DEF Shaped, Texting
  <2>8. Answering(x)
    BY <1>1, <1>3, <2>1, <2>7, StaysAnswers
  <2>9. /\ \A p \in Payload : RowsTally(c, x, p)
        /\ \A p \in Payload, i \in 1..MaxLen : Rows(c, x, p, i)
    BY <1>1, <2>1, <2>4, StaysCounts
  <2>10. Leads(c, x)
    <3>1. u \notin crossed => Carries(x, last[u], s)
      BY <1>1, <1>2, <2>1, <2>2, InHandIs DEF Carries
    <3> QED BY <1>1, <1>2, <2>1, <2>3, <3>1, InHandIs DEF Leads, Hand
  <2>11. Taken(c, x)
    BY <1>1, <2>1 DEF Taken
  <2> QED BY <1>3, <2>1, <2>6, <2>8, <2>9, <2>10, <2>11 DEF StepOf
<1>5. CASE ~(handler[c].found \/ ~session[u].exists)
  <2>1. Fail(c) /\ session' = session
    BY <1>5 DEF StoreSession
  <2>2. /\ Go(c, AtRest) /\ broken' \in [Payload -> Nat]
        /\ \A p \in Payload : RowsTally(c, AtRest, p)
        /\ \A p \in Payload, i \in 1..MaxLen : Rows(c, AtRest, p, i)
    BY <1>1, <2>1, FailCounts
  <2>3. handler' \in [Handler -> HandlerRecord]
    BY <2>2, Goes, AtRestIs
  <2>4. WhatsAppTypeOK'
    BY <1>1, <2>1, <2>2, <2>3 DEF WhatsAppTypeOK
  <2>5. Leads(c, AtRest)
    BY <1>1, <1>2, <2>1, InHandIs, AtRestIs DEF Leads, Hand, Carries
  <2>6. Taken(c, AtRest)
    BY <1>1, AtRestIs DEF Taken
  <2> QED BY <1>1, <1>3, <2>2, <2>4, <2>5, <2>6, AtRestIs, EndsAnswers DEF StepOf
<1> QED BY <1>4, <1>5

LEMMA ExecuteSteps ==
  ASSUME WhatsAppInv, NEW c \in Handler, Execute(c)
  PROVE  WhatsAppTypeOK' /\ \E x : StepOf(c, x)
<1> USE DEF WhatsAppInv
<1> DEFINE u == Sender(c)
           h == handler[c]
<1>1. /\ h.pc = "execute"
      /\ UNCHANGED <<payload, session, subscribed, assigned, leave, faults, written, replied, outbox,
                     broken, charged, crossed>>
  BY DEF Execute, At
<1>2. Charges /\ Stands
  BY <1>1 DEF Charges, Stands
<1>3. PICK x \in Outcomes(c) :
         /\ Go(c, x)
         /\ last' = IF x.pc = "reply" /\ h.m.name = "TASK_DETAIL" /\ h.m.task \in assigned
                    THEN [last EXCEPT ![u] = h.m.task] ELSE last
  BY DEF Execute
<1>4. Taken(c, x)
  <2>1. x.pc # "record"
    BY <1>1, OutcomesAre, AtRestIs
  <2> QED BY <1>1, <2>1 DEF Taken
<1>5. CASE x = AtRest /\ h.kind # "webhook"
  <2>1. last' = last
    BY <1>3, <1>5, AtRestIs
  <2>2. handler' \in [Handler -> HandlerRecord]
    BY <1>3, <1>5, Goes, AtRestIs
  <2>3. WhatsAppTypeOK'
    BY <1>1, <2>1, <2>2 DEF WhatsAppTypeOK
  <2>4. Leads(c, x)
    BY <1>1, <1>5, <2>1, AtRestIs DEF Leads, Hand
  <2>5. /\ \A p \in Payload : RowsTally(c, x, p)
        /\ \A p \in Payload, i \in 1..MaxLen : Rows(c, x, p, i)
    BY <1>1, <1>5, AtRestIs DEF RowsTally, Of, Rows
  <2>6. Answering(x)
    BY <1>1, <1>2, <1>5, EndsAnswers
  <2> QED BY <1>2, <1>3, <1>4, <1>5, <2>3, <2>4, <2>5, <2>6, AtRestIs DEF StepOf
<1>6. CASE ~(x = AtRest /\ h.kind # "webhook")
  <2>1. /\ x \in HandlerRecord /\ Shaped(x) /\ x.pc \in {"reply", "perform"}
        /\ x.kind = h.kind /\ x.p = h.p /\ x.i = h.i
        /\ x.m = h.m /\ x.task = h.task
        /\ x.pc = "reply" => /\ x.kind = "webhook"
                             /\ x.open = IF x.m.name = "TASK_DETAIL" /\ x.m.task \in assigned
                                         THEN x.m.task ELSE h.open
        /\ x.pc = "perform" => /\ x.open = IF x.m.name \in Opening THEN x.m.task ELSE h.open
                               /\ x.m.name # "TASK_DETAIL"
    BY <1>1, <1>6, OutcomesAre
  <2>2. handler' \in [Handler -> HandlerRecord]
    BY <1>3, <2>1, Goes
  <2>3. Answering(x)
    BY <1>1, <1>2, <2>1, StaysAnswers
  <2>4. /\ \A p \in Payload : RowsTally(c, x, p)
        /\ \A p \in Payload, i \in 1..MaxLen : Rows(c, x, p, i)
    BY <1>1, <2>1, StaysCounts
  <2>5. CASE h.kind # "webhook"
    <3>1. last' = last
      BY <1>3, <2>1, <2>5
    <3>2. Leads(c, x)
      BY <1>1, <2>1, <2>5, <3>1 DEF Leads, Hand
    <3>3. WhatsAppTypeOK'
      BY <1>1, <2>2, <3>1 DEF WhatsAppTypeOK
    <3> QED BY <1>2, <1>3, <1>4, <2>1, <2>3, <2>4, <3>2, <3>3 DEF StepOf
  <2>6. CASE h.kind = "webhook"
    <3>1. Hand(h) /\ Hand(x)
      BY <1>1, <2>1, <2>6 DEF Hand
    <3>2. /\ u \in Phone /\ h.m.from = u
          /\ u \notin crossed =>
               /\ Carries(h, last[u], session[u])
               /\ \A d \in Handler \ {c} : InHand(d) => Sender(d) # u
      BY <3>1, InHandIs
    <3>3. h.m.task \in Topics
      BY <2>1 DEF HandlerRecord, Message, Topics
    <3>4. /\ last' \in [Phone -> Topics] /\ \A v \in Phone \ {u} : last'[v] = last[v]
          /\ last'[u] = IF x.pc = "reply" /\ h.m.name = "TASK_DETAIL" /\ h.m.task \in assigned
                        THEN h.m.task ELSE last[u]
      BY <1>3, <3>2, <3>3 DEF WhatsAppTypeOK
    <3>5. WhatsAppTypeOK'
      BY <1>1, <2>2, <3>4 DEF WhatsAppTypeOK
    <3>6. u \notin crossed => Carries(x, last'[u], session[u])
      <4>1. ASSUME u \notin crossed
            PROVE  h.open = last[u] /\ h.task = last[u] /\ (session[u].fresh => session[u].task = last[u])
        BY <1>1, <3>2, <4>1 DEF Carries
      <4>2. CASE x.pc = "reply"
        BY <2>1, <3>4, <4>1, <4>2 DEF Carries
      <4>3. CASE x.pc = "perform"
        BY <2>1, <3>4, <4>1, <4>3 DEF Carries
      <4> QED BY <2>1, <4>2, <4>3
    <3>7. Leads(c, x)
      BY <1>1, <2>1, <3>1, <3>2, <3>4, <3>6 DEF Leads
    <3> QED BY <1>2, <1>3, <1>4, <2>1, <2>3, <2>4, <3>5, <3>7 DEF StepOf
  <2> QED BY <2>5, <2>6
<1> QED BY <1>5, <1>6

\* A handler that is not refused goes on to its reply.
LEMMA ReplyIs ==
  ASSUME WhatsAppTypeOK, HandlerShape, NEW c \in Handler, handler[c].kind = "webhook",
         handler[c].pc = "perform"
  PROVE  \E x \in HandlerRecord :
            /\ x = StayOpen(c) /\ Shaped(x) /\ x.pc = "reply" /\ x.kind = handler[c].kind
            /\ x.p = handler[c].p /\ x.i = handler[c].i /\ x.m = handler[c].m /\ x.open = handler[c].open
<1>1. handler[c].next \in SessionState /\ handler[c].open \in Topics
  BY HandlerIs DEF HandlerRecord
<1>2. PICK k \in HandlerRecord : k = Step(c, "reply")
  BY StepIs
<1>3. /\ k.pc = "reply" /\ k.kind = handler[c].kind /\ k.p = handler[c].p /\ k.i = handler[c].i
      /\ k.m = handler[c].m
  BY <1>2, StepIs
<1>4. PICK x : x = [k EXCEPT !.next = handler[c].next, !.open = handler[c].open]
  OBVIOUS
<1>5. x = StayOpen(c)
  BY <1>2, <1>4 DEF StayOpen, Answer, InWebhook
<1>6. /\ x \in HandlerRecord /\ x.pc = "reply" /\ x.kind = handler[c].kind
      /\ x.p = handler[c].p /\ x.i = handler[c].i /\ x.m = handler[c].m /\ x.open = handler[c].open
  BY <1>1, <1>2, <1>3, <1>4 DEF HandlerRecord
<1>7. Shaped(x)
  BY <1>6, HandlerIs DEF Shaped, Texting
<1> QED BY <1>5, <1>6, <1>7

LEMMA PerformSteps ==
  ASSUME WhatsAppInv, NEW c \in Handler, Perform(c)
  PROVE  WhatsAppTypeOK' /\ \E x : StepOf(c, x)
<1> USE DEF WhatsAppInv
<1> DEFINE u == Sender(c)
           h == handler[c]
<1>1. /\ h.pc = "perform"
      /\ UNCHANGED <<payload, session, subscribed, assigned, faults, replied, outbox, crossed>>
  BY DEF Perform, At
<1>2. Stands
  BY <1>1 DEF Stands
<1>3. CASE h.kind # "webhook"
  <2>1. Go(c, AtRest) /\ UNCHANGED <<leave, written, broken, last, charged>>
    BY <1>3 DEF Perform, InWebhook
  <2>2. handler' \in [Handler -> HandlerRecord]
    BY <2>1, Goes, AtRestIs
  <2>3. WhatsAppTypeOK'
    BY <1>1, <2>1, <2>2 DEF WhatsAppTypeOK
  <2>4. Leads(c, AtRest) /\ Taken(c, AtRest) /\ Charges
    BY <1>1, <1>3, <2>1, AtRestIs DEF Leads, Hand, Taken, Charges
  <2>5. /\ \A p \in Payload : RowsTally(c, AtRest, p)
        /\ \A p \in Payload, i \in 1..MaxLen : Rows(c, AtRest, p, i)
    BY <1>1, <1>3, <2>1, AtRestIs DEF RowsTally, Of, Rows
  <2> QED BY <1>1, <1>2, <2>1, <2>3, <2>4, <2>5, AtRestIs, EndsAnswers DEF StepOf
<1>4. CASE h.kind = "webhook"
  <2>1. Hand(h)
    BY <1>1, <1>4 DEF Hand
  <2>2. /\ u \in Phone /\ h.m.from = u
        /\ u \notin crossed =>
             /\ Carries(h, last[u], session[u])
             /\ \A d \in Handler \ {c} : InHand(d) => Sender(d) # u
    BY <2>1, InHandIs
  <2>3. CASE Fail(c) /\ UNCHANGED <<leave, written, last, charged>>
    <3>1. /\ Go(c, AtRest) /\ broken' \in [Payload -> Nat]
          /\ \A p \in Payload : RowsTally(c, AtRest, p)
          /\ \A p \in Payload, i \in 1..MaxLen : Rows(c, AtRest, p, i)
      BY <1>1, <2>3, FailCounts
    <3>2. handler' \in [Handler -> HandlerRecord]
      BY <3>1, Goes, AtRestIs
    <3>3. WhatsAppTypeOK'
      BY <1>1, <2>3, <3>1, <3>2 DEF WhatsAppTypeOK
    <3>4. Leads(c, AtRest)
      BY <1>1, <2>2, <2>3, AtRestIs DEF Leads, Hand, Carries
    <3>5. Taken(c, AtRest) /\ Charges
      BY <1>1, <2>3, AtRestIs DEF Taken, Charges
    <3> QED BY <1>1, <1>2, <3>1, <3>3, <3>4, <3>5, AtRestIs, EndsAnswers DEF StepOf
  <2>4. CASE ~(Fail(c) /\ UNCHANGED <<leave, written, last, charged>>)
    <3>1. /\ Go(c, StayOpen(c))
          /\ written' = [written EXCEPT ![Here(c)] = @ + 1]
          /\ leave' = CASE h.m.name = "LEAVE_APPROVE" -> "APPROVED"
                        [] h.m.name = "LEAVE_REJECT" -> "REJECTED"
                        [] OTHER -> leave
          /\ last' = IF h.m.name \in Opening THEN [last EXCEPT ![u] = h.m.task] ELSE last
          /\ charged' = IF h.m.name = "EXPENSE_APPLY"
                        THEN charged \cup {[task |-> h.task, last |-> last[u], sure |-> u \notin crossed]}
                        ELSE charged
          /\ broken' = broken
      BY <1>4, <2>4 DEF Perform, InWebhook
    <3>2. PICK x \in HandlerRecord :
             /\ x = StayOpen(c) /\ Shaped(x) /\ x.pc = "reply" /\ x.kind = h.kind
             /\ x.p = h.p /\ x.i = h.i /\ x.m = h.m /\ x.open = h.open
      BY <1>1, <1>4, ReplyIs
    <3>3. /\ Here(c) \in Position /\ written' \in [Position -> Nat]
          /\ written'[Here(c)] = written[Here(c)] + 1
          /\ \A y \in Position \ {Here(c)} : written'[y] = written[y]
      BY <3>1, HandlerIs DEF WhatsAppTypeOK
    <3>4. h.m.task \in Topics /\ h.task \in Topics
      BY HandlerIs DEF HandlerRecord, Message, Topics
    <3>5. /\ last' \in [Phone -> Topics] /\ last[u] \in Topics /\ \A v \in Phone \ {u} : last'[v] = last[v]
          /\ last'[u] = IF h.m.name \in Opening THEN h.m.task ELSE last[u]
      BY <2>2, <3>1, <3>4 DEF WhatsAppTypeOK
    <3>6. charged' \subseteq [task: Topics, last: Topics, sure: BOOLEAN]
      <4>1. (u \notin crossed) \in BOOLEAN
        OBVIOUS
      <4>2. PICK y \in [task: Topics, last: Topics, sure: BOOLEAN] :
               y = [task |-> h.task, last |-> last[u], sure |-> u \notin crossed]
        BY <3>4, <3>5, <4>1
      <4>3. charged' = charged \/ charged' = charged \cup {y}
        BY <3>1, <4>2
      <4> QED BY <4>3 DEF WhatsAppTypeOK
    <3>7. leave' \in {"PENDING", "APPROVED", "REJECTED"}
      BY <3>1 DEF WhatsAppTypeOK
    <3>8. handler' \in [Handler -> HandlerRecord]
      BY <3>1, <3>2, Goes
    <3>9. WhatsAppTypeOK'
      BY <1>1, <3>1, <3>3, <3>5, <3>6, <3>7, <3>8 DEF WhatsAppTypeOK
    <3>10. Answering(x)
      BY <1>1, <1>2, <3>2, StaysAnswers
    <3>11. \A p \in Payload : RowsTally(c, x, p)
      BY <1>1, <3>1, <3>2 DEF RowsTally, Of
    <3>12. h.m.name \notin Reading
      BY <1>1, <1>4, HandlerIs DEF Shaped, Texting
    <3>13. ASSUME NEW p \in Payload, NEW i \in 1..MaxLen PROVE Rows(c, x, p, i)
      <4>1. <<p, i>> \in Position
        BY DEF Position
      <4>2. CASE <<p, i>> = Here(c)
        <5>1. h.p = p /\ h.i = i
          BY <4>2 DEF Here
        <5>2. Owing(h, p, i) /\ ~Owing(x, p, i)
          BY <1>1, <1>4, <3>2, <3>12, <5>1, HandlerIs DEF Owing, Reading
        <5> QED BY <1>1, <3>3, <4>2, <5>2 DEF Rows
      <4>3. CASE <<p, i>> # Here(c)
        BY <1>1, <3>2, <3>3, <4>1, <4>3 DEF Rows, Owing, Here
      <4> QED BY <4>2, <4>3
    <3>14. u \notin crossed => Carries(x, last'[u], session[u])
      BY <1>1, <2>2, <3>2, <3>5 DEF Carries
    <3>15. Leads(c, x)
      BY <1>1, <1>4, <2>2, <3>2, <3>5, <3>14 DEF Leads, Hand
    <3>16. Charges
      <4>1. h.m.name = "EXPENSE_APPLY" => h.task \in Topic /\ h.task # NoTopic
        BY <1>1, <1>4, HandlerIs, WhatsAppAssumption DEF Shaped, Texting
      <4>2. u \notin crossed => h.task = last[u]
        BY <1>1, <2>2 DEF Carries
      <4>3. CASE h.m.name # "EXPENSE_APPLY"
        BY <3>1, <4>3 DEF Charges
      <4>4. CASE h.m.name = "EXPENSE_APPLY"
        <5>1. PICK y : y = [task |-> h.task, last |-> last[u], sure |-> u \notin crossed]
          OBVIOUS
        <5>2. charged' = charged \cup {y}
          BY <3>1, <4>4, <5>1
        <5>3. y.task = h.task /\ y.last = last[u]
          BY <5>1
        <5>4. y.sure => u \notin crossed
          BY <5>1
        <5> QED BY <4>1, <4>2, <4>4, <5>2, <5>3, <5>4 DEF Charges
      <4> QED BY <4>3, <4>4
    <3>17. Taken(c, x)
      BY <1>1, <3>2 DEF Taken
    <3> QED BY <3>1, <3>2, <3>9, <3>10, <3>11, <3>13, <3>15, <3>16, <3>17 DEF StepOf
  <2> QED BY <2>3, <2>4
<1> QED BY <1>3, <1>4

\* A handler is cut short: its message has crossed, whatever it has done.
LEMMA CutShortSteps ==
  ASSUME WhatsAppInv, NEW c \in Handler, faults < MaxFaults, faults' = faults + 1, Fail(c), CutShort(c),
         UNCHANGED <<payload, session, subscribed, assigned, leave, written, replied, outbox, last, charged>>
  PROVE  WhatsAppTypeOK' /\ \E x : StepOf(c, x)
<1> USE DEF WhatsAppInv
<1>1. /\ Go(c, AtRest) /\ broken' \in [Payload -> Nat]
      /\ \A p \in Payload : RowsTally(c, AtRest, p)
      /\ \A p \in Payload, i \in 1..MaxLen : Rows(c, AtRest, p, i)
  BY FailCounts
<1>2. handler' \in [Handler -> HandlerRecord] /\ faults' \in 0..MaxFaults
  BY <1>1, Goes, AtRestIs, WhatsAppAssumption DEF WhatsAppTypeOK
<1>3. Charges /\ Stands /\ Taken(c, AtRest)
  BY AtRestIs DEF Charges, Stands, Taken
<1>4. CASE Hand(handler[c])
  <2>1. crossed' = crossed \cup {Sender(c)} /\ Sender(c) \in Phone
    BY <1>4, InHandIs DEF CutShort, InHand, InWebhook, Hand
  <2>2. WhatsAppTypeOK'
    BY <1>1, <1>2, <2>1 DEF WhatsAppTypeOK
  <2>3. Leads(c, AtRest)
    BY <2>1, AtRestIs DEF Leads, Hand
  <2> QED BY <1>1, <1>3, <2>2, <2>3, AtRestIs, EndsAnswers DEF StepOf
<1>5. CASE ~Hand(handler[c])
  <2>1. crossed' = crossed
    BY <1>5 DEF CutShort, InHand, InWebhook, Hand
  <2>2. WhatsAppTypeOK'
    BY <1>1, <1>2, <2>1 DEF WhatsAppTypeOK
  <2>3. Leads(c, AtRest)
    BY <1>5, <2>1, AtRestIs DEF Leads, Hand
  <2> QED BY <1>1, <1>3, <2>2, <2>3, AtRestIs, EndsAnswers DEF StepOf
<1> QED BY <1>4, <1>5

LEMMA ReplySteps ==
  ASSUME WhatsAppInv, NEW c \in Handler, Reply(c)
  PROVE  WhatsAppTypeOK' /\ \E x : StepOf(c, x)
<1> USE DEF WhatsAppInv
<1> DEFINE u == Sender(c)
           h == handler[c]
<1>1. /\ h.pc = "reply"
      /\ UNCHANGED <<payload, session, subscribed, assigned, leave, written, last, charged>>
  BY DEF Reply, At
<1>2. Charges
  BY <1>1 DEF Charges
<1>3. h.kind \in {"webhook", "template"} /\ Here(c) \in Position
  BY <1>1, HandlerIs DEF Shaped, HandlerRecord
<1>4. CASE /\ outbox' = [outbox EXCEPT !.sent = @ + 1]
           /\ IF h.kind = "template" THEN UNCHANGED replied
              ELSE replied' = [replied EXCEPT ![Here(c)] = @ + 1]
           /\ Go(c, Step(c, "record")) /\ UNCHANGED <<faults, broken, crossed>>
  <2>1. PICK x \in HandlerRecord : x = Step(c, "record")
    BY StepIs
  <2>2. /\ Go(c, x) /\ x.pc = "record" /\ x.kind = h.kind /\ x.p = h.p /\ x.i = h.i
        /\ x.m = h.m /\ x.open = h.open
    BY <1>4, <2>1, StepIs
  <2>3. /\ replied' \in [Position -> Nat] /\ \A y \in Position : replied[y] > 0 => replied'[y] > 0
        /\ x.kind = "webhook" => replied'[Here(c)] > 0
    BY <1>3, <1>4, <2>2 DEF WhatsAppTypeOK
  <2>4. /\ outbox' \in [sent: Nat, recorded: Nat]
        /\ outbox'.sent = outbox.sent + 1 /\ outbox'.recorded = outbox.recorded
    BY <1>4 DEF WhatsAppTypeOK
  <2>5. handler' \in [Handler -> HandlerRecord]
    BY <2>2, Goes
  <2>6. WhatsAppTypeOK'
    BY <1>1, <1>4, <2>3, <2>4, <2>5 DEF WhatsAppTypeOK
  <2>7. Shaped(x)
    BY <1>1, <1>3, <2>2, HandlerIs DEF Shaped, Texting
  <2>8. Stands
    BY <1>1, <2>3 DEF Stands
  <2>9. Answering(x)
    BY <1>1, <2>2, <2>3, <2>7, <2>8, StaysAnswers
  <2>10. /\ \A p \in Payload : RowsTally(c, x, p)
         /\ \A p \in Payload, i \in 1..MaxLen : Rows(c, x, p, i)
    BY <1>1, <1>4, <2>2, StaysCounts
  <2>11. Leads(c, x)
    <3>1. CASE h.kind # "webhook"
      BY <1>1, <1>4, <2>2, <3>1 DEF Leads, Hand
    <3>2. CASE h.kind = "webhook"
      <4>1. Hand(h) /\ Hand(x)
        BY <1>1, <2>2, <3>2 DEF Hand
      <4>2. u \notin crossed => Carries(x, last[u], session[u])
        BY <1>1, <2>2, <4>1, InHandIs DEF Carries
      <4> QED BY <1>1, <1>4, <2>2, <4>1, <4>2, InHandIs DEF Leads
    <3> QED BY <3>1, <3>2
  <2>12. Taken(c, x)
    BY <2>4 DEF Taken
  <2> QED BY <1>2, <2>2, <2>6, <2>9, <2>10, <2>11, <2>12 DEF StepOf
<1>5. CASE /\ faults < MaxFaults /\ faults' = faults + 1 /\ Fail(c) /\ CutShort(c)
           /\ UNCHANGED <<outbox, replied>>
  BY <1>1, <1>5, CutShortSteps
<1> QED BY <1>4, <1>5 DEF Reply

LEMMA RecordReplySteps ==
  ASSUME WhatsAppInv, NEW c \in Handler, RecordReply(c)
  PROVE  WhatsAppTypeOK' /\ \E x : StepOf(c, x)
<1> USE DEF WhatsAppInv
<1> DEFINE u == Sender(c)
           h == handler[c]
<1>1. /\ h.pc = "record" /\ outbox' = [outbox EXCEPT !.recorded = @ + 1]
      /\ UNCHANGED <<payload, subscribed, assigned, leave, faults, written, replied, broken,
                     last, charged, crossed>>
  BY DEF RecordReply, At
<1>2. Charges /\ Stands
  BY <1>1 DEF Charges, Stands
<1>3. h.kind \in {"webhook", "template"}
  BY <1>1, HandlerIs DEF Shaped, HandlerRecord
<1>4. /\ outbox' \in [sent: Nat, recorded: Nat]
      /\ outbox'.sent = outbox.sent /\ outbox'.recorded = outbox.recorded + 1
  BY <1>1 DEF WhatsAppTypeOK
<1>5. CASE h.kind = "template"
  <2>1. Go(c, AtRest) /\ session' = session
    BY <1>5 DEF RecordReply
  <2>2. handler' \in [Handler -> HandlerRecord]
    BY <2>1, Goes, AtRestIs
  <2>3. WhatsAppTypeOK'
    BY <1>1, <1>4, <2>1, <2>2 DEF WhatsAppTypeOK
  <2>4. Leads(c, AtRest) /\ Taken(c, AtRest)
    BY <1>1, <1>4, <1>5, <2>1, AtRestIs DEF Leads, Hand, Taken
  <2>5. /\ \A p \in Payload : RowsTally(c, AtRest, p)
        /\ \A p \in Payload, i \in 1..MaxLen : Rows(c, AtRest, p, i)
    BY <1>1, <1>5, AtRestIs DEF RowsTally, Of, Rows
  <2> QED BY <1>1, <1>2, <2>1, <2>3, <2>4, <2>5, AtRestIs, EndsAnswers DEF StepOf
<1>6. CASE h.kind = "webhook"
  <2>1. Go(c, Step(c, "save")) /\ session' = [session EXCEPT ![u].fresh = TRUE]
    BY <1>6 DEF RecordReply
  <2>2. PICK x \in HandlerRecord : x = Step(c, "save")
    BY StepIs
  <2>3. /\ Go(c, x) /\ x.pc = "save" /\ x.kind = h.kind /\ x.p = h.p /\ x.i = h.i
        /\ x.m = h.m /\ x.open = h.open
    BY <2>1, <2>2, StepIs
  <2>4. Hand(h) /\ Hand(x)
    BY <1>1, <1>6, <2>3 DEF Hand
  <2>5. /\ session' \in [Phone -> SessionRecord]
        /\ \A v \in Phone \ {u} : session'[v] = session[v]
    <3>1. PICK s \in SessionRecord : s = [session[u] EXCEPT !.fresh = TRUE]
      BY <2>4, InHandIs DEF SessionRecord
    <3> QED BY <2>1, <2>4, <3>1, InHandIs DEF WhatsAppTypeOK
  <2>6. handler' \in [Handler -> HandlerRecord]
    BY <2>3, Goes
  <2>7. WhatsAppTypeOK'
    BY <1>1, <1>4, <2>5, <2>6 DEF WhatsAppTypeOK
  <2>8. Shaped(x)
    BY <1>1, <1>6, <2>3, HandlerIs DEF Shaped, Texting
  <2>9. replied'[Here(c)] > 0
    BY <1>1, <1>6 DEF PassedMessages, PassedOver, Here
  <2>10. Answering(x)
    BY <1>1, <1>2, <2>3, <2>8, <2>9, StaysAnswers
  <2>11. /\ \A p \in Payload : RowsTally(c, x, p)
         /\ \A p \in Payload, i \in 1..MaxLen : Rows(c, x, p, i)
    BY <1>1, <2>3, StaysCounts
  <2>12. u \notin crossed => Carries(x, last[u], session'[u])
    BY <1>1, <2>3, <2>4, InHandIs DEF Carries
  <2>13. Leads(c, x)
    BY <1>1, <2>3, <2>4, <2>5, <2>12, InHandIs DEF Leads
  <2>14. Taken(c, x)
    BY <1>1, <1>4, <2>3 DEF Taken
  <2> QED BY <1>2, <2>3, <2>7, <2>10, <2>11, <2>13, <2>14 DEF StepOf
<1> QED BY <1>3, <1>5, <1>6

LEMMA SaveSteps ==
  ASSUME WhatsAppInv, NEW c \in Handler, Save(c)
  PROVE  WhatsAppTypeOK' /\ \E x : StepOf(c, x)
<1> USE DEF WhatsAppInv
<1> DEFINE u == Sender(c)
           h == handler[c]
<1>1. /\ h.pc = "save" /\ Advance(c)
      /\ UNCHANGED <<subscribed, assigned, leave, faults, replied, outbox, broken, last, charged,
                     crossed>>
  BY DEF Save, At
<1>2. h.kind = "webhook" /\ Hand(h) /\ Here(c) \in Position /\ h.open \in Topics
  BY <1>1, HandlerIs DEF Shaped, HandlerRecord, Hand
<1>3. PICK x \in HandlerRecord :
         /\ Go(c, x) /\ Shaped(x) /\ ~Hand(x) /\ x.pc \in {"idle", "receive"}
         /\ \A p \in Payload : RowsTally(c, x, p)
         /\ payload' \in [Payload -> [messages: Batch, tries: 0..MaxTries, acked: BOOLEAN]]
         /\ \A p \in Payload : /\ payload'[p].messages = payload[p].messages
                               /\ payload'[p].tries = payload[p].tries
                               /\ payload'[p].acked => \/ payload[p].acked
                                                       \/ /\ p = handler[c].p
                                                          /\ handler[c].i = Len(payload[p].messages)
         /\ x.kind = "webhook" => x.p = handler[c].p /\ x.i = handler[c].i + 1
         /\ \A p \in Payload, i \in 1..MaxLen :
               Owing(x, p, i) => Owing(handler[c], p, i) /\ <<p, i>> # Here(c)
  BY <1>1, <1>2, AdvanceCounts
<1>4. Charges /\ Stands
  BY <1>1, <1>3 DEF Charges, Stands
<1>5. PICK s \in SessionRecord : session' = [session EXCEPT ![u] = s] /\ s.task = h.open
  <2>1. h.next \in SessionState
    BY HandlerIs DEF HandlerRecord
  <2>2. [exists |-> TRUE, state |-> h.next, task |-> h.open, fresh |-> TRUE] \in SessionRecord
    BY <1>2, <2>1 DEF SessionRecord
  <2> QED BY <2>2 DEF Save
<1>6. /\ session' \in [Phone -> SessionRecord] /\ session'[u] = s
      /\ \A v \in Phone \ {u} : session'[v] = session[v]
  BY <1>2, <1>5, InHandIs DEF WhatsAppTypeOK
<1>7. /\ written' \in [Position -> Nat] /\ \A y \in Position \ {Here(c)} : written'[y] = written[y]
      /\ written'[Here(c)] = IF h.m.name = "UNKNOWN" THEN written[Here(c)] + 1 ELSE written[Here(c)]
  BY <1>2 DEF Save, WhatsAppTypeOK
<1>8. handler' \in [Handler -> HandlerRecord]
  BY <1>3, Goes
<1>9. WhatsAppTypeOK'
  BY <1>1, <1>3, <1>6, <1>7, <1>8 DEF WhatsAppTypeOK
<1>10. SettledThen(h.p, h.i)
  <2>1. replied[<<h.p, h.i>>] > 0
    BY <1>1, <1>2 DEF PassedMessages, PassedOver
  <2> QED BY <1>1, <2>1 DEF SettledThen
<1>11. Answering(x)
  BY <1>2, <1>3, <1>4, <1>10, AdvanceAnswers
<1>12. ASSUME NEW p \in Payload, NEW i \in 1..MaxLen PROVE Rows(c, x, p, i)
  <2>1. <<p, i>> \in Position
    BY DEF Position
  <2>2. CASE <<p, i>> = Here(c)
    <3>1. h.p = p /\ h.i = i /\ h.i \in 1..MaxLen /\ MaxLen \in Nat
      BY <2>2, HandlerIs DEF Here
    <3>2. h.m.name = "UNKNOWN" => Owing(h, p, i)
      BY <1>2, <3>1 DEF Owing
    <3> QED BY <1>3, <1>7, <2>1, <2>2, <3>2 DEF Rows
  <2>3. CASE <<p, i>> # Here(c)
    BY <1>3, <1>7, <2>1, <2>3 DEF Rows
  <2> QED BY <2>2, <2>3
<1>13. u \notin crossed => s.task = last[u]
  BY <1>1, <1>2, <1>5, InHandIs DEF Carries
<1>14. Leads(c, x)
  BY <1>1, <1>2, <1>3, <1>6, <1>13, InHandIs DEF Leads
<1>15. Taken(c, x)
  BY <1>1, <1>3 DEF Taken
<1> QED BY <1>3, <1>4, <1>9, <1>11, <1>12, <1>14, <1>15 DEF StepOf

LEMMA TestCommandSteps ==
  ASSUME WhatsAppInv, NEW c \in Handler, TestCommand(c)
  PROVE  WhatsAppTypeOK' /\ \E x : StepOf(c, x)
<1> USE DEF WhatsAppInv
<1>1. /\ handler[c].pc = "idle"
      /\ UNCHANGED <<payload, session, subscribed, assigned, leave, faults, written, replied,
                     outbox, broken, last, charged, crossed>>
  BY DEF TestCommand, At
<1>2. handler[c].kind = "none"
  BY <1>1, HandlerIs DEF Shaped
<1>3. PICK p \in Payload, i \in 1..MaxLen :
         /\ i <= Len(payload[p].messages)
         /\ Go(c, [BeginMessage(c, p, i) EXCEPT !.kind = "test", !.pc = "execute"])
  BY DEF TestCommand
<1>4. i \in 1..Len(payload[p].messages)
  BY <1>3, Delivering, Longest
<1>5. PICK k \in HandlerRecord : k = BeginMessage(c, p, i)
  BY <1>4, BeginIs
<1>6. PICK x \in HandlerRecord : Go(c, x) /\ x.kind = "test" /\ x.pc = "execute"
  <2>1. PICK x : x = [k EXCEPT !.kind = "test", !.pc = "execute"]
    OBVIOUS
  <2>2. x \in HandlerRecord /\ x.kind = "test" /\ x.pc = "execute"
    BY <1>5, <2>1 DEF HandlerRecord
  <2> QED BY <1>3, <1>5, <2>1, <2>2
<1>7. Shaped(x)
  BY <1>6 DEF Shaped
<1>8. Charges /\ Stands /\ Taken(c, x)
  BY <1>1, <1>6 DEF Charges, Stands, Taken
<1>9. WhatsAppTypeOK'
  <2>1. handler' \in [Handler -> HandlerRecord]
    BY <1>6, Goes
  <2> QED BY <1>1, <2>1 DEF WhatsAppTypeOK
<1>10. Answering(x) /\ Leads(c, x)
  BY <1>1, <1>2, <1>6, <1>7, <1>8 DEF Answering, PassedOver, Leads, Hand
<1>11. /\ \A q \in Payload : RowsTally(c, x, q)
       /\ \A q \in Payload, j \in 1..MaxLen : Rows(c, x, q, j)
  BY <1>1, <1>2, <1>6 DEF RowsTally, Of, Rows, Owing
<1> QED BY <1>6, <1>8, <1>9, <1>10, <1>11 DEF StepOf

LEMMA SendTemplateSteps ==
  ASSUME WhatsAppInv, NEW c \in Handler, SendTemplate(c)
  PROVE  WhatsAppTypeOK' /\ \E x : StepOf(c, x)
<1> USE DEF WhatsAppInv
<1>1. /\ handler[c].pc = "idle" /\ Go(c, [AtRest EXCEPT !.kind = "template", !.pc = "reply"])
      /\ UNCHANGED <<payload, session, subscribed, assigned, leave, faults, written, replied,
                     outbox, broken, last, charged, crossed>>
  BY DEF SendTemplate, At
<1>2. handler[c].kind = "none"
  BY <1>1, HandlerIs DEF Shaped
<1>3. PICK x \in HandlerRecord : Go(c, x) /\ x.kind = "template" /\ x.pc = "reply"
  <2>1. PICK k \in HandlerRecord : k = AtRest
    BY AtRestIs
  <2>2. PICK x : x = [k EXCEPT !.kind = "template", !.pc = "reply"]
    OBVIOUS
  <2>3. x \in HandlerRecord /\ x.kind = "template" /\ x.pc = "reply"
    BY <2>1, <2>2 DEF HandlerRecord
  <2> QED BY <1>1, <2>1, <2>2, <2>3
<1>4. Shaped(x)
  BY <1>3 DEF Shaped
<1>5. Charges /\ Stands /\ Taken(c, x)
  BY <1>1, <1>3 DEF Charges, Stands, Taken
<1>6. WhatsAppTypeOK'
  <2>1. handler' \in [Handler -> HandlerRecord]
    BY <1>3, Goes
  <2> QED BY <1>1, <2>1 DEF WhatsAppTypeOK
<1>7. Answering(x) /\ Leads(c, x)
  BY <1>1, <1>2, <1>3, <1>4, <1>5 DEF Answering, PassedOver, Leads, Hand
<1>8. /\ \A q \in Payload : RowsTally(c, x, q)
      /\ \A q \in Payload, j \in 1..MaxLen : Rows(c, x, q, j)
  BY <1>1, <1>2, <1>3 DEF RowsTally, Of, Rows, Owing
<1> QED BY <1>3, <1>5, <1>6, <1>7, <1>8 DEF StepOf

LEMMA StopSteps ==
  ASSUME WhatsAppInv, NEW c \in Handler, Stop(c)
  PROVE  WhatsAppTypeOK' /\ \E x : StepOf(c, x)
  BY CutShortSteps DEF Stop

\* Ten minutes without a statement: a session that has run out promises nothing.
LEMMA AgeKeeps ==
  ASSUME WhatsAppInv, NEW u \in Phone, Age(u)
  PROVE  WhatsAppInv'
<1> USE DEF WhatsAppInv
<1>1. /\ session' = [session EXCEPT ![u].fresh = FALSE]
      /\ UNCHANGED <<payload, handler, subscribed, assigned, leave, faults, written, replied, outbox,
                     broken, last, charged, crossed>>
  BY DEF Age
<1>2. session[u] \in SessionRecord
  BY DEF WhatsAppTypeOK
<1>3. /\ session' \in [Phone -> SessionRecord] /\ ~session'[u].fresh
      /\ \A v \in Phone \ {u} : session'[v] = session[v]
  <2>1. PICK s : s = [session[u] EXCEPT !.fresh = FALSE]
    OBVIOUS
  <2>2. s \in SessionRecord /\ s.fresh = FALSE
    BY <1>2, <2>1 DEF SessionRecord
  <2>3. session' = [session EXCEPT ![u] = s]
    BY <1>1, <2>1
  <2> QED BY <2>2, <2>3 DEF WhatsAppTypeOK
<1>4. WhatsAppTypeOK'
  BY <1>1, <1>3 DEF WhatsAppTypeOK
<1>5. HandlerShape' /\ AnsweredBeforeAcked' /\ PassedMessages' /\ Delivered' /\ RowsCounted' /\ Recorded'
  BY <1>1 DEF HandlerShape, Shaped, Texting, AnsweredBeforeAcked, PassedMessages, PassedOver, Settled,
              Delivered, InWebhook, RowsCounted, Owed, Owing, Recorded, Unrecorded
<1>6. Following'
  <2> SUFFICES ASSUME NEW c \in Handler, InHand(c)', Sender(c)' \notin crossed'
               PROVE  /\ Carries(handler[c], last[Sender(c)], session'[Sender(c)])
                      /\ \A d \in Handler : InHand(d) /\ Sender(d) = Sender(c) => d = c
    BY <1>1 DEF Following, InHand, InWebhook, Sender, Carries
  <2>1. InHand(c) /\ Sender(c) \notin crossed
    BY <1>1 DEF InHand, InWebhook, Sender
  <2>2. /\ Carries(handler[c], last[Sender(c)], session[Sender(c)])
        /\ \A d \in Handler : InHand(d) /\ Sender(d) = Sender(c) => d = c
    BY <2>1 DEF Following
  <2>3. Sender(c) \in Phone
    BY <2>1, HandlerIs DEF InHand, InWebhook, Shaped, Texting, Sender
  <2>4. Carries(handler[c], last[Sender(c)], session'[Sender(c)])
    BY <1>3, <2>2, <2>3 DEF Carries
  <2> QED BY <2>2, <2>4
<1>7. ContextFollowsUser'
  BY <1>1, <1>3 DEF ContextFollowsUser, InHand, InWebhook, Sender
<1> QED BY <1>4, <1>5, <1>6, <1>7

\* A user is deactivated, or a task given away: no message is owed that was not before.
LEMMA AroundKeeps ==
  ASSUME WhatsAppInv, subscribed' \subseteq subscribed, assigned' \subseteq assigned,
         UNCHANGED <<payload, handler, session, leave, faults, written, replied, outbox, broken, last,
                     charged, crossed>>
  PROVE  WhatsAppInv'
<1> USE DEF WhatsAppInv
<1>1. WhatsAppTypeOK'
  BY DEF WhatsAppTypeOK
<1>2. HandlerShape' /\ Delivered' /\ RowsCounted' /\ Recorded'
  BY DEF HandlerShape, Shaped, Texting, Delivered, InWebhook, RowsCounted, Owed, Owing, Recorded, Unrecorded
<1>3. AnsweredBeforeAcked' /\ PassedMessages'
  BY DEF AnsweredBeforeAcked, PassedMessages, PassedOver, Settled
<1>4. Following' /\ ContextFollowsUser'
  BY DEF Following, ContextFollowsUser, InHand, InWebhook, Sender, Carries
<1> QED BY <1>1, <1>2, <1>3, <1>4

LEMMA InitWhatsAppInv == ASSUME WhatsAppInit PROVE WhatsAppInv
<1> USE DEF WhatsAppInit
<1>1. \A c \in Handler : handler[c] = AtRest
  OBVIOUS
<1>2. WhatsAppTypeOK
  <2>1. 0 \in 0..MaxTries /\ 0 \in 0..MaxFaults /\ 0 \in Nat
    BY WhatsAppAssumption
  <2>2. payload \in [Payload -> [messages: Batch, tries: 0..MaxTries, acked: BOOLEAN]]
    BY <2>1
  <2>3. NoSession \in SessionRecord
    BY DEF NoSession, SessionRecord, SessionState, Topics
  <2>4. handler \in [Handler -> HandlerRecord] /\ session \in [Phone -> SessionRecord]
    BY <2>3, AtRestIs
  <2>5. /\ written \in [Position -> Nat] /\ replied \in [Position -> Nat]
        /\ outbox \in [sent: Nat, recorded: Nat] /\ broken \in [Payload -> Nat]
        /\ last \in [Phone -> Topics]
    BY <2>1 DEF Topics
  <2> QED BY <2>1, <2>2, <2>4, <2>5 DEF WhatsAppTypeOK
<1>3. HandlerShape /\ PassedMessages
  BY <1>1, AtRestIs DEF HandlerShape, PassedMessages, PassedOver
<1>4. \A p \in Payload : payload[p].tries = 0 /\ payload[p].acked = FALSE
  OBVIOUS
<1>5. AnsweredBeforeAcked /\ Delivered
  BY <1>4 DEF AnsweredBeforeAcked, Delivered
<1>6. RowsCounted /\ Recorded
  <2>1. \A p, i : Owed(p, i) = {}
    BY <1>1, AtRestIs DEF Owed
  <2>2. Unrecorded = {}
    BY <1>1, AtRestIs DEF Unrecorded
  <2>3. Cardinality({}) = 0
    BY FS_EmptySet
  <2>4. \A p \in Payload, i \in 1..MaxLen : written[<<p, i>>] = 0
    BY DEF Position
  <2>5. RowsCounted
    <3> SUFFICES ASSUME NEW p \in Payload, NEW i \in 1..MaxLen
                 PROVE  written[<<p, i>>] + Cardinality(Owed(p, i)) <= payload[p].tries
      BY DEF RowsCounted
    <3>1. written[<<p, i>>] = 0 /\ Cardinality(Owed(p, i)) = 0 /\ payload[p].tries = 0
      BY <1>4, <2>1, <2>3, <2>4
    <3> QED BY <3>1
  <2>6. Recorded
    <3>1. outbox.recorded = 0 /\ outbox.sent = 0 /\ Cardinality(Unrecorded) = 0
      BY <2>2, <2>3
    <3> QED BY <3>1 DEF Recorded
  <2> QED BY <2>5, <2>6
<1>7. Following /\ ContextFollowsUser
  <2>1. \A c \in Handler : ~InHand(c)
    BY <1>1, AtRestIs DEF InHand, InWebhook
  <2>2. \A u \in Phone : ~session[u].fresh
    BY DEF NoSession
  <2> QED BY <2>1, <2>2 DEF Following, ContextFollowsUser
<1> QED BY <1>2, <1>3, <1>5, <1>6, <1>7 DEF WhatsAppInv

LEMMA NextWhatsAppInv == ASSUME WhatsAppInv, [WhatsAppNext]_whatsAppVars PROVE WhatsAppInv'
<1>1. CASE UNCHANGED whatsAppVars
  BY <1>1, AroundKeeps DEF whatsAppVars
<1>2. ASSUME NEW c \in Handler, WhatsAppTypeOK', NEW x, StepOf(c, x) PROVE WhatsAppInv'
  BY <1>2, CountsKept, AnswersKept, ContextKept DEF WhatsAppInv
<1>3. ASSUME NEW c \in Handler,
             Handle(c) \/ TestCommand(c) \/ SendTemplate(c) \/ Stop(c) \/ \E p \in Payload : Deliver(c, p)
      PROVE  WhatsAppTypeOK' /\ \E x : StepOf(c, x)
  <2>1. CASE Handle(c)
    BY <2>1, ReceiveSteps, AdmitSteps, StoreSteps, ExecuteSteps, PerformSteps, ReplySteps,
       RecordReplySteps, SaveSteps DEF Handle
  <2>2. CASE TestCommand(c)
    BY <2>2, TestCommandSteps
  <2>3. CASE SendTemplate(c)
    BY <2>3, SendTemplateSteps
  <2>4. CASE Stop(c)
    BY <2>4, StopSteps
  <2>5. CASE \E p \in Payload : Deliver(c, p)
    BY <2>5, DeliverSteps
  <2> QED BY <1>3, <2>1, <2>2, <2>3, <2>4, <2>5
<1>4. ASSUME NEW u \in Phone, Age(u) \/ Deactivate(u) PROVE WhatsAppInv'
  BY <1>4, AgeKeeps, AroundKeeps DEF Deactivate
<1>5. ASSUME NEW t \in Topic, Reassign(t) PROVE WhatsAppInv'
  BY <1>5, AroundKeeps DEF Reassign
<1> QED BY <1>1, <1>2, <1>3, <1>4, <1>5 DEF WhatsAppNext

\* The inductive invariant holds in every state of the webhook.
THEOREM WebhookStaysInOrder == WhatsAppSpec => []WhatsAppInv
<1>1. WhatsAppInit => WhatsAppInv
  BY InitWhatsAppInv
<1>2. WhatsAppInv /\ [WhatsAppNext]_whatsAppVars => WhatsAppInv'
  BY NextWhatsAppInv
<1> QED BY <1>1, <1>2, PTL DEF WhatsAppSpec

\* AnsweredOncePerDelivery for every set of payloads, messages, users and
\* handlers: what handleWebhook acknowledges is answered, and what it repeats is
\* repeated because a delivery failed or was overtaken.
THEOREM PayloadsStayAnswered == WhatsAppSpec => []AnsweredOncePerDelivery
<1>1. ASSUME WhatsAppInv PROVE AnsweredOncePerDelivery
  <2>1. WhatsAppTypeOK /\ AnsweredBeforeAcked
    BY <1>1 DEF WhatsAppInv
  <2>2. \A S \in SUBSET Handler : Cardinality(S) \in Nat
    BY WhatsAppAssumption, FS_Subset, FS_CardinalityType
  <2>3. RecordedWasSent
    <3>1. Unrecorded \in SUBSET Handler /\ outbox.recorded + Cardinality(Unrecorded) <= outbox.sent
      BY <1>1 DEF WhatsAppInv, Recorded, Unrecorded
    <3> QED BY <2>1, <2>2, <3>1 DEF RecordedWasSent, WhatsAppTypeOK
  <2>4. RepeatedOnlyByRedelivery
    <3> SUFFICES ASSUME NEW p \in Payload, NEW i \in 1..Len(payload[p].messages)
                 PROVE  written[<<p, i>>] <= broken[p] + 1
      BY DEF RepeatedOnlyByRedelivery
    <3>1. i \in 1..MaxLen /\ <<p, i>> \in Position
      BY <2>1, Delivering
    <3>2. Owed(p, i) \in SUBSET Handler /\ written[<<p, i>>] + Cardinality(Owed(p, i)) <= payload[p].tries
      BY <1>1, <3>1 DEF WhatsAppInv, RowsCounted, Owed
    <3>3. /\ payload[p].tries <= broken[p] + 1 /\ payload[p].tries \in Nat
          /\ broken[p] \in Nat /\ written[<<p, i>>] \in Nat
      BY <1>1, <2>1, <3>1 DEF WhatsAppInv, Delivered, WhatsAppTypeOK
    <3> QED BY <2>2, <3>2, <3>3
  <2> QED BY <2>1, <2>3, <2>4 DEF AnsweredOncePerDelivery
<1> QED BY <1>1, WebhookStaysInOrder, PTL

\* ContextFollowsUser likewise: unless two of a user's messages cross, or one is cut
\* short, the session that executeCommand reads names the task he has opened last.
THEOREM ContextStaysWithUser == WhatsAppSpec => []ContextFollowsUser
<1>1. WhatsAppInv => ContextFollowsUser
  BY DEF WhatsAppInv
<1> QED BY <1>1, WebhookStaysInOrder, PTL

=============================================================================
