----------------------------- MODULE TasksProofs -----------------------------
(***************************************************************************)
(* Theorems about Tasks, for any number of concurrent calls, any statuses  *)
(* and workflow, and any bounds; about the board of a project; about the   *)
(* commits on tasks that GitHub's webhook reports; and about the seed      *)
(* script, which writes tasks and the sequence of their keys.              *)
(*                                                                         *)
(* The unique key makes creations serial: a snapshot whose sequence is     *)
(* still the project's was followed by no creation, and one that is behind *)
(* names a key that is taken (KeysDense and Behind).  An occurrence is     *)
(* therefore generated from a snapshot in which it had not been (Fresh).   *)
(***************************************************************************)
EXTENDS Tasks, Board, Github, Seed, FiniteSetTheorems, TLAPS

\* Calls past their checks know their status; what they saw due was due.
Targeted ==
    \A c \in Calls :
        /\ call[c].pc \in {"open", "create", "generate", "move", "message"}
              => call[c].target \in Statuses
        /\ call[c].pc \in {"generate", "skip"} => call[c].due \in 1..LastRun

\* A snapshot is never ahead of the project's sequence.
Behind ==
    \A c \in Calls :
        call[c].pc \in {"create", "generate"} => call[c].sequence <= nextTaskSequence

\* What is due has not been generated, as far as a snapshot that no creation has
\* followed shows; only when every status is gone may nextRun fall back.
Fresh ==
    /\ live # {} => \A k \in Keys : run[k] < nextRun
    /\ \A c \in Calls : call[c].pc = "skip" => live = {}
    /\ \A c \in Calls :
          call[c].pc = "generate" /\ call[c].sequence = nextTaskSequence =>
             /\ \A k \in Keys : run[k] # call[c].due
             /\ live # {} => call[c].due = nextRun

\* The tasks a call has chosen exist.
Known ==
    \A c \in Calls, k \in Keys : call[c].seen[k] # NoStatus => taskStatus[k] # NoStatus

IInv == TypeOK /\ Targeted /\ KeysDense /\ Behind /\ Known

-----------------------------------------------------------------------------
LEMMA IdleTyped == Idle \in CallRecord
<1>1. Nothing \in [Keys -> Statuses \cup {NoStatus}]
  BY DEF Nothing
<1>2. 1 \in 1..(MaxKey + 1) /\ 1 \in 1..(LastRun + 1)
  BY ConstantsAssumption
<1> QED BY <1>1, <1>2 DEF Idle, CallRecord

LEMMA InitIInv == Init => IInv
<1> SUFFICES ASSUME Init PROVE IInv
  OBVIOUS
<1>1. TypeOK
  <2>1. call \in [Calls -> CallRecord]
    BY IdleTyped DEF Init
  <2>2. nextTaskSequence \in 1..(MaxKey + 1) /\ nextRun \in 1..(LastRun + 1)
    BY ConstantsAssumption DEF Init
  <2>3. /\ taskStatus \in [Keys -> Statuses \cup {NoStatus}]
        /\ run \in [Keys -> 0..LastRun]
    BY ConstantsAssumption DEF Init, Nothing
  <2>4. log \in [Keys -> Seq(Row)] /\ reopened \in [Keys -> Nat]
    BY DEF Init
  <2> QED BY <2>1, <2>2, <2>3, <2>4 DEF Init, TypeOK
<1>2. Targeted /\ Behind /\ Known
  BY DEF Init, Idle, Targeted, Behind, Known, Nothing
<1>3. KeysDense
  BY ConstantsAssumption DEF Init, Nothing, KeysDense, Existing, Keys
<1> QED BY <1>1, <1>2, <1>3 DEF IInv

\* A step that leaves the tasks and the template alone and changes one call into
\* one that is well typed and holds no snapshot keeps the invariant.
LEMMA CallFrame ==
  ASSUME IInv, NEW c \in Calls, NEW rec \in CallRecord,
         call' = [call EXCEPT ![c] = rec],
         rec.pc \notin {"create", "generate", "skip"},
         rec.pc \in {"open", "move", "message"} => rec.target \in Statuses,
         \A k \in Keys : rec.seen[k] # NoStatus => taskStatus[k] # NoStatus,
         UNCHANGED <<nextTaskSequence, deleted, run, nextRun>>,
         taskStatus' \in [Keys -> Statuses \cup {NoStatus}],
         \A k \in Keys : taskStatus'[k] = NoStatus <=> taskStatus[k] = NoStatus,
         reopened' \in [Keys -> Nat], log' \in [Keys -> Seq(Row)],
         live' \subseteq live
  PROVE  IInv'
<1>1. TypeOK'
  BY DEF IInv, TypeOK
<1>2. \A d \in Calls : call'[d] = IF d = c THEN rec ELSE call[d]
  BY DEF IInv, TypeOK
<1>3. Targeted'
  BY <1>2 DEF IInv, Targeted
<1>4. Behind'
  BY <1>2 DEF IInv, Behind
<1>5. KeysDense'
  BY DEF IInv, KeysDense, Existing
<1>6. Known'
  BY <1>2 DEF IInv, Known
<1> QED BY <1>1, <1>3, <1>4, <1>5, <1>6 DEF IInv

\* A key that is free is the project's next one, if it comes from a snapshot.
LEMMA FreeKeyIsNext ==
  ASSUME IInv, NEW c \in Calls, call[c].pc \in {"create", "generate"},
         KeyFree(call[c].sequence)
  PROVE  call[c].sequence = nextTaskSequence /\ nextTaskSequence \in Keys
<1>1. call[c].sequence \in Keys /\ call[c].sequence \in Nat /\ nextTaskSequence \in Nat
  BY ConstantsAssumption DEF KeyFree, IInv, TypeOK, CallRecord, Keys
<1>2. ~(call[c].sequence < nextTaskSequence)
  BY <1>1 DEF IInv, KeysDense, Existing, KeyFree
<1>3. call[c].sequence <= nextTaskSequence
  BY DEF IInv, Behind
<1> QED BY <1>1, <1>2, <1>3

LEMMA StoreKeeps ==
  ASSUME IInv, NEW c \in Calls, call[c].pc \in {"create", "generate"},
         NEW occurrence \in 0..LastRun, StoreTask(c, occurrence), Return(c),
         nextRun' \in 1..(LastRun + 1), UNCHANGED <<live, deleted, reopened>>
  PROVE  IInv'
<1> DEFINE k == call[c].sequence
<1>1. k = nextTaskSequence /\ k \in Keys
  BY FreeKeyIsNext DEF StoreTask
<1>2. call[c].target \in Statuses
  BY DEF IInv, Targeted
<1>3. /\ nextTaskSequence' = nextTaskSequence + 1
      /\ taskStatus' = [taskStatus EXCEPT ![k] = call[c].target]
      /\ run' = [run EXCEPT ![k] = occurrence]
      /\ log' = [log EXCEPT ![k] = Append(@, [from |-> NoStatus, to |-> call[c].target])]
  BY DEF StoreTask
<1>4. call' = [call EXCEPT ![c] = Idle]
  BY DEF Return
<1> HIDE DEF k
<1>5. nextTaskSequence' \in 1..(MaxKey + 1)
  BY <1>1, <1>3, ConstantsAssumption DEF Keys
<1>6. log' \in [Keys -> Seq(Row)]
  <2>1. [from |-> NoStatus, to |-> call[c].target] \in Row
    BY <1>2 DEF Row
  <2>2. Append(log[k], [from |-> NoStatus, to |-> call[c].target]) \in Seq(Row)
    BY <1>1, <2>1 DEF IInv, TypeOK
  <2> QED BY <1>3, <2>2 DEF IInv, TypeOK
<1>7. TypeOK'
  BY <1>2, <1>3, <1>4, <1>5, <1>6, IdleTyped DEF IInv, TypeOK
<1>8. \A d \in Calls : call'[d] = Idle \/ call'[d] = call[d]
  BY <1>4 DEF IInv, TypeOK
<1>9. Targeted'
  BY <1>8 DEF IInv, Targeted, Idle
<1>10. Behind'
  <2>1. nextTaskSequence \in Nat /\ \A d \in Calls : call[d].sequence \in Nat
    BY ConstantsAssumption DEF IInv, TypeOK, CallRecord
  <2> QED BY <1>3, <1>8, <2>1 DEF IInv, Behind, Idle
<1>11. KeysDense'
  <2>1. \A j \in Keys : j \in Existing' <=> (j \in Existing \/ j = k)
    BY <1>1, <1>2, <1>3, ConstantsAssumption DEF Existing, IInv, TypeOK
  <2>2. \A j \in Keys : j < nextTaskSequence' <=> (j < nextTaskSequence \/ j = k)
    BY <1>1, <1>3 DEF Keys
  <2> QED BY <2>1, <2>2 DEF IInv, KeysDense
<1>12. Known'
  <2>1. \A j \in Keys : taskStatus[j] # NoStatus => taskStatus'[j] # NoStatus
    BY <1>1, <1>2, <1>3, ConstantsAssumption DEF IInv, TypeOK
  <2>2. \A j \in Keys : Idle.seen[j] = NoStatus
    BY DEF Idle, Nothing
  <2> QED BY <1>8, <2>1, <2>2 DEF IInv, Known
<1> QED BY <1>7, <1>9, <1>10, <1>11, <1>12 DEF IInv

\* A step of a call that takes a snapshot.
LEMMA SnapshotKeeps ==
  ASSUME IInv, NEW c \in Calls, NEW rec \in CallRecord,
         call' = [call EXCEPT ![c] = rec],
         rec.pc \in {"create", "generate"} =>
            rec.target \in Statuses /\ rec.sequence = nextTaskSequence,
         rec.pc \in {"generate", "skip"} => rec.due \in 1..LastRun,
         rec.pc \in {"create", "generate", "skip"},
         \A k \in Keys : rec.seen[k] # NoStatus => taskStatus[k] # NoStatus,
         UNCHANGED <<nextTaskSequence, live, taskStatus, deleted, reopened, run, log, nextRun>>
  PROVE  IInv'
<1>1. TypeOK'
  BY DEF IInv, TypeOK
<1>2. \A d \in Calls : call'[d] = IF d = c THEN rec ELSE call[d]
  BY DEF IInv, TypeOK
<1>3. Targeted'
  BY <1>2 DEF IInv, Targeted
<1>4. Behind'
  BY <1>2, ConstantsAssumption DEF IInv, Behind, TypeOK
<1>5. KeysDense'
  BY DEF IInv, KeysDense, Existing
<1>6. Known'
  BY <1>2 DEF IInv, Known
<1> QED BY <1>1, <1>3, <1>4, <1>5, <1>6 DEF IInv

LEMMA CallIInv ==
  ASSUME IInv, NEW c \in Calls, CallStep(c)
  PROVE  IInv'
<1>0. call[c] \in CallRecord /\ call \in [Calls -> CallRecord]
  BY DEF IInv, TypeOK
<1>1. ASSUME Return(c), UNCHANGED <<nextTaskSequence, deleted, run, nextRun>>,
             taskStatus' \in [Keys -> Statuses \cup {NoStatus}],
             \A k \in Keys : taskStatus'[k] = NoStatus <=> taskStatus[k] = NoStatus,
             reopened' \in [Keys -> Nat], log' \in [Keys -> Seq(Row)], live' \subseteq live
      PROVE  IInv'
  <2>1. Idle.pc = "idle" /\ \A k \in Keys : Idle.seen[k] = NoStatus
    BY DEF Idle, Nothing
  <2> QED BY <1>1, <2>1, IdleTyped, CallFrame DEF Return
<1>2. ASSUME UNCHANGED <<nextTaskSequence, live, taskStatus, deleted, reopened, run, log, nextRun>>,
             NEW rec \in CallRecord, call' = [call EXCEPT ![c] = rec],
             rec.pc \in {"open", "target", "move", "message", "drop"},
             rec.pc \in {"open", "move", "message"} => rec.target \in Statuses,
             \A k \in Keys : rec.seen[k] # NoStatus => taskStatus[k] # NoStatus
      PROVE  IInv'
  BY <1>2, CallFrame DEF IInv, TypeOK
<1>3. ASSUME NEW s \in Statuses, CreateTask(c, s) PROVE IInv'
  <2> DEFINE rec == [call[c] EXCEPT !.pc = "open", !.target = s]
  <2>1. /\ rec \in CallRecord /\ rec.pc = "open" /\ rec.target = s
        /\ rec.seen = call[c].seen
    BY <1>0 DEF CallRecord
  <2>2. call' = [call EXCEPT ![c] = rec]
    BY <1>3 DEF CreateTask
  <2>3. \A k \in Keys : rec.seen[k] # NoStatus => taskStatus[k] # NoStatus
    BY <2>1 DEF IInv, Known
  <2> HIDE DEF rec
  <2> QED BY <1>2, <1>3, <2>1, <2>2, <2>3 DEF CreateTask
<1>4. CASE OpenCreate(c)
  <2> DEFINE rec == [call[c] EXCEPT !.pc = "create", !.sequence = nextTaskSequence]
  <2>1. rec \in CallRecord
    BY <1>0 DEF CallRecord, IInv, TypeOK
  <2>2. call' = [call EXCEPT ![c] = rec]
    BY <1>4 DEF OpenCreate
  <2>3. /\ rec.pc = "create" /\ rec.target = call[c].target
        /\ rec.sequence = nextTaskSequence /\ rec.seen = call[c].seen
    BY <1>0 DEF CallRecord
  <2>4. call[c].target \in Statuses
    BY <1>4 DEF OpenCreate, IInv, Targeted
  <2>5. \A k \in Keys : rec.seen[k] # NoStatus => taskStatus[k] # NoStatus
    BY <2>3 DEF IInv, Known
  <2> HIDE DEF rec
  <2> QED BY <1>4, <2>1, <2>2, <2>3, <2>4, <2>5, SnapshotKeeps DEF OpenCreate
<1>5. CASE CommitCreate(c)
  <2>1. CASE StoreTask(c, 0) /\ UNCHANGED nextRun
    BY <1>5, <2>1, StoreKeeps, ConstantsAssumption DEF CommitCreate, IInv, TypeOK
  <2>2. CASE Conflict(c)
    BY <1>1, <1>5, <2>2 DEF CommitCreate, Conflict, IInv, TypeOK
  <2> QED BY <1>5, <2>1, <2>2 DEF CommitCreate
<1>6. CASE OpenRun(c)
  <2>1. nextRun \in 1..LastRun /\ nextRun \in 1..(LastRun + 1)
    <3>1. nextRun <= LastRun /\ nextRun \in 1..(LastRun + 1)
      BY <1>6 DEF OpenRun, IInv, TypeOK
    <3> QED BY <3>1, ConstantsAssumption
  <2>2. ASSUME NEW s \in live,
               call' = [call EXCEPT ![c] = [Idle EXCEPT
                  !.pc = "generate", !.target = s,
                  !.sequence = nextTaskSequence, !.due = nextRun]]
        PROVE  IInv'
    <3> DEFINE rec == [Idle EXCEPT !.pc = "generate", !.target = s,
                                   !.sequence = nextTaskSequence, !.due = nextRun]
    <3>1. s \in Statuses
      BY DEF IInv, TypeOK
    <3>2. rec \in CallRecord
      BY <2>1, <3>1, IdleTyped DEF CallRecord, IInv, TypeOK
    <3>3. /\ rec.pc = "generate" /\ rec.target = s
          /\ rec.sequence = nextTaskSequence /\ rec.due = nextRun
          /\ \A k \in Keys : rec.seen[k] = NoStatus
      BY DEF Idle, Nothing
    <3>4. call' = [call EXCEPT ![c] = rec]
      BY <2>2
    <3>5. UNCHANGED <<nextTaskSequence, live, taskStatus, deleted, reopened, run, log, nextRun>>
      BY <1>6 DEF OpenRun
    <3> HIDE DEF rec
    <3> QED BY <2>1, <3>1, <3>2, <3>3, <3>4, <3>5, SnapshotKeeps
  <2>3. CASE call' = [call EXCEPT ![c] = [Idle EXCEPT !.pc = "skip", !.due = nextRun]]
    <3> DEFINE rec == [Idle EXCEPT !.pc = "skip", !.due = nextRun]
    <3>1. rec \in CallRecord
      BY <2>1, IdleTyped DEF CallRecord
    <3>2. rec.pc = "skip" /\ rec.due = nextRun /\ \A k \in Keys : rec.seen[k] = NoStatus
      BY DEF Idle, Nothing
    <3>3. call' = [call EXCEPT ![c] = rec]
      BY <2>3
    <3>4. UNCHANGED <<nextTaskSequence, live, taskStatus, deleted, reopened, run, log, nextRun>>
      BY <1>6 DEF OpenRun
    <3> HIDE DEF rec
    <3> QED BY <2>1, <3>1, <3>2, <3>3, <3>4, SnapshotKeeps
  <2> QED BY <1>6, <2>2, <2>3 DEF OpenRun
<1>7. CASE CommitRun(c)
  <2>1. call[c].due \in 1..LastRun
    BY <1>7 DEF CommitRun, IInv, Targeted
  <2>2. call[c].due \in 0..LastRun /\ call[c].due + 1 \in 1..(LastRun + 1)
    BY <2>1, ConstantsAssumption
  <2>3. CASE call[c].pc = "generate" /\ StoreTask(c, call[c].due) /\ nextRun' = call[c].due + 1
    BY <1>7, <2>2, <2>3, StoreKeeps DEF CommitRun
  <2>4. CASE Conflict(c)
    BY <1>1, <1>7, <2>4 DEF CommitRun, Conflict, IInv, TypeOK
  <2>5. CASE /\ call[c].pc = "skip" /\ nextRun' = call[c].due + 1
             /\ UNCHANGED <<nextTaskSequence, taskStatus, run, log>>
    <3>1. TypeOK'
      BY <1>7, <2>2, <2>5, IdleTyped DEF CommitRun, Return, IInv, TypeOK
    <3>2. \A d \in Calls : call'[d] = Idle \/ call'[d] = call[d]
      BY <1>0, <1>7 DEF CommitRun, Return
    <3>3. Targeted' /\ Behind'
      BY <2>5, <3>2 DEF IInv, Targeted, Behind, Idle
    <3>4. KeysDense'
      BY <2>5 DEF IInv, KeysDense, Existing
    <3>5. Known'
      BY <2>5, <3>2 DEF IInv, Known, Idle, Nothing
    <3> QED BY <3>1, <3>3, <3>4, <3>5 DEF IInv
  <2> QED BY <1>7, <2>3, <2>4, <2>5 DEF CommitRun
<1>8. ASSUME NEW K \in SUBSET Keys, ReadTasks(c, K) PROVE IInv'
  <2> DEFINE seen == [k \in Keys |-> IF k \in K THEN taskStatus[k] ELSE NoStatus]
             rec == [call[c] EXCEPT !.pc = "target", !.seen = seen]
  <2>1. seen \in [Keys -> Statuses \cup {NoStatus}]
    BY DEF IInv, TypeOK
  <2>2. call' = [call EXCEPT ![c] = rec]
    BY <1>8 DEF ReadTasks
  <2>4. \A k \in Keys : seen[k] # NoStatus => taskStatus[k] # NoStatus
    OBVIOUS
  <2> HIDE DEF seen
  <2>3. rec \in CallRecord /\ rec.pc = "target" /\ rec.seen = seen
    BY <1>0, <2>1 DEF CallRecord
  <2> HIDE DEF rec
  <2> QED BY <1>2, <1>8, <2>2, <2>3, <2>4 DEF ReadTasks
<1>9. ASSUME NEW s \in Statuses, ResolveTarget(c, s) PROVE IInv'
  <2>1. CASE Return(c)
    BY <1>1, <1>9, <2>1 DEF ResolveTarget, IInv, TypeOK
  <2>2. CASE call' = [call EXCEPT ![c].pc = "move", ![c].target = s]
    <3> DEFINE rec == [call[c] EXCEPT !.pc = "move", !.target = s]
    <3>1. /\ rec \in CallRecord /\ rec.pc = "move" /\ rec.target = s
          /\ rec.seen = call[c].seen
      BY <1>0 DEF CallRecord
    <3>2. call' = [call EXCEPT ![c] = rec]
      BY <2>2
    <3>3. \A k \in Keys : rec.seen[k] # NoStatus => taskStatus[k] # NoStatus
      BY <3>1 DEF IInv, Known
    <3> HIDE DEF rec
    <3> QED BY <1>2, <1>9, <3>1, <3>2, <3>3 DEF ResolveTarget
  <2> QED BY <1>9, <2>1, <2>2 DEF ResolveTarget
<1>10. CASE MoveTasks(c)
  <2>1. call[c].target \in Statuses
    BY <1>10 DEF MoveTasks, IInv, Targeted
  <2>2. \A k \in Chosen(c) : call[c].seen[k] \in Statuses
    BY <1>0 DEF Chosen, CallRecord
  <2>3. taskStatus' \in [Keys -> Statuses \cup {NoStatus}]
    BY <1>10, <2>1 DEF MoveTasks, IInv, TypeOK
  <2>4. reopened' \in [Keys -> Nat]
    BY <1>10 DEF MoveTasks, IInv, TypeOK
  <2>5. log' \in [Keys -> Seq(Row)]
    <3>1. ASSUME NEW k \in Keys, k \in Chosen(c)
          PROVE  Append(log[k], [from |-> call[c].seen[k], to |-> call[c].target]) \in Seq(Row)
      <4>1. [from |-> call[c].seen[k], to |-> call[c].target] \in Row
        BY <2>1, <2>2, <3>1 DEF Row
      <4> QED BY <4>1 DEF IInv, TypeOK
    <3>2. \A k \in Keys : log[k] \in Seq(Row)
      BY DEF IInv, TypeOK
    <3> QED BY <1>10, <3>1, <3>2 DEF MoveTasks
  <2>6. \A k \in Keys : taskStatus'[k] = NoStatus <=> taskStatus[k] = NoStatus
    BY <1>10, <2>1, ConstantsAssumption DEF MoveTasks, Chosen, IInv, Known
  <2>7. Return(c) /\ UNCHANGED <<nextTaskSequence, live, deleted, run, nextRun>>
    BY <1>10 DEF MoveTasks
  <2> QED BY <1>1, <2>3, <2>4, <2>5, <2>6, <2>7
<1>11. ASSUME NEW k \in Keys, NEW s \in Statuses, OpenMessage(c, k, s) PROVE IInv'
  <2> DEFINE seen == [Nothing EXCEPT ![k] = taskStatus[k]]
             rec == [call[c] EXCEPT !.pc = "message", !.target = s, !.seen = seen]
  <2>1. seen \in [Keys -> Statuses \cup {NoStatus}]
    BY DEF Nothing, IInv, TypeOK
  <2>2. call' = [call EXCEPT ![c] = rec]
    BY <1>11 DEF OpenMessage
  <2>4. \A j \in Keys : seen[j] # NoStatus => taskStatus[j] # NoStatus
    BY DEF Nothing
  <2> HIDE DEF seen
  <2>3. rec \in CallRecord /\ rec.pc = "message" /\ rec.target = s /\ rec.seen = seen
    BY <1>0, <2>1 DEF CallRecord
  <2> HIDE DEF rec
  <2> QED BY <1>2, <1>11, <2>2, <2>3, <2>4 DEF OpenMessage
<1>12. CASE ExecuteCommand(c)
  <2>1. call[c].target \in Statuses
    BY <1>12 DEF ExecuteCommand, IInv, Targeted
  <2>2. taskStatus' \in [Keys -> Statuses \cup {NoStatus}]
    BY <1>12, <2>1 DEF ExecuteCommand, IInv, TypeOK
  <2>3. \A k \in Keys : taskStatus'[k] = NoStatus <=> taskStatus[k] = NoStatus
    BY <1>12, <2>1, ConstantsAssumption DEF ExecuteCommand, Chosen, IInv, Known
  <2>4. /\ Return(c)
        /\ UNCHANGED <<nextTaskSequence, live, deleted, reopened, run, log, nextRun>>
    BY <1>12 DEF ExecuteCommand
  <2> QED BY <1>1, <2>2, <2>3, <2>4 DEF IInv, TypeOK
<1>13. ASSUME NEW s \in Statuses, CountTasks(c, s) PROVE IInv'
  <2> DEFINE rec == [call[c] EXCEPT !.pc = "drop", !.target = s]
  <2>1. rec \in CallRecord /\ rec.pc = "drop" /\ rec.seen = call[c].seen
    BY <1>0 DEF CallRecord
  <2>2. call' = [call EXCEPT ![c] = rec]
    BY <1>13 DEF CountTasks
  <2>3. \A k \in Keys : rec.seen[k] # NoStatus => taskStatus[k] # NoStatus
    BY <2>1 DEF IInv, Known
  <2> HIDE DEF rec
  <2> QED BY <1>2, <1>13, <2>1, <2>2, <2>3 DEF CountTasks
<1>14. CASE DropStatus(c)
  BY <1>1, <1>14 DEF DropStatus, IInv, TypeOK
<1> QED BY <1>3, <1>4, <1>5, <1>6, <1>7, <1>8, <1>9, <1>10, <1>11, <1>12, <1>13, <1>14
        DEF CallStep

LEMMA NextIInv == IInv /\ [Next]_vars => IInv'
<1> SUFFICES ASSUME IInv, [Next]_vars PROVE IInv'
  OBVIOUS
<1>1. ASSUME NEW k \in Keys, DeleteTask(k) PROVE IInv'
  BY <1>1 DEF DeleteTask, IInv, TypeOK, Targeted, KeysDense, Existing, Behind, Known
<1>2. CASE UNCHANGED vars
  BY <1>2 DEF vars, IInv, TypeOK, Targeted, KeysDense, Existing, Behind, Known
<1> QED BY <1>1, <1>2, CallIInv DEF Next

\* The tables of tasks, statuses and transitions stay well typed; the sequence
\* does not run past the keys.
THEOREM TypeCorrect == Spec => []TypeOK
<1>1. IInv => TypeOK
  BY DEF IInv
<1> QED BY <1>1, InitIInv, NextIInv, PTL DEF Spec

\* Concurrent creations leave neither a gap in the keys nor a sequence number
\* that was drawn and not used.
THEOREM KeysStayDense == Spec => []KeysDense
<1>1. IInv => KeysDense
  BY DEF IInv
<1> QED BY <1>1, InitIInv, NextIInv, PTL DEF Spec

-----------------------------------------------------------------------------
\* What GeneratedOnce needs to be inductive.
GInv == IInv /\ Fresh /\ GeneratedOnce

\* A step that neither creates a task nor moves nextRun, and leaves every call
\* that generates or skips as it was.
LEMMA FreshFrame ==
  ASSUME GInv, UNCHANGED <<nextTaskSequence, run, nextRun>>, live' \subseteq live,
         \A c \in Calls : \/ call'[c] = call[c]
                          \/ call'[c].pc \notin {"generate", "skip"}
  PROVE  Fresh' /\ GeneratedOnce'
  BY DEF GInv, Fresh, GeneratedOnce

LEMMA OpenRunFresh ==
  ASSUME GInv, NEW c \in Calls, OpenRun(c)
  PROVE  Fresh' /\ GeneratedOnce'
<1>1. UNCHANGED <<nextTaskSequence, live, run, nextRun>>
  BY DEF OpenRun
<1>2. \A d \in Calls \ {c} : call'[d] = call[d]
  BY DEF OpenRun, GInv, IInv, TypeOK
<1>3. \/ call'[c].pc = "generate" /\ call'[c].due = nextRun /\ live # {}
      \/ call'[c].pc = "skip" /\ live = {}
  BY DEF OpenRun, Idle, GInv, IInv, TypeOK
<1>4. \A k \in Keys : run[k] \in Nat /\ nextRun \in Nat
  BY ConstantsAssumption DEF GInv, IInv, TypeOK
<1>5. live # {} => \A k \in Keys : run[k] # nextRun
  BY <1>4 DEF GInv, Fresh
<1> QED BY <1>1, <1>2, <1>3, <1>5 DEF GInv, Fresh, GeneratedOnce

\* A task that is stored takes the next key, so that every snapshot is behind.
LEMMA StoreFresh ==
  ASSUME GInv, NEW c \in Calls, call[c].pc \in {"create", "generate"},
         NEW occurrence \in 0..LastRun, StoreTask(c, occurrence), Return(c),
         UNCHANGED live,
         \/ call[c].pc = "create" /\ occurrence = 0 /\ UNCHANGED nextRun
         \/ call[c].pc = "generate" /\ occurrence = call[c].due /\ nextRun' = occurrence + 1
  PROVE  Fresh' /\ GeneratedOnce'
<1> DEFINE k == call[c].sequence
<1>0. call[c].sequence = nextTaskSequence /\ nextTaskSequence \in Keys
  BY FreeKeyIsNext DEF StoreTask, GInv
<1>1. k = nextTaskSequence /\ k \in Keys
  BY <1>0
<1>2. nextTaskSequence' = nextTaskSequence + 1 /\ run' = [run EXCEPT ![k] = occurrence]
  BY DEF StoreTask
<1>3. \A d \in Calls : call'[d] = Idle \/ call'[d] = call[d]
  BY DEF Return, GInv, IInv, TypeOK
<1> HIDE DEF k
<1>4. run'[k] = occurrence /\ \A j \in Keys \ {k} : run'[j] = run[j]
  BY <1>1, <1>2 DEF GInv, IInv, TypeOK
<1>5. \A j \in Keys : run[j] \in Nat /\ nextRun \in Nat /\ occurrence \in Nat
  BY ConstantsAssumption DEF GInv, IInv, TypeOK
<1>6. occurrence # 0 => \A j \in Keys : run[j] # occurrence
  BY <1>0 DEF GInv, Fresh
<1>7. GeneratedOnce'
  BY <1>4, <1>6 DEF GInv, GeneratedOnce
<1>8. ASSUME live # {} PROVE \A j \in Keys : run'[j] < nextRun'
  <2>1. \A j \in Keys : run[j] < nextRun
    BY <1>8 DEF GInv, Fresh
  <2>2. CASE occurrence = 0 /\ nextRun' = nextRun
    <3>1. 0 < nextRun
      BY ConstantsAssumption DEF GInv, IInv, TypeOK
    <3> QED BY <1>4, <2>1, <2>2, <3>1
  <2>3. CASE call[c].pc = "generate" /\ occurrence = call[c].due /\ nextRun' = occurrence + 1
    <3>1. occurrence = nextRun
      BY <1>0, <1>8, <2>3 DEF GInv, Fresh
    <3> QED BY <1>4, <1>5, <2>1, <2>3, <3>1
  <2> QED BY <2>2, <2>3
<1>9. \A d \in Calls : call'[d].pc = "generate" => call'[d].sequence # nextTaskSequence'
  <2>1. nextTaskSequence \in Nat /\ \A d \in Calls : call[d].sequence \in Nat
    BY ConstantsAssumption DEF GInv, IInv, TypeOK, CallRecord
  <2> QED BY <1>2, <1>3, <2>1 DEF GInv, IInv, Behind, Idle
<1>10. \A d \in Calls : call'[d].pc = "skip" => live' = {}
  BY <1>3 DEF GInv, Fresh, Idle
<1>11. Fresh'
  BY <1>8, <1>9, <1>10 DEF Fresh
<1> QED BY <1>7, <1>11

LEMMA CallFresh ==
  ASSUME GInv, NEW c \in Calls, CallStep(c)
  PROVE  Fresh' /\ GeneratedOnce'
<1>0. call[c] \in CallRecord /\ call \in [Calls -> CallRecord]
  BY DEF GInv, IInv, TypeOK
<1>1. ASSUME Return(c), UNCHANGED <<nextTaskSequence, run, nextRun>>, live' \subseteq live
      PROVE  Fresh' /\ GeneratedOnce'
  <2>1. \A d \in Calls : call'[d] = call[d] \/ call'[d].pc = "idle"
    BY <1>0, <1>1 DEF Return, Idle
  <2> QED BY <1>1, <2>1, FreshFrame
<1>2. ASSUME \A d \in Calls \ {c} : call'[d] = call[d],
             call'[c].pc \in {"open", "create", "target", "move", "message", "drop"},
             UNCHANGED <<nextTaskSequence, live, run, nextRun>>
      PROVE  Fresh' /\ GeneratedOnce'
  BY <1>2, FreshFrame
<1>3. CASE \/ \E s \in Statuses : CreateTask(c, s) \/ CountTasks(c, s)
           \/ OpenCreate(c)
           \/ \E K \in SUBSET Keys : ReadTasks(c, K)
           \/ \E k \in Keys, s \in Statuses : OpenMessage(c, k, s)
  <2>1. UNCHANGED <<nextTaskSequence, live, run, nextRun>>
    BY <1>3 DEF CreateTask, CountTasks, OpenCreate, ReadTasks, OpenMessage
  <2>2. /\ \A d \in Calls \ {c} : call'[d] = call[d]
        /\ call'[c].pc \in {"open", "create", "target", "message", "drop"}
    <3>1. ASSUME NEW s, CreateTask(c, s) \/ CountTasks(c, s)
          PROVE  /\ \A d \in Calls \ {c} : call'[d] = call[d]
                 /\ call'[c].pc \in {"open", "drop"}
      BY <1>0, <3>1 DEF CreateTask, CountTasks, CallRecord
    <3>2. CASE OpenCreate(c)
      BY <1>0, <3>2 DEF OpenCreate, CallRecord
    <3>3. ASSUME NEW K, ReadTasks(c, K)
          PROVE  /\ \A d \in Calls \ {c} : call'[d] = call[d]
                 /\ call'[c].pc = "target"
      BY <1>0, <3>3 DEF ReadTasks, CallRecord
    <3>4. ASSUME NEW k, NEW s, OpenMessage(c, k, s)
          PROVE  /\ \A d \in Calls \ {c} : call'[d] = call[d]
                 /\ call'[c].pc = "message"
      BY <1>0, <3>4 DEF OpenMessage, CallRecord
    <3> QED BY <1>3, <3>1, <3>2, <3>3, <3>4
  <2> QED BY <1>2, <2>1, <2>2
<1>4. ASSUME NEW s \in Statuses, ResolveTarget(c, s) PROVE Fresh' /\ GeneratedOnce'
  <2>1. CASE Return(c)
    BY <1>1, <1>4, <2>1 DEF ResolveTarget
  <2>2. CASE call' = [call EXCEPT ![c].pc = "move", ![c].target = s]
    BY <1>0, <1>2, <1>4, <2>2 DEF ResolveTarget, CallRecord
  <2> QED BY <1>4, <2>1, <2>2 DEF ResolveTarget
<1>5. CASE MoveTasks(c) \/ ExecuteCommand(c) \/ DropStatus(c)
  BY <1>1, <1>5 DEF MoveTasks, ExecuteCommand, DropStatus
<1>6. CASE CommitCreate(c)
  BY <1>1, <1>6, StoreFresh, ConstantsAssumption DEF CommitCreate, Conflict
<1>7. CASE CommitRun(c)
  <2>1. call[c].due \in 0..LastRun
    BY <1>7, ConstantsAssumption DEF CommitRun, GInv, IInv, Targeted
  <2>2. CASE call[c].pc = "generate" /\ StoreTask(c, call[c].due) /\ nextRun' = call[c].due + 1
    BY <1>7, <2>1, <2>2, StoreFresh DEF CommitRun
  <2>3. CASE Conflict(c)
    BY <1>1, <1>7, <2>3 DEF CommitRun, Conflict
  <2>4. CASE call[c].pc = "skip" /\ UNCHANGED <<nextTaskSequence, run>>
    <3>1. live' = {}
      BY <1>7, <2>4 DEF CommitRun, GInv, Fresh
    <3>2. \A d \in Calls : call'[d] = Idle \/ call'[d] = call[d]
      BY <1>0, <1>7 DEF CommitRun, Return
    <3> QED BY <2>4, <3>1, <3>2 DEF GInv, Fresh, GeneratedOnce, Idle
  <2> QED BY <1>7, <2>2, <2>3, <2>4 DEF CommitRun
<1> QED BY <1>3, <1>4, <1>5, <1>6, <1>7, OpenRunFresh DEF CallStep

LEMMA NextFresh == GInv /\ [Next]_vars => GInv'
<1> SUFFICES ASSUME GInv, [Next]_vars PROVE Fresh' /\ GeneratedOnce'
  BY NextIInv DEF GInv
<1>1. CASE UNCHANGED <<nextTaskSequence, live, run, nextRun, call>>
  BY <1>1, FreshFrame
<1> QED BY <1>1, CallFresh DEF Next, DeleteTask, vars

\* However many ticks, replicas and creations overlap, an occurrence of a
\* recurring template is generated at most once.
THEOREM GenerationOnce == Spec => []GeneratedOnce
<1>1. Init => GInv
  <2>1. Init => Fresh /\ GeneratedOnce
    BY DEF Init, Idle, Fresh, GeneratedOnce
  <2> QED BY <2>1, InitIInv DEF GInv
<1>2. GInv => GeneratedOnce
  BY DEF GInv
<1> QED BY <1>1, <1>2, NextFresh, PTL DEF Spec
-----------------------------------------------------------------------------
\* The rows of a task begin when it is stored.
Started == \A k \in Keys : taskStatus[k] # NoStatus => log[k] # <<>>

Unstarted == \A k \in Keys : taskStatus[k] = NoStatus => log[k] = <<>>

LInv == IInv /\ Started /\ Unstarted

\* Every step leaves the rows and the status of all tasks alone, or stores one,
\* or is a change of status.
LEMMA StepOnRows ==
  ASSUME IInv, [Next]_vars
  PROVE  \/ UNCHANGED <<taskStatus, log, reopened>>
         \/ \E c \in Calls, occurrence \in 0..LastRun :
               /\ call[c].pc \in {"create", "generate"} /\ StoreTask(c, occurrence)
               /\ UNCHANGED reopened
         \/ \E c \in Calls : MoveTasks(c)
         \/ \E c \in Calls : ExecuteCommand(c)
<1>1. ASSUME NEW c \in Calls, CommitRun(c)
      PROVE  \/ UNCHANGED <<taskStatus, log, reopened>>
             \/ /\ call[c].pc = "generate" /\ StoreTask(c, call[c].due)
                /\ UNCHANGED reopened /\ call[c].due \in 0..LastRun
  <2>1. call[c].pc = "generate" => call[c].due \in 0..LastRun
    BY ConstantsAssumption DEF IInv, Targeted
  <2> QED BY <1>1, <2>1 DEF CommitRun, Conflict
<1>2. ASSUME NEW c \in Calls, CommitCreate(c)
      PROVE  \/ UNCHANGED <<taskStatus, log, reopened>>
             \/ /\ call[c].pc = "create" /\ StoreTask(c, 0) /\ UNCHANGED reopened
                /\ 0 \in 0..LastRun
  BY <1>2, ConstantsAssumption DEF CommitCreate, Conflict
<1>3. ASSUME NEW c \in Calls,
             \/ \E s \in Statuses : CreateTask(c, s) \/ ResolveTarget(c, s) \/ CountTasks(c, s)
             \/ OpenCreate(c) \/ OpenRun(c) \/ DropStatus(c)
             \/ \E K \in SUBSET Keys : ReadTasks(c, K)
             \/ \E k \in Keys, s \in Statuses : OpenMessage(c, k, s)
      PROVE  UNCHANGED <<taskStatus, log, reopened>>
  BY <1>3 DEF CreateTask, ResolveTarget, CountTasks, OpenCreate, OpenRun, DropStatus,
              ReadTasks, OpenMessage
<1>4. ASSUME NEW k \in Keys, DeleteTask(k) PROVE UNCHANGED <<taskStatus, log, reopened>>
  BY <1>4 DEF DeleteTask
<1>5. ASSUME NEW c \in Calls, CallStep(c)
      PROVE  \/ UNCHANGED <<taskStatus, log, reopened>>
             \/ CommitCreate(c) \/ CommitRun(c) \/ MoveTasks(c) \/ ExecuteCommand(c)
  BY <1>3, <1>5 DEF CallStep
<1> QED BY <1>1, <1>2, <1>4, <1>5 DEF Next, vars

\* What storing a task does to the rows: they begin with its status.
LEMMA StoreRows ==
  ASSUME LInv, NEW c \in Calls, call[c].pc \in {"create", "generate"},
         NEW occurrence, StoreTask(c, occurrence)
  PROVE  \E k \in Keys :
            /\ taskStatus[k] = NoStatus /\ taskStatus'[k] # NoStatus
            /\ log'[k] = <<[from |-> NoStatus, to |-> call[c].target]>>
            /\ \A j \in Keys \ {k} : taskStatus'[j] = taskStatus[j] /\ log'[j] = log[j]
<1> DEFINE k == call[c].sequence
           row == [from |-> NoStatus, to |-> call[c].target]
<1>1. k \in Keys /\ taskStatus[k] = NoStatus
  BY DEF StoreTask, KeyFree
<1>2. log[k] = <<>>
  BY <1>1 DEF LInv, Unstarted
<1>3. call[c].target \in Statuses
  BY DEF LInv, IInv, Targeted
<1>4. taskStatus' = [taskStatus EXCEPT ![k] = call[c].target] /\ log' = [log EXCEPT ![k] = Append(@, row)]
  BY DEF StoreTask
<1>5. /\ taskStatus'[k] = call[c].target /\ log'[k] = Append(log[k], row)
      /\ \A j \in Keys \ {k} : taskStatus'[j] = taskStatus[j] /\ log'[j] = log[j]
  BY <1>1, <1>4 DEF LInv, IInv, TypeOK
<1>6. Append(<<>>, row) = <<row>>
  OBVIOUS
<1> HIDE DEF k
<1> QED BY <1>1, <1>2, <1>3, <1>5, <1>6, ConstantsAssumption

\* What a change of status does to the rows of a task.
LEMMA MoveRows ==
  ASSUME LInv, NEW c \in Calls, MoveTasks(c), NEW k \in Keys
  PROVE  /\ call[c].target \in Statuses
         /\ k \notin Chosen(c) => /\ taskStatus'[k] = taskStatus[k] /\ log'[k] = log[k]
                                 /\ reopened'[k] = reopened[k]
         /\ k \in Chosen(c) =>
              LET from == call[c].seen[k]
                  to == call[c].target
              IN /\ from \in Statuses /\ taskStatus[k] # NoStatus /\ taskStatus'[k] = to
                 /\ log'[k] = IF from # to THEN Append(log[k], [from |-> from, to |-> to])
                              ELSE log[k]
                 /\ reopened'[k] = IF from \in Done /\ to \notin Done THEN reopened[k] + 1
                                   ELSE reopened[k]
<1>1. call[c].target \in Statuses
  BY DEF MoveTasks, LInv, IInv, Targeted
<1>2. k \in Chosen(c) => call[c].seen[k] \in Statuses /\ taskStatus[k] # NoStatus
  BY DEF Chosen, LInv, IInv, TypeOK, CallRecord, Known
<1> QED BY <1>1, <1>2 DEF MoveTasks, Logged, Reopens

LEMMA NextLInv == LInv /\ [Next]_vars => LInv'
<1> SUFFICES ASSUME LInv, [Next]_vars PROVE Started' /\ Unstarted'
  BY NextIInv DEF LInv
<1> USE DEF Started, Unstarted
<1>0. \A k \in Keys : log[k] \in Seq(Row)
  BY DEF LInv, IInv, TypeOK
<1>1. CASE UNCHANGED <<taskStatus, log, reopened>>
  BY <1>1 DEF LInv
<1>2. ASSUME NEW c \in Calls, NEW occurrence, call[c].pc \in {"create", "generate"},
             StoreTask(c, occurrence)
      PROVE  Started' /\ Unstarted'
  <2>1. \A row : <<row>> # <<>>
    OBVIOUS
  <2>2. PICK k \in Keys :
            /\ taskStatus'[k] # NoStatus /\ \E row : log'[k] = <<row>>
            /\ \A j \in Keys \ {k} : taskStatus'[j] = taskStatus[j] /\ log'[j] = log[j]
    BY <1>2, StoreRows
  <2>3. log'[k] # <<>>
    BY <2>1, <2>2
  <2> QED BY <2>2, <2>3 DEF LInv
<1>3. ASSUME NEW c \in Calls, MoveTasks(c), NEW k \in Keys
      PROVE  taskStatus'[k] # NoStatus <=> log'[k] # <<>>
  <2>1. CASE k \notin Chosen(c)
    BY <1>3, <2>1, MoveRows DEF LInv
  <2>2. CASE k \in Chosen(c)
    <3>1. taskStatus'[k] # NoStatus /\ taskStatus[k] # NoStatus
      <4>1. /\ taskStatus'[k] = call[c].target /\ call[c].target \in Statuses
            /\ taskStatus[k] # NoStatus
        BY <1>3, <2>2, MoveRows
      <4>2. NoStatus \notin Statuses
        BY ConstantsAssumption
      <4> QED BY <4>1, <4>2
    <3>2. log[k] # <<>>
      BY <3>1 DEF LInv
    <3>3. \A row \in Row : Append(log[k], row) # <<>>
      BY <1>0
    <3>4. [from |-> call[c].seen[k], to |-> call[c].target] \in Row
      BY <1>3, <2>2, MoveRows DEF Row
    <3> QED BY <1>3, <2>2, <3>1, <3>2, <3>3, <3>4, MoveRows
  <2> QED BY <2>1, <2>2
<1>4. ASSUME NEW c \in Calls, ExecuteCommand(c), NEW k \in Keys
      PROVE  taskStatus'[k] # NoStatus <=> log'[k] # <<>>
  <2>1. call[c].target \in Statuses
    BY <1>4 DEF ExecuteCommand, LInv, IInv, Targeted
  <2>2. k \in Chosen(c) => taskStatus[k] # NoStatus
    BY DEF Chosen, LInv, IInv, Known
  <2>3. taskStatus'[k] # NoStatus <=> taskStatus[k] # NoStatus
    BY <1>4, <2>1, <2>2, ConstantsAssumption DEF ExecuteCommand
  <2> QED BY <1>4, <2>3 DEF ExecuteCommand, LInv
<1> QED BY <1>1, <1>2, <1>3, <1>4, StepOnRows DEF LInv

LEMMA InitLInv == Init => LInv
<1>1. Init => Started /\ Unstarted
  BY DEF Init, Nothing, Started, Unstarted
<1> QED BY <1>1, InitIInv DEF LInv

\* The path from a task's creation to its status has no gap but where a change
\* worked on a status that was no longer the task's, or came by WhatsApp.
THEOREM StaleChangeBreaksPath == Spec => PathBreaksByStaleChange
<1> DEFINE Broken(k) ==
              \E c \in Calls :
                 /\ call[c].pc \in {"move", "message"} /\ call'[c] = Idle
                 /\ call[c].seen[k] # NoStatus
                 /\ call[c].pc = "message" \/ call[c].seen[k] # taskStatus[k]
<1>1. ASSUME LInv, [Next]_vars, NEW k \in Existing, Tracks(k), ~Tracks(k)'
      PROVE  Broken(k)
  <2>0. k \in Keys /\ taskStatus[k] # NoStatus /\ log[k] \in Seq(Row) /\ log[k] # <<>>
    BY <1>1 DEF Existing, LInv, IInv, TypeOK, Started
  <2>1. ~(taskStatus'[k] = taskStatus[k] /\ log'[k] = log[k])
    BY <1>1 DEF Tracks
  <2>2. \A c \in Calls : call' = [call EXCEPT ![c] = Idle] => call'[c] = Idle
    BY <1>1 DEF LInv, IInv, TypeOK
  <2>3. ASSUME NEW c \in Calls, MoveTasks(c) PROVE Broken(k)
    <3>1. k \in Chosen(c)
      BY <1>1, <2>0, <2>1, <2>3, MoveRows
    <3> DEFINE from == call[c].seen[k]
               to == call[c].target
               row == [from |-> from, to |-> to]
    <3>2. /\ from \in Statuses /\ to \in Statuses /\ taskStatus'[k] = to
          /\ log'[k] = IF from # to THEN Append(log[k], row) ELSE log[k]
      BY <1>1, <2>0, <2>3, <3>1, MoveRows
    <3>3. ASSUME from = taskStatus[k] PROVE FALSE
      <4>1. from # to
        BY <2>1, <3>2, <3>3
      <4>2. row \in Row /\ row.from = from /\ row.to = to
        BY <3>2 DEF Row
      <4> HIDE DEF row
      <4>3. DEFINE n == Len(log[k])
      <4>4. n \in Nat \ {0}
        BY <2>0
      <4>5. /\ Len(log'[k]) = n + 1 /\ log'[k][n + 1] = row
            /\ \A i \in 1..n : log'[k][i] = log[k][i]
        BY <2>0, <3>2, <4>1, <4>2
      <4>6. log[k][n].to = from
        BY <1>1, <3>3 DEF Tracks
      <4>7. \A i \in 2..n : log[k][i].from = log[k][i - 1].to
        BY <1>1 DEF Tracks
      <4> HIDE DEF n
      <4>8. ASSUME NEW i \in 2..(n + 1) PROVE log'[k][i].from = log'[k][i - 1].to
        <5>1. CASE i = n + 1
          BY <4>2, <4>4, <4>5, <4>6, <5>1
        <5>2. CASE i \in 2..n
          <6>1. i \in 1..n /\ i - 1 \in 1..n
            BY <4>4, <5>2
          <6> QED BY <4>5, <4>7, <5>2, <6>1
        <5> QED BY <4>4, <5>1, <5>2
      <4>9. Tracks(k)'
        BY <3>2, <4>2, <4>5, <4>8 DEF Tracks
      <4> QED BY <1>1, <4>9
    <3> QED BY <2>2, <2>3, <3>1, <3>3 DEF MoveTasks, Return, Chosen
  <2>4. ASSUME NEW c \in Calls, ExecuteCommand(c) PROVE Broken(k)
    <3>1. k \in Chosen(c)
      BY <2>0, <2>1, <2>4 DEF ExecuteCommand
    <3> QED BY <2>2, <2>4, <3>1 DEF ExecuteCommand, Return, Chosen
  <2>5. ASSUME NEW c \in Calls, NEW occurrence, call[c].pc \in {"create", "generate"},
               StoreTask(c, occurrence)
        PROVE  FALSE
    BY <1>1, <2>0, <2>1, <2>5, StoreRows
  <2> QED BY <1>1, <2>1, <2>3, <2>4, <2>5, StepOnRows DEF LInv
<1>2. LInv /\ [Next]_vars =>
         [\A k \in Existing : Tracks(k) /\ ~Tracks(k)' =>
             \E c \in Calls :
                /\ call[c].pc \in {"move", "message"} /\ call'[c] = Idle
                /\ call[c].seen[k] # NoStatus
                /\ \/ call[c].pc = "message"
                   \/ call[c].seen[k] # taskStatus[k]]_vars
  BY <1>1
<1> QED BY <1>2, InitLInv, NextLInv, PTL DEF Spec, PathBreaksByStaleChange

-----------------------------------------------------------------------------
\* The rows that show a task leaving a done status.
Reopenings(rows) == {i \in 2..Len(rows) : rows[i].from \in Done /\ rows[i].to \notin Done}

LEMMA ReopeningsAfterRow ==
  ASSUME NEW rows \in Seq(Row), rows # <<>>, NEW row \in Row
  PROVE  /\ IsFiniteSet(Reopenings(rows))
         /\ Cardinality(Reopenings(rows)) \in Nat
         /\ Cardinality(Reopenings(Append(rows, row))) =
               IF row.from \in Done /\ row.to \notin Done
               THEN Cardinality(Reopenings(rows)) + 1 ELSE Cardinality(Reopenings(rows))
<1> DEFINE n == Len(rows)
           after == Append(rows, row)
<1>1. n \in Nat /\ n >= 1
  OBVIOUS
<1>2. /\ Len(after) = n + 1 /\ after[n + 1] = row
      /\ \A i \in 1..n : after[i] = rows[i]
  OBVIOUS
<1>3. IsFiniteSet(2..n)
  BY <1>1, FS_Interval
<1>4. IsFiniteSet(Reopenings(rows))
  <2>1. Reopenings(rows) \subseteq 2..n
    BY DEF Reopenings
  <2> QED BY <1>3, <2>1, FS_Subset
<1>5. Cardinality(Reopenings(rows)) \in Nat
  BY <1>4, FS_CardinalityType
<1> HIDE DEF after, n
<1>6. Reopenings(after) = Reopenings(rows) \cup
         (IF row.from \in Done /\ row.to \notin Done THEN {n + 1} ELSE {})
  <2>1. \A i \in 2..(n + 1) : i = n + 1 \/ i \in 2..n
    BY <1>1
  <2>2. \A i \in 2..n : i \in 2..(n + 1) /\ i \in 1..n
    BY <1>1
  <2>3. n + 1 \in 2..(n + 1)
    BY <1>1
  <2>4. n = Len(rows)
    BY DEF n
  <2> QED BY <1>2, <2>1, <2>2, <2>3, <2>4 DEF Reopenings
<1>7. n + 1 \notin Reopenings(rows)
  BY <1>1 DEF Reopenings, n
<1>8. Cardinality(Reopenings(rows) \cup {n + 1}) = Cardinality(Reopenings(rows)) + 1
  BY <1>4, <1>7, FS_AddElement
<1> QED BY <1>4, <1>5, <1>6, <1>8 DEF after

RInv == LInv /\ ReopenedCounts

\* reopenedCount and the rows do not part, however stale the status a change was
\* checked against: both follow the status that was read.
THEOREM ReopenedCountsHold == Spec => []ReopenedCounts
<1>1. ReopenedCounts <=> \A k \in Keys : reopened[k] = Cardinality(Reopenings(log[k]))
  BY DEF ReopenedCounts, Reopenings
<1>2. Reopenings(<<>>) = {} /\ \A row : Reopenings(<<row>>) = {}
  BY DEF Reopenings
<1>3. Cardinality({}) = 0
  BY FS_EmptySet
<1>4. Init => RInv
  BY <1>1, <1>2, <1>3, InitLInv DEF RInv, Init
<1>5. RInv /\ [Next]_vars => RInv'
  <2> SUFFICES ASSUME RInv, [Next]_vars, NEW k \in Keys
               PROVE  reopened'[k] = Cardinality(Reopenings(log'[k]))
    BY NextLInv DEF RInv, ReopenedCounts, Reopenings
  <2>0. LInv /\ IInv /\ log[k] \in Seq(Row) /\ reopened[k] = Cardinality(Reopenings(log[k]))
    BY <1>1 DEF RInv, LInv, IInv, TypeOK
  <2>1. CASE reopened'[k] = reopened[k] /\ log'[k] = log[k]
    BY <2>0, <2>1
  <2>2. ASSUME NEW c \in Calls, NEW occurrence, call[c].pc \in {"create", "generate"},
               StoreTask(c, occurrence), UNCHANGED reopened
        PROVE  reopened'[k] = Cardinality(Reopenings(log'[k]))
    <3>1. PICK j \in Keys :
             /\ taskStatus[j] = NoStatus
             /\ log'[j] = <<[from |-> NoStatus, to |-> call[c].target]>>
             /\ \A i \in Keys \ {j} : log'[i] = log[i]
      BY <2>0, <2>2, StoreRows
    <3>2. log[j] = <<>>
      BY <2>0, <3>1 DEF LInv, Unstarted
    <3>3. CASE k = j
      BY <1>2, <2>0, <2>2, <3>1, <3>2, <3>3
    <3> QED BY <2>1, <2>2, <3>1, <3>3
  <2>3. ASSUME NEW c \in Calls, MoveTasks(c)
        PROVE  reopened'[k] = Cardinality(Reopenings(log'[k]))
    <3>1. CASE k \notin Chosen(c)
      BY <2>0, <2>1, <2>3, <3>1, MoveRows
    <3>2. CASE k \in Chosen(c)
      <4> DEFINE from == call[c].seen[k]
                 to == call[c].target
                 row == [from |-> from, to |-> to]
      <4>1. /\ from \in Statuses /\ to \in Statuses /\ taskStatus[k] # NoStatus
            /\ log'[k] = IF from # to THEN Append(log[k], row) ELSE log[k]
            /\ reopened'[k] = IF from \in Done /\ to \notin Done THEN reopened[k] + 1
                              ELSE reopened[k]
        BY <2>0, <2>3, <3>2, MoveRows
      <4>2. log[k] # <<>>
        BY <2>0, <4>1 DEF LInv, Started
      <4>3. row \in Row /\ row.from = from /\ row.to = to
        BY <4>1 DEF Row
      <4> HIDE DEF row
      <4>4. Cardinality(Reopenings(Append(log[k], row))) =
               IF from \in Done /\ to \notin Done
               THEN Cardinality(Reopenings(log[k])) + 1 ELSE Cardinality(Reopenings(log[k]))
        BY <2>0, <4>2, <4>3, ReopeningsAfterRow
      <4> QED BY <2>0, <4>1, <4>4
    <3> QED BY <3>1, <3>2
  <2>4. ASSUME NEW c \in Calls, ExecuteCommand(c) PROVE UNCHANGED <<log, reopened>>
    BY <2>4 DEF ExecuteCommand
  <2> QED BY <2>0, <2>1, <2>2, <2>3, <2>4, StepOnRows
<1>6. RInv => ReopenedCounts
  BY DEF RInv
<1> QED BY <1>4, <1>5, <1>6, PTL DEF Spec

-----------------------------------------------------------------------------
\* The board.  What a fetch has read and the cache holds is the server's, unless
\* others wrote meanwhile or a move has been answered whose fetch is to begin
\* (Current); a card shown elsewhere than the cache has it is explained by its
\* move, by a write that the cache has not seen, or by a refusal (Displaced).

\* A card that is moving is a card, and moves to a column.
Underway ==
    \A m \in Moves : move[m].pc # "none" => move[m].card \in Cards /\ move[m].to \in Columns

\* No answer is ahead of the server.
NotAhead ==
    \A t \in Cards : fetch.answer.writes[t] <= writes[t] /\ data.writes[t] <= writes[t]

\* No move has been answered whose fetch is still to begin.
Answered == \A m \in Moves : move[m].pc \in {"none", "sent"}

\* What has been read, or is in the cache, is as it is on the server.
Current ==
    ~behind =>
        /\ fetch.pc \in {"tasks", "answer"} => fetch.answer.columns = columns
        /\ Answered /\ fetch.pc = "answer" => fetch.answer = Answer(columns)
        /\ Answered /\ fetch.pc = "none" => data = Answer(columns)

\* A card shown elsewhere is moving, has moved since the answer, or was refused.
Displaced ==
    \A t \in Cards : shown[t] # data.at[t] =>
        \/ t \in refused
        \/ data.writes[t] < writes[t]
        \/ \E m \in Moves : move[m].pc \in {"sent", "failed"} /\ move[m].card = t

BoardInv == BoardTypeOK /\ Underway /\ NotAhead /\ Current /\ Displaced

LEMMA AnswerTyped ==
    ASSUME BoardTypeOK, NEW C \in SUBSET Columns PROVE Answer(C) \in AnswerRecord
BY DEF BoardTypeOK, Answer, AnswerRecord

LEMMA NoDataTyped == NoData \in AnswerRecord
BY DEF NoData, AnswerRecord

LEMMA BoardInitInv == BoardInit => BoardInv
<1> SUFFICES ASSUME BoardInit PROVE BoardInv
  OBVIOUS
<1> USE BoardAssumption, NoDataTyped DEF BoardInit
<1>1. BoardTypeOK
  BY DEF BoardTypeOK, Fetching, NoMove, NoData, AnswerRecord
<1>2. Underway /\ NotAhead /\ Current /\ Displaced
  BY DEF Underway, NotAhead, Current, Displaced, NoMove, Fetching, NoData
<1> QED BY <1>1, <1>2 DEF BoardInv

LEMMA BoardStepInv == BoardInv /\ [BoardNext]_boardVars => BoardInv'
<1> SUFFICES ASSUME BoardInv, [BoardNext]_boardVars PROVE BoardInv'
  OBVIOUS
<1> USE DEF BoardInv
<1>1. ASSUME NEW t \in Cards, NEW s \in Columns, OthersMove(t, s) PROVE BoardInv'
  <2> USE <1>1 DEF OthersMove, Store
  <2>1. BoardTypeOK'
    BY DEF BoardTypeOK
  <2>2. \A u \in Cards : writes[u] <= writes'[u] /\ writes[u] \in Nat
    BY DEF BoardTypeOK
  <2>3. \A u \in Cards : data.writes[u] \in Nat /\ fetch.answer.writes[u] \in Nat /\ writes'[u] \in Nat
    BY <2>1 DEF BoardTypeOK, AnswerRecord
  <2>4. Underway' /\ Current'
    BY DEF Underway, Current
  <2>5. NotAhead'
    BY <2>2, <2>3 DEF NotAhead
  <2>6. Displaced'
    BY <2>2, <2>3 DEF Displaced
  <2> QED BY <2>1, <2>4, <2>5, <2>6
<1>2. ASSUME NEW s \in Columns, OthersAddColumn(s) PROVE BoardInv'
  BY <1>2 DEF OthersAddColumn, BoardTypeOK, Underway, NotAhead, Current, Displaced
<1>3. CASE ReadStatuses
  <2> USE <1>3 DEF ReadStatuses
  <2>0. NoData.writes = [t \in Cards |-> 0] /\ [NoData EXCEPT !.columns = columns] \in AnswerRecord
        /\ [NoData EXCEPT !.columns = columns].columns = columns
        /\ [NoData EXCEPT !.columns = columns].writes = [t \in Cards |-> 0]
    BY DEF NoData, AnswerRecord, BoardTypeOK
  <2>1. BoardTypeOK'
    BY <2>0 DEF BoardTypeOK
  <2>2. NotAhead'
    <3>1. fetch'.answer.writes = [t \in Cards |-> 0]
      BY <2>0
    <3>2. \A t \in Cards : fetch'.answer.writes[t] = 0 /\ writes[t] \in Nat
      BY <3>1 DEF BoardTypeOK
    <3> QED BY <3>2 DEF NotAhead
  <2>3. Underway' /\ Displaced'
    BY DEF Underway, Displaced
  <2>4. Current'
    BY <2>0 DEF Current
  <2> QED BY <2>1, <2>2, <2>3, <2>4
<1>4. CASE ReadCards
  <2> USE <1>4 DEF ReadCards
  <2>0. /\ Answer(fetch.answer.columns) \in AnswerRecord
        /\ Answer(fetch.answer.columns).columns = fetch.answer.columns
        /\ Answer(fetch.answer.columns).writes = writes
    <3>1. fetch.answer.columns \in SUBSET Columns
      BY DEF BoardTypeOK, AnswerRecord
    <3>2. Answer(fetch.answer.columns) \in AnswerRecord
      BY <3>1, AnswerTyped
    <3> QED BY <3>2 DEF Answer
  <2>1. BoardTypeOK'
    BY <2>0 DEF BoardTypeOK
  <2>2. NotAhead'
    BY <2>0, <2>1 DEF NotAhead, BoardTypeOK
  <2>3. Underway' /\ Displaced'
    BY DEF Underway, Displaced
  <2>4. Current'
    <3> SUFFICES ASSUME ~behind PROVE /\ fetch'.answer.columns = columns
                                      /\ fetch'.answer = Answer(columns)'
      BY DEF Current
    <3>1. fetch.answer.columns = columns
      BY DEF Current
    <3>2. Answer(columns)' = Answer(columns)
      BY DEF Answer
    <3> QED BY <3>1, <3>2, <2>0
  <2> QED BY <2>1, <2>2, <2>3, <2>4
<1>5. CASE Deliver
  <2> USE <1>5 DEF Deliver
  <2>1. BoardTypeOK'
    BY NoDataTyped DEF BoardTypeOK, NoFetch, AnswerRecord
  <2>2. NotAhead'
    BY DEF NotAhead, NoFetch, NoData, BoardTypeOK
  <2>3. Underway' /\ Displaced'
    BY DEF Underway, Displaced
  <2>4. Current'
    BY DEF Current, Answered, NoFetch, Answer
  <2> QED BY <2>1, <2>2, <2>3, <2>4
<1>6. CASE FetchFails
  <2> USE <1>6 DEF FetchFails
  <2>1. BoardTypeOK'
    BY NoDataTyped DEF BoardTypeOK, NoFetch
  <2>2. NotAhead'
    BY DEF NotAhead, NoFetch, NoData, BoardTypeOK
  <2>3. Underway' /\ Displaced' /\ Current'
    BY DEF Underway, Displaced, Current
  <2> QED BY <2>1, <2>2, <2>3
<1>7. CASE Remount
  <2> USE <1>7 DEF Remount
  <2>0. fetch' = fetch \/ (fetch.pc = "none" /\ fetch' = Fetching)
    OBVIOUS
  <2>1. BoardTypeOK'
    BY NoDataTyped, <2>0 DEF BoardTypeOK, Fetching, AnswerRecord
  <2>2. NotAhead'
    BY <2>0 DEF NotAhead, Fetching, NoData, BoardTypeOK
  <2>3. Underway' /\ Displaced'
    BY DEF Underway, Displaced
  <2>4. Current'
    BY <2>0 DEF Current, Answered, Fetching, Answer
  <2> QED BY <2>1, <2>2, <2>3, <2>4
<1>8. ASSUME NEW m \in Moves, NEW t \in Cards, NEW s \in Columns, Drop(m, t, s) PROVE BoardInv'
  <2> USE <1>8 DEF Drop
  <2>1. BoardTypeOK'
    BY DEF BoardTypeOK
  <2>2. NotAhead' /\ Underway'
    BY DEF NotAhead, Underway, BoardTypeOK
  <2>3. Displaced'
    <3> SUFFICES ASSUME NEW u \in Cards, shown'[u] # data'.at[u]
                 PROVE \/ u \in refused'
                       \/ data'.writes[u] < writes'[u]
                       \/ \E n \in Moves : move'[n].pc \in {"sent", "failed"} /\ move'[n].card = u
      BY DEF Displaced
    <3>1. CASE u = t
      BY <3>1 DEF BoardTypeOK
    <3>2. CASE u # t
      BY <3>2 DEF BoardTypeOK, Displaced
    <3> QED BY <3>1, <3>2
  <2>4. Current'
    BY DEF Current, Answered, Answer, BoardTypeOK
  <2> QED BY <2>1, <2>2, <2>3, <2>4
<1>9. ASSUME NEW m \in Moves, Accept(m) PROVE BoardInv'
  <2> DEFINE t == move[m].card
  <2>0. t \in Cards /\ move[m].to \in Columns
    BY <1>9 DEF Accept, Underway
  <2> USE <1>9 DEF Accept, Store
  <2>1. BoardTypeOK'
    BY <2>0 DEF BoardTypeOK
  <2>2. \A u \in Cards : /\ writes[u] <= writes'[u] /\ writes[u] \in Nat
                         /\ u = t => writes[u] < writes'[u]
    BY <2>0 DEF BoardTypeOK
  <2>3. \A u \in Cards : data.writes[u] \in Nat /\ fetch.answer.writes[u] \in Nat /\ writes'[u] \in Nat
    BY <2>1 DEF BoardTypeOK, AnswerRecord
  <2>4. Underway'
    BY DEF Underway, BoardTypeOK
  <2>5. NotAhead'
    BY <2>2, <2>3 DEF NotAhead
  <2>6. Displaced'
    <3> SUFFICES ASSUME NEW u \in Cards, shown[u] # data.at[u]
                 PROVE \/ u \in refused
                       \/ data.writes[u] < writes'[u]
                       \/ \E n \in Moves : move'[n].pc \in {"sent", "failed"} /\ move'[n].card = u
      BY DEF Displaced
    <3>1. CASE u = t
      BY <3>1, <2>2, <2>3 DEF NotAhead
    <3>2. CASE u # t
      BY <3>2, <2>2, <2>3 DEF BoardTypeOK, Displaced
    <3> QED BY <3>1, <3>2
  <2>7. Current'
    <3>1. move'[m].pc \in {"ok", "failed"}
      BY DEF BoardTypeOK
    <3>2. ~Answered'
      BY <3>1 DEF Answered
    <3> QED BY <3>2 DEF Current
  <2> QED BY <2>1, <2>4, <2>5, <2>6, <2>7
<1>10. ASSUME NEW m \in Moves, Refuse(m) PROVE BoardInv'
  <2> USE <1>10 DEF Refuse
  <2>1. BoardTypeOK'
    BY DEF BoardTypeOK
  <2>2. NotAhead' /\ Underway'
    BY DEF NotAhead, Underway, BoardTypeOK
  <2>3. Displaced'
    <3> SUFFICES ASSUME NEW u \in Cards, shown[u] # data.at[u]
                 PROVE \/ u \in refused
                       \/ data.writes[u] < writes[u]
                       \/ \E n \in Moves : move'[n].pc \in {"sent", "failed"} /\ move'[n].card = u
      BY DEF Displaced
    <3>1. \A n \in Moves : move[n].pc \in {"sent", "failed"} /\ move[n].card = u =>
                           move'[n].pc \in {"sent", "failed"} /\ move'[n].card = u
      BY DEF BoardTypeOK
    <3> QED BY <3>1 DEF Displaced
  <2>4. Current'
    <3>1. move'[m].pc = "failed"
      BY DEF BoardTypeOK
    <3>2. ~Answered'
      BY <3>1 DEF Answered
    <3> QED BY <3>2 DEF Current
  <2> QED BY <2>1, <2>2, <2>3, <2>4
<1>11. ASSUME NEW m \in Moves, Settle(m) PROVE BoardInv'
  <2> USE <1>11 DEF Settle, Invalidated
  <2>0. move[m].card \in Cards
    BY DEF Underway
  <2>1. BoardTypeOK'
    BY NoDataTyped, <2>0 DEF BoardTypeOK, Fetching, NoMove, AnswerRecord
  <2>2. NotAhead' /\ Underway'
    BY DEF NotAhead, Underway, BoardTypeOK, Fetching, NoMove, NoData
  <2>3. Displaced'
    <3> SUFFICES ASSUME NEW u \in Cards, shown[u] # data.at[u]
                 PROVE \/ u \in refused'
                       \/ data.writes[u] < writes[u]
                       \/ \E n \in Moves : move'[n].pc \in {"sent", "failed"} /\ move'[n].card = u
      BY DEF Displaced
    <3>1. CASE u \in refused \/ data.writes[u] < writes[u]
      BY <3>1
    <3>2. CASE \E n \in Moves : move[n].pc \in {"sent", "failed"} /\ move[n].card = u
      <4> PICK n \in Moves : move[n].pc \in {"sent", "failed"} /\ move[n].card = u
        BY <3>2
      <4>1. CASE n = m
        BY <4>1
      <4>2. CASE n # m
        <5>1. move'[n] = move[n]
          BY <4>2 DEF BoardTypeOK
        <5> QED BY <5>1
      <4> QED BY <4>1, <4>2
    <3> QED BY <3>1, <3>2 DEF Displaced
  <2>4. Current'
    BY DEF Current, Fetching
  <2> QED BY <2>1, <2>2, <2>3, <2>4
<1>12. CASE UNCHANGED boardVars
  BY <1>12 DEF boardVars, BoardTypeOK, Underway, NotAhead, Current, Displaced, Answered, Answer
<1> QED
  BY <1>1, <1>2, <1>3, <1>4, <1>5, <1>6, <1>7, <1>8, <1>9, <1>10, <1>11, <1>12 DEF BoardNext

\* A quiet board shows what the server has, but for cards whose move failed
\* (KanbanBoard, getKanban, changeStatus).
THEOREM BoardStaysCurrent == BoardSpec => []QuietBoardIsCurrent
<1>1. BoardInv => QuietBoardIsCurrent
  <2> SUFFICES ASSUME BoardInv, Quiet, ~behind
               PROVE /\ data = Answer(columns)
                     /\ \A t \in Cards : shown[t] # data.at[t] => t \in refused
    BY DEF QuietBoardIsCurrent
  <2>1. data = Answer(columns)
    BY DEF BoardInv, Current, Quiet, Answered
  <2>2. data.writes = writes
    BY <2>1 DEF Answer
  <2>3. \A t \in Cards : ~(data.writes[t] < writes[t])
    BY <2>2 DEF BoardInv, BoardTypeOK
  <2> QED BY <2>1, <2>3 DEF BoardInv, Displaced, Quiet
<1> QED BY <1>1, BoardInitInv, BoardStepInv, PTL DEF BoardSpec

-----------------------------------------------------------------------------
(***************************************************************************)
(* The GitHub webhook.  A delivery that has a row is worked on by the one  *)
(* request that created it (OneTaker), which has accounted for the commits *)
(* it has passed (Passed); whoever marks a commit or asks for its hours    *)
(* has seen its mapping (MappedFirst); and as long as nothing has failed,  *)
(* what is unfinished has a request that will finish it (Unfinished).      *)
(***************************************************************************)
Taking(k) == k.kind = "webhook" /\ k.pc \in {"take", "keep", "map", "ask", "failed"}

ShapeOf(k) ==
    /\ k.kind = "none" <=> k.pc = "idle"
    /\ k.kind = "manager" => k.pc \in {"map", "mark", "ask"}
    /\ k.kind = "webhook" => k.pc \in {"create", "take", "keep", "map", "ask", "failed"}
    /\ k.pc \in {"map", "mark", "ask"} => k.task \in Ticket
    /\ k.i >= 1 /\ (k.pc = "create" => k.i = 1)

HookShape == \A c \in HookCall : ShapeOf(hook[c])

OneTaker ==
    /\ \A c \in HookCall : Taking(hook[c]) => received[hook[c].d] = "RECEIVED"
    /\ \A b, c \in HookCall : Taking(hook[b]) /\ Taking(hook[c]) /\ hook[b].d = hook[c].d => b = c
    /\ \A d \in Delivery : runs[d] <= 1 /\ (received[d] = "NONE" => runs[d] = 0)

PassedBy(k) ==
    k.kind = "webhook" =>
        /\ k.pc \in {"take", "keep", "map", "ask"} =>
              \A j \in 1..Len(delivery[k.d].commits) : j < k.i => Accounted(delivery[k.d].commits[j])
        /\ k.pc \in {"keep", "map", "ask"} =>
              k.i <= Len(delivery[k.d].commits) /\ delivery[k.d].commits[k.i].sha = k.sha

Passed == \A c \in HookCall : PassedBy(hook[c])

MappedFirst ==
    /\ MarkedIsMapped
    /\ \A c \in HookCall : hook[c].pc \in {"mark", "ask"} => mapping[<<hook[c].sha, hook[c].task>>] # "none"

Owes(k, x) == k.pc \in {"mark", "ask"} /\ k.user = Author /\ <<k.sha, k.task>> = x

Unfinished ==
    hookFaults = 0 =>
        /\ \A c \in HookCall : hook[c].pc # "failed"
        /\ \A d \in Delivery : /\ received[d] # "FAILED"
                               /\ received[d] = "RECEIVED" => \E c \in HookCall : Taking(hook[c]) /\ hook[c].d = d
        /\ \A x \in Sha \X Ticket : mapping[x] = Author => x \in asked \/ \E c \in HookCall : Owes(hook[c], x)

GithubInv ==
    /\ GithubTypeOK /\ HookShape /\ OneTaker /\ Passed /\ MappedFirst /\ Unfinished
    /\ ProcessedAccountsForAll

LEMMA HookMoves ==
    ASSUME GithubTypeOK, NEW c \in HookCall, NEW x, SetHook(c, x)
    PROVE  /\ hook'[c] = x
           /\ \A b \in HookCall \ {c} : hook'[b] = hook[b]
           /\ x \in HookRecord => hook' \in [HookCall -> HookRecord]
BY DEF GithubTypeOK, SetHook

LEMMA NoHookShape == NoHook \in HookRecord /\ ShapeOf(NoHook) /\ NoHook.kind = "none" /\ NoHook.pc = "idle" /\ NoHook.i = 1
<1>1. (CHOOSE d \in Delivery : TRUE) \in Delivery /\ (CHOOSE s \in Sha : TRUE) \in Sha
  BY GithubAssumption
<1> QED
  BY <1>1 DEF NoHook, HookRecord, Accounts, ShapeOf

\* What the steps of a request make of its record.
Stages == {"idle", "create", "take", "keep", "map", "mark", "ask", "failed"}

LEMMA HookGoes ==
    ASSUME NEW k \in HookRecord, NEW pc \in Stages, NEW x, x = [k EXCEPT !.pc = pc]
    PROVE  /\ x \in HookRecord /\ x.pc = pc /\ x.kind = k.kind /\ x.d = k.d /\ x.i = k.i
           /\ x.sha = k.sha /\ x.task = k.task /\ x.user = k.user
BY DEF HookRecord, Stages

LEMMA HookPasses ==
    ASSUME NEW k \in HookRecord, NEW x, x = [k EXCEPT !.pc = "take", !.i = k.i + 1]
    PROVE  x \in HookRecord /\ x.pc = "take" /\ x.i = k.i + 1 /\ x.kind = k.kind /\ x.d = k.d
<1>1. k.i + 1 \in Nat
  BY DEF HookRecord
<1> QED
  BY <1>1 DEF HookRecord

LEMMA CommitsAre ==
    ASSUME GithubTypeOK, NEW d \in Delivery
    PROVE  /\ delivery[d].commits \in Seq(Commit) /\ Len(delivery[d].commits) \in Nat
           /\ \A i \in 1..Len(delivery[d].commits) : delivery[d].commits[i] \in Commit
<1>1. delivery[d].commits \in Contents
  BY DEF GithubTypeOK
<1>2. delivery[d].commits \in Seq(Commit)
  BY <1>1, GithubAssumption
<1> QED
  BY <1>2

\* Rows of commits are not taken back.
Growing ==
    /\ \A d \in Delivery : delivery'[d].commits = delivery[d].commits
    /\ \A s \in Sha : unmatched[s] # "none" => unmatched'[s] # "none"
    /\ \A p \in Sha \X Ticket : mapping[p] # "none" => mapping'[p] = mapping[p]

LEMMA AccountedStays ==
    ASSUME Growing, NEW x \in Commit, Accounted(x)
    PROVE  Accounted(x)'
BY DEF Growing, Accounted, Commit

LEMMA PassedStays ==
    ASSUME GithubTypeOK, Growing, NEW k \in HookRecord, PassedBy(k)
    PROVE  PassedBy(k)'
<1>1. delivery'[k.d].commits = delivery[k.d].commits
  BY DEF Growing, HookRecord
<1>2. \A j \in 1..Len(delivery[k.d].commits) :
         Accounted(delivery[k.d].commits[j]) => Accounted(delivery[k.d].commits[j])'
  <2>1. SUFFICES ASSUME NEW j \in 1..Len(delivery[k.d].commits), Accounted(delivery[k.d].commits[j])
                 PROVE  Accounted(delivery[k.d].commits[j])'
    OBVIOUS
  <2>2. PICK y \in Commit : y = delivery[k.d].commits[j]
    BY CommitsAre DEF HookRecord
  <2>3. y = delivery'[k.d].commits[j]
    BY <1>1, <2>2
  <2>4. Accounted(y)'
    BY <2>1, <2>2, AccountedStays
  <2> QED
    BY <2>3, <2>4 DEF Accounted
<1> QED
  BY <1>1, <1>2 DEF PassedBy

\* A step of one request that leaves the rows of deliveries as they are.
LEMMA RequestKeepsRows ==
    ASSUME GithubInv, GithubTypeOK', NEW c \in HookCall, NEW x \in HookRecord, SetHook(c, x), Growing,
           UNCHANGED <<received, runs>>, ShapeOf(x), PassedBy(x)',
           Taking(x) => Taking(hook[c]) /\ hook[c].d = x.d
    PROVE  HookShape' /\ OneTaker' /\ Passed' /\ ProcessedAccountsForAll'
<1>1. hook'[c] = x /\ (\A b \in HookCall \ {c} : hook'[b] = hook[b])
  BY HookMoves DEF GithubInv
<1>2. HookShape'
  BY <1>1 DEF GithubInv, HookShape, ShapeOf
<1>3. OneTaker'
  BY <1>1 DEF GithubInv, OneTaker, Taking
<1>4. Passed'
  <2>1. \A b \in HookCall \ {c} : PassedBy(hook[b]) /\ hook[b] \in HookRecord
    BY DEF GithubInv, Passed, GithubTypeOK
  <2> QED
    BY <1>1, <2>1, PassedStays DEF Passed, GithubInv
<1>5. ProcessedAccountsForAll'
  BY AccountedStays, CommitsAre DEF GithubInv, ProcessedAccountsForAll, Growing
<1> QED
  BY <1>2, <1>3, <1>4, <1>5


-----------------------------------------------------------------------------
LEMMA DeliverHolds == ASSUME GithubInv, NEW c \in HookCall, NEW d \in Delivery, DeliverHook(c, d) PROVE GithubInv'
<1> USE DEF GithubInv
<1>1. /\ hook[c].pc = "idle" /\ UNCHANGED <<HookRows, openTickets, linked, hookFaults>>
      /\ delivery' = [delivery EXCEPT ![d].tries = @ + 1] /\ delivery[d].tries < MaxSends
  BY DEF DeliverHook, HookAt
<1>2. /\ delivery' \in [Delivery -> [commits: Contents, tries: 0..MaxSends]]
      /\ \A e \in Delivery : delivery'[e].commits = delivery[e].commits
  <2>1. delivery[d] \in [commits: Contents, tries: 0..MaxSends]
    BY DEF GithubTypeOK
  <2>2. delivery[d].tries + 1 \in 0..MaxSends
    BY <1>1, <2>1, GithubAssumption
  <2>3. delivery'[d] = [delivery[d] EXCEPT !.tries = @ + 1]
    BY <1>1 DEF GithubTypeOK
  <2>4. delivery'[d] \in [commits: Contents, tries: 0..MaxSends] /\ delivery'[d].commits = delivery[d].commits
    BY <2>1, <2>2, <2>3
  <2> QED
    BY <1>1, <2>4 DEF GithubTypeOK
<1>3. PICK x \in HookRecord : SetHook(c, x) /\ ShapeOf(x) /\ x.pc \in {"idle", "create"}
  <2>1. CASE received[d] = "NONE"
    <3> DEFINE x == [NoHook EXCEPT !.kind = "webhook", !.pc = "create", !.d = d]
    <3>1. x \in HookRecord /\ ShapeOf(x) /\ x.pc = "create"
      BY NoHookShape DEF HookRecord, ShapeOf
    <3> QED
      BY <2>1, <3>1 DEF DeliverHook
  <2>2. CASE received[d] # "NONE"
    <3>1. hook' = hook
      BY <2>2 DEF DeliverHook
    <3>2. SetHook(c, hook[c]) /\ hook[c] \in HookRecord
      BY <3>1 DEF SetHook, GithubTypeOK
    <3> QED
      BY <1>1, <3>2 DEF HookShape
  <2> QED
    BY <2>1, <2>2
<1>4. hook'[c] = x /\ (\A b \in HookCall \ {c} : hook'[b] = hook[b]) /\ hook' \in [HookCall -> HookRecord]
  BY <1>3, HookMoves
<1>5. GithubTypeOK'
  BY <1>1, <1>2, <1>4 DEF GithubTypeOK, HookRows
<1>6. Growing
  BY <1>1, <1>2 DEF Growing, HookRows
<1>7. HookShape' /\ OneTaker' /\ Passed' /\ ProcessedAccountsForAll'
  BY <1>1, <1>3, <1>5, <1>6, RequestKeepsRows DEF HookRows, Taking, PassedBy
<1>8. MappedFirst'
  BY <1>1, <1>3, <1>4 DEF MappedFirst, MarkedIsMapped, HookRows
<1>9. Unfinished'
  BY <1>1, <1>3, <1>4 DEF Unfinished, HookRows, Taking, Owes
<1> QED
  BY <1>5, <1>7, <1>8, <1>9

LEMMA CreateHolds == ASSUME GithubInv, NEW c \in HookCall, Create(c) PROVE GithubInv'
<1> USE DEF GithubInv
<1>1. hook[c].pc = "create" /\ UNCHANGED <<mapping, unmatched, asked, delivery, openTickets, linked, hookFaults>>
  BY DEF Create, HookAt, World
<1>2. hook[c] \in HookRecord /\ hook[c].d \in Delivery /\ hook[c].kind = "webhook" /\ hook[c].i >= 1
  BY <1>1 DEF GithubTypeOK, HookRecord, HookShape, ShapeOf
<1>3. Growing
  BY <1>1 DEF Growing
<1>4. CASE received[hook[c].d] = "NONE"
  <2> DEFINE d == hook[c].d
  <2>1. PICK x \in HookRecord :
           /\ ShapeOf(x) /\ x.pc = "take" /\ x.d = d /\ x.kind = "webhook" /\ x.i = 1
           /\ x = HookStep(c, "take")
    <3>1. hook[c].i = 1
      BY <1>1 DEF HookShape, ShapeOf
    <3> QED
      BY <1>2, <3>1 DEF HookStep, HookRecord, ShapeOf
  <2>2. SetHook(c, x) /\ received' = [received EXCEPT ![d] = "RECEIVED"] /\ runs' = [runs EXCEPT ![d] = @ + 1]
    BY <1>4, <2>1 DEF Create
  <2>3. hook'[c] = x /\ (\A b \in HookCall \ {c} : hook'[b] = hook[b]) /\ hook' \in [HookCall -> HookRecord]
    BY <2>1, <2>2, HookMoves
  <2>4. /\ received'[d] = "RECEIVED" /\ runs'[d] = 1
        /\ \A e \in Delivery \ {d} : received'[e] = received[e] /\ runs'[e] = runs[e]
    BY <1>2, <1>4, <2>2 DEF GithubTypeOK, OneTaker
  <2>5. GithubTypeOK'
    BY <1>1, <1>2, <2>2, <2>3 DEF GithubTypeOK
  <2>6. HookShape'
    BY <2>1, <2>3 DEF HookShape, ShapeOf
  <2>7. OneTaker'
    <3>1. \A b \in HookCall \ {c} : Taking(hook[b]) => hook[b].d # d /\ hook[b].d \in Delivery
      BY <1>4 DEF OneTaker, GithubTypeOK, HookRecord
    <3> QED
      BY <1>2, <2>1, <2>3, <2>4, <3>1 DEF OneTaker
  <2>8. Passed'
    <3>1. PassedBy(x)'
      BY <2>1 DEF PassedBy
    <3>2. \A b \in HookCall \ {c} : PassedBy(hook[b]) /\ hook[b] \in HookRecord
      BY DEF Passed, GithubTypeOK
    <3> QED
      BY <1>3, <2>3, <3>1, <3>2, PassedStays DEF Passed
  <2>9. MappedFirst'
    BY <1>1, <2>1, <2>3 DEF MappedFirst, MarkedIsMapped
  <2>10. Unfinished'
    <3>1. Taking(x)
      BY <2>1 DEF Taking
    <3>2. ~Taking(hook[c]) /\ \A y : ~Owes(hook[c], y)
      BY <1>1 DEF Taking, Owes
    <3> QED
      BY <1>1, <1>2, <2>1, <2>3, <2>4, <3>1, <3>2 DEF Unfinished
  <2>11. ProcessedAccountsForAll'
    BY <1>1, <1>2, <2>4 DEF ProcessedAccountsForAll, Accounted
  <2> QED
    BY <2>5, <2>6, <2>7, <2>8, <2>9, <2>10, <2>11
<1>5. CASE received[hook[c].d] # "NONE"
  <2>1. SetHook(c, NoHook) /\ UNCHANGED <<received, runs>>
    BY <1>5 DEF Create, EndHook
  <2>2. hook'[c] = NoHook /\ (\A b \in HookCall \ {c} : hook'[b] = hook[b]) /\ hook' \in [HookCall -> HookRecord]
    BY <2>1, HookMoves, NoHookShape
  <2>3. GithubTypeOK'
    BY <1>1, <2>1, <2>2 DEF GithubTypeOK
  <2>4. HookShape' /\ OneTaker' /\ Passed' /\ ProcessedAccountsForAll'
    BY <1>3, <2>1, <2>3, NoHookShape, RequestKeepsRows DEF Taking, PassedBy
  <2>5. MappedFirst'
    BY <1>1, <2>1, <2>2, NoHookShape DEF MappedFirst, MarkedIsMapped
  <2>6. Unfinished'
    <3>1. ~Taking(hook[c]) /\ \A y : ~Owes(hook[c], y)
      BY <1>1 DEF Taking, Owes
    <3> QED
      BY <1>1, <2>1, <2>2, <3>1, NoHookShape DEF Unfinished
  <2> QED
    BY <2>3, <2>4, <2>5, <2>6
<1> QED
  BY <1>4, <1>5

\* The end of a delivery, with all its commits accounted for or with a mark of
\* the failure.
LEMMA EndHolds ==
    ASSUME GithubInv, NEW c \in HookCall, Taking(hook[c]), EndHook(c), NEW outcome \in {"PROCESSED", "FAILED"},
           received' = [received EXCEPT ![hook[c].d] = outcome],
           UNCHANGED <<delivery, mapping, unmatched, asked, openTickets, linked, hookFaults, runs>>,
           outcome = "PROCESSED" => hook[c].pc = "take" /\ hook[c].i > Len(delivery[hook[c].d].commits),
           outcome = "FAILED" => hook[c].pc = "failed"
    PROVE  GithubInv'
<1> USE DEF GithubInv
<1> DEFINE d == hook[c].d
<1>1. hook'[c] = NoHook /\ (\A b \in HookCall \ {c} : hook'[b] = hook[b]) /\ hook' \in [HookCall -> HookRecord]
  BY HookMoves, NoHookShape DEF EndHook
<1>2. /\ d \in Delivery /\ received[d] = "RECEIVED" /\ received'[d] = outcome
      /\ \A e \in Delivery \ {d} : received'[e] = received[e]
  BY DEF OneTaker, GithubTypeOK, HookRecord
<1>3. GithubTypeOK'
  BY <1>1, <1>2 DEF GithubTypeOK
<1>4. HookShape'
  BY <1>1, NoHookShape DEF HookShape
<1>5. OneTaker'
  <2>1. \A b \in HookCall \ {c} : Taking(hook[b]) => hook[b].d # d /\ hook[b].d \in Delivery
    BY DEF OneTaker, GithubTypeOK, HookRecord
  <2> QED
    BY <1>1, <1>2, <2>1, NoHookShape DEF OneTaker, Taking
<1>6. Passed'
  <2>1. Growing
    BY DEF Growing
  <2>2. \A b \in HookCall \ {c} : PassedBy(hook[b]) /\ hook[b] \in HookRecord
    BY DEF Passed, GithubTypeOK
  <2>3. PassedBy(NoHook)'
    BY NoHookShape DEF PassedBy
  <2> QED
    BY <1>1, <2>1, <2>2, <2>3, PassedStays DEF Passed
<1>7. MappedFirst'
  BY <1>1, NoHookShape DEF MappedFirst, MarkedIsMapped
<1>8. Unfinished'
  <2>1. \A y : ~Owes(hook[c], y)
    BY DEF Owes
  <2>2. \A e \in Delivery \ {d} : \A b \in HookCall : Taking(hook[b]) /\ hook[b].d = e => b # c
    OBVIOUS
  <2> QED
    BY <1>1, <1>2, <2>1, <2>2, NoHookShape DEF Unfinished
<1>9. ProcessedAccountsForAll'
  <2>1. outcome = "PROCESSED" => \A j \in 1..Len(delivery[d].commits) : Accounted(delivery[d].commits[j])
    <3>1. Len(delivery[d].commits) \in Nat /\ hook[c].i \in Nat
      BY <1>2, CommitsAre DEF GithubTypeOK, HookRecord
    <3> QED
      BY <3>1 DEF Taking, Passed, PassedBy
  <2>2. \A e \in Delivery : received'[e] = "PROCESSED" =>
           \A j \in 1..Len(delivery[e].commits) : Accounted(delivery[e].commits[j])
    BY <1>2, <2>1 DEF ProcessedAccountsForAll
  <2> QED
    BY <2>2 DEF ProcessedAccountsForAll, Accounted
<1> QED
  BY <1>3, <1>4, <1>5, <1>6, <1>7, <1>8, <1>9

\* A step of a request within its delivery, or of a manager's, that loses
\* nothing on its way.
LEMMA WithinHolds ==
    ASSUME GithubInv, NEW c \in HookCall, NEW x \in HookRecord, SetHook(c, x), GithubTypeOK', Growing,
           UNCHANGED <<received, runs, hookFaults>>, ShapeOf(x), PassedBy(x)',
           Taking(x) => Taking(hook[c]) /\ hook[c].d = x.d,
           Taking(hook[c]) => Taking(x) /\ x.pc # "failed", x.pc # "failed", hook[c].pc # "failed",
           MarkedIsMapped', x.pc \in {"mark", "ask"} => mapping'[<<x.sha, x.task>>] # "none",
           \A y \in Sha \X Ticket : Owes(hook[c], y) => Owes(x, y) \/ y \in asked',
           asked \subseteq asked',
           \A y \in Sha \X Ticket : mapping'[y] = Author => mapping[y] = Author \/ Owes(x, y)
    PROVE  GithubInv'
<1> USE DEF GithubInv
<1>1. hook'[c] = x /\ (\A b \in HookCall \ {c} : hook'[b] = hook[b])
  BY HookMoves
<1>2. HookShape' /\ OneTaker' /\ Passed' /\ ProcessedAccountsForAll'
  BY RequestKeepsRows
<1>3. MappedFirst'
  <2>1. ASSUME NEW b \in HookCall \ {c}, hook[b].pc \in {"mark", "ask"}
        PROVE  mapping'[<<hook[b].sha, hook[b].task>>] # "none"
    <3>1. <<hook[b].sha, hook[b].task>> \in Sha \X Ticket
      BY <2>1 DEF HookShape, ShapeOf, GithubTypeOK, HookRecord
    <3> QED
      BY <2>1, <3>1 DEF MappedFirst, Growing
  <2> QED
    BY <1>1, <2>1 DEF MappedFirst
<1>4. Unfinished'
  <2> SUFFICES ASSUME hookFaults = 0 PROVE Unfinished'
    BY DEF Unfinished
  <2>1. \A b \in HookCall : hook'[b].pc # "failed"
    BY <1>1 DEF Unfinished
  <2>2. \A d \in Delivery : received[d] = "RECEIVED" => \E b \in HookCall : Taking(hook'[b]) /\ hook'[b].d = d
    BY <1>1 DEF Unfinished, OneTaker
  <2>3. ASSUME NEW y \in Sha \X Ticket, mapping'[y] = Author
        PROVE  y \in asked' \/ \E b \in HookCall : Owes(hook'[b], y)
    <3>1. CASE Owes(x, y)
      BY <1>1, <3>1
    <3>2. CASE mapping[y] = Author
      BY <1>1, <3>2 DEF Unfinished
    <3> QED
      BY <2>3, <3>1, <3>2
  <2> QED
    BY <2>1, <2>2, <2>3 DEF Unfinished
<1> QED
  BY <1>2, <1>3, <1>4


LEMMA TakeHolds == ASSUME GithubInv, NEW c \in HookCall, TakeCommit(c) PROVE GithubInv'
<1> USE DEF GithubInv
<1> DEFINE commits == delivery[hook[c].d].commits
           y == commits[hook[c].i]
<1>1. /\ hook[c].pc = "take" /\ hook[c].kind = "webhook" /\ hook[c].d \in Delivery /\ Taking(hook[c])
      /\ hook[c] \in HookRecord /\ hook[c].i \in Nat /\ hook[c].i >= 1
      /\ UNCHANGED <<delivery, mapping, unmatched, asked, openTickets, linked, hookFaults, runs>>
  BY DEF TakeCommit, HookAt, World, HookShape, ShapeOf, GithubTypeOK, HookRecord, Taking
<1>2. CASE hook[c].i > Len(commits)
  <2>1. received' = [received EXCEPT ![hook[c].d] = "PROCESSED"] /\ EndHook(c)
    BY <1>2 DEF TakeCommit
  <2> QED
    BY <1>1, <1>2, <2>1, EndHolds
<1>3. CASE ~(hook[c].i > Len(commits))
  <2>1. /\ hook[c].i \in 1..Len(commits) /\ y \in Commit
        /\ \A j \in 1..Len(commits) : j < hook[c].i => Accounted(commits[j])
    BY <1>1, <1>3, CommitsAre DEF Passed, PassedBy
  <2>2. UNCHANGED received
    BY <1>3 DEF TakeCommit
  <2>4. PICK x \in HookRecord :
           /\ SetHook(c, x) /\ ShapeOf(x) /\ x.kind = "webhook" /\ x.d = hook[c].d
           /\ \/ x.pc = "take" /\ x.i = hook[c].i + 1 /\ y.bot
              \/ x.pc \in {"map", "keep"} /\ x.i = hook[c].i /\ x.sha = y.sha
    <3>1. PICK k \in HookRecord, z \in Commit : k = hook[c] /\ z = y
      BY <1>1, <2>1
    <3>2. k.i \in Nat /\ k.i >= 1 /\ k.kind = "webhook"
      BY <1>1, <3>1
    <3> DEFINE r == IF z.bot THEN [k EXCEPT !.pc = "take", !.i = k.i + 1]
                    ELSE IF z.key \in openTickets
                    THEN [k EXCEPT !.pc = "map", !.sha = z.sha, !.task = z.key, !.user = Resolve]
                    ELSE [k EXCEPT !.pc = "keep", !.sha = z.sha]
    <3>3. SetHook(c, r)
      BY <1>3, <3>1 DEF TakeCommit, Next1, HookStep
    <3>4. z.sha \in Sha /\ (z.key \in openTickets => z.key \in Ticket) /\ Resolve \in Accounts
      BY DEF Commit, GithubTypeOK, Resolve, Accounts
    <3>5. /\ r \in HookRecord /\ ShapeOf(r) /\ r.kind = "webhook" /\ r.d = k.d
          /\ \/ r.pc = "take" /\ r.i = k.i + 1 /\ z.bot
             \/ r.pc \in {"map", "keep"} /\ r.i = k.i /\ r.sha = z.sha
      <4>1. CASE z.bot
        <5>1. PICK w : w = [k EXCEPT !.pc = "take", !.i = k.i + 1]
          OBVIOUS
        <5>2. w \in HookRecord /\ w.pc = "take" /\ w.i = k.i + 1 /\ w.kind = "webhook" /\ w.d = k.d
          BY <3>2, <5>1, HookPasses
        <5> QED
          BY <3>2, <4>1, <5>1, <5>2 DEF ShapeOf
      <4>2. CASE ~z.bot /\ z.key \in openTickets
        <5>1. PICK t \in Ticket, u \in Accounts, s \in Sha : t = z.key /\ u = Resolve /\ s = z.sha
          BY <3>4, <4>2
        <5>2. PICK w : w = [k EXCEPT !.pc = "map", !.sha = s, !.task = t, !.user = u]
          OBVIOUS
        <5>3. w \in HookRecord /\ w.pc = "map" /\ w.sha = s /\ w.task = t /\ w.i = k.i /\ w.kind = "webhook" /\ w.d = k.d
          BY <3>1, <3>2, <5>1, <5>2 DEF HookRecord
        <5>4. r = w
          BY <4>2, <5>1, <5>2
        <5> HIDE DEF r
        <5> QED
          BY <3>2, <5>1, <5>3, <5>4 DEF ShapeOf
      <4>3. CASE ~z.bot /\ z.key \notin openTickets
        <5>1. PICK s \in Sha : s = z.sha
          BY <3>4
        <5>2. PICK w : w = [k EXCEPT !.pc = "keep", !.sha = s]
          OBVIOUS
        <5>3. w \in HookRecord /\ w.pc = "keep" /\ w.sha = s /\ w.i = k.i /\ w.kind = "webhook" /\ w.d = k.d
          BY <3>1, <3>2, <5>1, <5>2 DEF HookRecord
        <5>4. r = w
          BY <4>3, <5>1, <5>2
        <5> HIDE DEF r
        <5> QED
          BY <3>2, <5>1, <5>3, <5>4 DEF ShapeOf
      <4> QED
        BY <4>1, <4>2, <4>3
    <3> HIDE DEF r
    <3> QED
      BY <3>1, <3>3, <3>5
  <2>5. SetHook(c, x)
    BY <2>4
  <2>6. GithubTypeOK'
    BY <1>1, <2>2, <2>5, HookMoves DEF GithubTypeOK
  <2>7. Growing
    BY <1>1 DEF Growing
  <2>8. PassedBy(x)'
    <3>1. y.bot => Accounted(y)
      BY DEF Accounted
    <3>2. PassedBy(x)
      <4>1. CASE x.pc = "take" /\ x.i = hook[c].i + 1 /\ y.bot
        <5>1. delivery[x.d].commits = commits /\ Len(commits) \in Nat /\ hook[c].i \in Nat
          BY <1>1, <2>4, CommitsAre
        <5>2. commits[hook[c].i] = y /\ \A j \in 1..Len(commits) : j < hook[c].i => Accounted(commits[j])
          BY <2>1
        <5> HIDE DEF commits, y
        <5>3. \A j \in 1..Len(commits) : j < x.i => Accounted(commits[j])
          BY <3>1, <4>1, <5>1, <5>2
        <5> QED
          BY <4>1, <5>1, <5>3 DEF PassedBy
      <4>2. CASE x.pc \in {"map", "keep"} /\ x.i = hook[c].i /\ x.sha = y.sha
        <5>1. delivery[x.d].commits = commits /\ x.i = hook[c].i /\ x.sha = y.sha
          BY <2>4, <4>2
        <5>2. commits[x.i].sha = x.sha /\ x.i <= Len(commits)
          BY <1>1, <2>1, <5>1, CommitsAre
        <5> HIDE DEF commits, y
        <5> QED
          BY <2>1, <5>1, <5>2 DEF PassedBy
      <4> QED
        BY <2>4, <4>1, <4>2
    <3> QED
      BY <2>7, <3>2, PassedStays
  <2>9. MarkedIsMapped'
    BY <1>1 DEF MappedFirst, MarkedIsMapped
  <2>10. \A p : ~Owes(hook[c], p)
    BY <1>1 DEF Owes
  <2>11. Taking(x) /\ x.pc \notin {"failed", "mark", "ask"}
    BY <2>4 DEF Taking
  <2> QED
    BY <1>1, <2>2, <2>4, <2>5, <2>6, <2>7, <2>8, <2>9, <2>10, <2>11, WithinHolds
<1> QED
  BY <1>2, <1>3

LEMMA KeepHolds == ASSUME GithubInv, NEW c \in HookCall, KeepUnmatched(c) PROVE GithubInv'
<1> USE DEF GithubInv
<1>1. /\ hook[c].pc = "keep" /\ hook[c].kind = "webhook" /\ hook[c].d \in Delivery /\ Taking(hook[c])
      /\ hook[c] \in HookRecord /\ hook[c].i \in Nat /\ hook[c].i >= 1 /\ hook[c].sha \in Sha
      /\ UNCHANGED <<received, delivery, mapping, asked, openTickets, linked, hookFaults, runs>>
  BY DEF KeepUnmatched, HookAt, World, HookShape, ShapeOf, GithubTypeOK, HookRecord, Taking
<1>2. unmatched' = [unmatched EXCEPT ![hook[c].sha] = IF @ = "none" THEN NoKey ELSE @]
  BY DEF KeepUnmatched
<1>3. /\ unmatched' \in [Sha -> Ticket \cup {NoKey, "none"}] /\ unmatched'[hook[c].sha] # "none"
      /\ \A s \in Sha : unmatched[s] # "none" => unmatched'[s] = unmatched[s]
      /\ \A s \in Sha : unmatched'[s] \in Ticket => unmatched'[s] = unmatched[s]
  BY <1>1, <1>2, GithubAssumption DEF GithubTypeOK
<1>4. PICK x \in HookRecord :
         /\ SetHook(c, x) /\ ShapeOf(x) /\ x.kind = "webhook" /\ x.pc = "take"
         /\ x.d = hook[c].d /\ x.i = hook[c].i + 1
  <2>1. PICK k \in HookRecord : k = hook[c] /\ k.kind = "webhook" /\ k.i \in Nat /\ k.i >= 1
    BY <1>1
  <2>2. PICK w : w = [k EXCEPT !.pc = "take", !.i = k.i + 1]
    OBVIOUS
  <2>3. SetHook(c, w)
    BY <2>1, <2>2 DEF KeepUnmatched, Next1
  <2>4. w \in HookRecord /\ w.pc = "take" /\ w.i = k.i + 1 /\ w.kind = "webhook" /\ w.d = k.d
    <3>1. k.i + 1 \in Nat
      BY <2>1
    <3> QED BY ONLY <2>1, <2>2, <3>1 DEF HookRecord
  <2> QED
    BY <2>1, <2>3, <2>4 DEF ShapeOf
<1>5. GithubTypeOK'
  BY <1>1, <1>3, <1>4, HookMoves DEF GithubTypeOK
<1>6. Growing
  BY <1>1, <1>3 DEF Growing
<1>7. PassedBy(x)'
  <2>1. PICK d \in Delivery, i \in Nat, s \in Sha : d = hook[c].d /\ i = hook[c].i /\ s = hook[c].sha
    BY <1>1
  <2>2. /\ \A j \in 1..Len(delivery[d].commits) : j < i => Accounted(delivery[d].commits[j])
        /\ i <= Len(delivery[d].commits) /\ delivery[d].commits[i].sha = s
    BY <1>1, <2>1 DEF Passed, PassedBy
  <2>3. ASSUME NEW j \in 1..Len(delivery[d].commits), j < i PROVE Accounted(delivery[d].commits[j])'
    <3>1. PICK z \in Commit : z = delivery[d].commits[j] /\ z = delivery'[d].commits[j]
      BY <1>1, CommitsAre
    <3>2. Accounted(z)'
      BY <1>6, <2>2, <2>3, <3>1, AccountedStays
    <3> QED
      BY <3>1, <3>2 DEF Accounted
  <2>4. Accounted(delivery[d].commits[i])'
    BY <1>1, <1>3, <2>1, <2>2 DEF Accounted
  <2>5. Len(delivery[d].commits) \in Nat
    BY CommitsAre
  <2>6. x.d = d /\ x.i = i + 1 /\ x.pc = "take"
    BY <1>4, <2>1
  <2>7. \A j \in 1..Len(delivery[d].commits) : j < i + 1 => Accounted(delivery[d].commits[j])'
    BY <2>3, <2>4, <2>5
  <2> QED
    BY <1>1, <2>6, <2>7 DEF PassedBy
<1>8. MarkedIsMapped'
  BY <1>1, <1>3 DEF MappedFirst, MarkedIsMapped
<1>9. (\A p : ~Owes(hook[c], p)) /\ Taking(x)
  BY <1>1, <1>4 DEF Owes, Taking
<1> QED
  BY <1>1, <1>4, <1>5, <1>6, <1>7, <1>8, <1>9, WithinHolds


LEMMA MapHolds == ASSUME GithubInv, NEW c \in HookCall, Map(c) PROVE GithubInv'
<1> USE DEF GithubInv
<1>1. PICK k \in HookRecord, p \in Sha \X Ticket :
         /\ k = hook[c] /\ p = <<k.sha, k.task>> /\ k.pc = "map" /\ k.kind \in {"webhook", "manager"}
         /\ ShapeOf(k) /\ PassedBy(k) /\ k.user \in Accounts /\ k.i \in Nat /\ k.d \in Delivery
  BY DEF Map, HookAt, GithubTypeOK, HookRecord, HookShape, ShapeOf, Passed
<1>2. /\ mapping' = [mapping EXCEPT ![p] = IF @ = "none" THEN k.user ELSE @]
      /\ UNCHANGED <<received, unmatched, asked, runs, delivery, openTickets, linked, hookFaults>>
  BY <1>1 DEF Map, World
<1>3. /\ mapping' \in [Sha \X Ticket -> Accounts \cup {"none"}] /\ mapping'[p] # "none"
      /\ \A q \in Sha \X Ticket : mapping[q] # "none" => mapping'[q] = mapping[q]
      /\ \A q \in Sha \X Ticket : mapping'[q] = mapping[q] \/ (q = p /\ mapping'[q] = k.user)
  <2>1. k.user # "none" /\ k.user \in Accounts
    BY <1>1, GithubAssumption DEF Accounts
  <2> QED
    BY <1>1, <1>2, <2>1 DEF GithubTypeOK
<1>4. Growing
  BY <1>2, <1>3 DEF Growing
<1>5. MarkedIsMapped'
  <2>1. \A s \in Sha, t \in Ticket : <<s, t>> \in Sha \X Ticket
    OBVIOUS
  <2> QED
    BY <1>2, <1>3, <2>1 DEF MappedFirst, MarkedIsMapped
<1>6. PICK x \in HookRecord :
         /\ SetHook(c, x) /\ ShapeOf(x) /\ x.kind = k.kind /\ x.d = k.d
         /\ \/ k.kind = "manager" /\ x.pc = "mark" /\ x.sha = k.sha /\ x.task = k.task /\ x.user = k.user
            \/ k.kind = "webhook" /\ x.pc = "ask" /\ x.sha = k.sha /\ x.task = k.task /\ x.user = k.user /\ x.i = k.i
            \/ k.kind = "webhook" /\ x.pc = "take" /\ x.i = k.i + 1 /\ k.user = Nobody
  <2>1. CASE k.kind = "manager"
    <3>1. PICK w : w = [k EXCEPT !.pc = "mark"]
      OBVIOUS
    <3>2. SetHook(c, w)
      BY <1>1, <2>1, <3>1 DEF Map, AfterMap, HookStep
    <3>3. /\ w \in HookRecord /\ w.pc = "mark" /\ w.kind = k.kind /\ w.d = k.d /\ w.i = k.i
          /\ w.sha = k.sha /\ w.task = k.task /\ w.user = k.user
      BY <1>1, <3>1, HookGoes DEF Stages
    <3> QED
      BY <1>1, <2>1, <3>2, <3>3 DEF ShapeOf
  <2>2. CASE k.kind = "webhook" /\ k.user # Nobody
    <3>1. PICK w : w = [k EXCEPT !.pc = "ask"]
      OBVIOUS
    <3>2. SetHook(c, w)
      BY <1>1, <2>2, <3>1 DEF Map, AfterMap, HookStep
    <3>3. /\ w \in HookRecord /\ w.pc = "ask" /\ w.kind = k.kind /\ w.d = k.d /\ w.i = k.i
          /\ w.sha = k.sha /\ w.task = k.task /\ w.user = k.user
      BY <1>1, <3>1, HookGoes DEF Stages
    <3> QED
      BY <1>1, <2>2, <3>2, <3>3 DEF ShapeOf
  <2>3. CASE k.kind = "webhook" /\ k.user = Nobody
    <3>1. PICK w : w = [k EXCEPT !.pc = "take", !.i = k.i + 1]
      OBVIOUS
    <3>2. SetHook(c, w)
      BY <1>1, <2>3, <3>1 DEF Map, AfterMap, Next1
    <3>3. w \in HookRecord /\ w.pc = "take" /\ w.i = k.i + 1 /\ w.kind = k.kind /\ w.d = k.d
      BY <1>1, <3>1, HookPasses
    <3> QED
      BY <1>1, <2>3, <3>2, <3>3 DEF ShapeOf
  <2> QED
    BY <1>1, <2>1, <2>2, <2>3
<1>7. GithubTypeOK'
  BY <1>2, <1>3, <1>6, HookMoves DEF GithubTypeOK
<1>8. PassedBy(x)'
  <2>1. PassedBy(k)'
    BY <1>1, <1>4, PassedStays
  <2>2. CASE x.kind = "manager"
    BY <2>2 DEF PassedBy
  <2>3. CASE k.kind = "webhook" /\ x.pc = "ask"
    BY <1>1, <1>6, <2>1, <2>3 DEF PassedBy
  <2>4. CASE k.kind = "webhook" /\ x.pc = "take" /\ x.i = k.i + 1
    <3>1. /\ \A j \in 1..Len(delivery'[k.d].commits) : j < k.i => Accounted(delivery[k.d].commits[j])'
          /\ k.i <= Len(delivery'[k.d].commits) /\ delivery'[k.d].commits[k.i].sha = k.sha
      BY <1>1, <2>1, <2>4 DEF PassedBy
    <3>2. Accounted(delivery[k.d].commits[k.i])'
      <4>1. mapping'[<<k.sha, k.task>>] # "none" /\ k.task \in Ticket
        BY <1>1, <1>3
      <4>2. delivery'[k.d].commits[k.i].sha = k.sha
        BY <3>1
      <4> QED
        BY <4>1, <4>2 DEF Accounted
    <3>3. Len(delivery'[k.d].commits) \in Nat
      BY <1>1, <1>2, CommitsAre
    <3>4. \A j \in 1..Len(delivery'[k.d].commits) : j < k.i + 1 => Accounted(delivery[k.d].commits[j])'
      <4>1. \A j \in 1..Len(delivery'[k.d].commits) : j < k.i + 1 => j < k.i \/ j = k.i
        BY <1>1, <3>3
      <4> QED BY <3>1, <3>2, <4>1
    <3> QED
      BY <1>6, <2>4, <3>4 DEF PassedBy
  <2> QED
    BY <1>1, <1>6, <2>2, <2>3, <2>4
<1>9. /\ (Taking(x) <=> Taking(hook[c])) /\ x.pc # "failed" /\ hook[c].pc # "failed"
      /\ \A q : ~Owes(hook[c], q)
  BY <1>1, <1>6 DEF Taking, Owes
<1>10. x.pc \in {"mark", "ask"} => mapping'[<<x.sha, x.task>>] # "none"
  BY <1>1, <1>3, <1>6
<1>11. \A q \in Sha \X Ticket : mapping'[q] = Author => mapping[q] = Author \/ Owes(x, q)
  <2> SUFFICES ASSUME NEW q \in Sha \X Ticket, mapping'[q] = Author, mapping[q] # Author PROVE Owes(x, q)
    OBVIOUS
  <2>1. q = p /\ k.user = Author
    BY <1>3
  <2> QED
    BY <1>1, <1>6, <2>1, GithubAssumption DEF Owes
<1> QED
  BY <1>1, <1>2, <1>4, <1>5, <1>6, <1>7, <1>8, <1>9, <1>10, <1>11, WithinHolds

\* The end of a request that takes up no delivery, or a fault.
LEMMA LeaveHolds ==
    ASSUME GithubInv, NEW c \in HookCall, NEW x \in HookRecord, SetHook(c, x), ShapeOf(x), PassedBy(x)',
           Growing, UNCHANGED <<received, delivery, mapping, unmatched, openTickets, linked, runs>>,
           Taking(x) => Taking(hook[c]) /\ hook[c].d = x.d, x.pc \notin {"mark", "ask"},
           GithubTypeOK', asked \subseteq asked',
           hookFaults' = 0 => /\ hookFaults = 0 /\ x.pc # "failed" /\ ~Taking(hook[c])
                              /\ \A y \in Sha \X Ticket : Owes(hook[c], y) => y \in asked'
    PROVE  GithubInv'
<1> USE DEF GithubInv
<1>1. hook'[c] = x /\ (\A b \in HookCall \ {c} : hook'[b] = hook[b])
  BY HookMoves
<1>2. HookShape' /\ OneTaker' /\ Passed' /\ ProcessedAccountsForAll'
  BY RequestKeepsRows
<1>3. MappedFirst'
  BY <1>1 DEF MappedFirst, MarkedIsMapped
<1>4. Unfinished'
  BY <1>1 DEF Unfinished
<1> QED
  BY <1>2, <1>3, <1>4


LEMMA AskHolds == ASSUME GithubInv, NEW c \in HookCall, Ask(c) PROVE GithubInv'
<1> USE DEF GithubInv
<1>1. PICK k \in HookRecord, p \in Sha \X Ticket :
         /\ k = hook[c] /\ p = <<k.sha, k.task>> /\ k.pc = "ask" /\ k.kind \in {"webhook", "manager"}
         /\ ShapeOf(k) /\ PassedBy(k) /\ k.i \in Nat /\ k.d \in Delivery /\ mapping[p] # "none"
  <2>1. hook[c] \in HookRecord /\ hook[c].pc = "ask"
    BY DEF Ask, HookAt, GithubTypeOK
  <2>2. hook[c].sha \in Sha /\ hook[c].d \in Delivery /\ hook[c].i \in Nat
    BY <2>1 DEF HookRecord
  <2>3. ShapeOf(hook[c]) /\ PassedBy(hook[c]) /\ mapping[<<hook[c].sha, hook[c].task>>] # "none"
    BY <2>1 DEF HookShape, Passed, MappedFirst
  <2>4. hook[c].task \in Ticket /\ hook[c].kind \in {"webhook", "manager"}
    BY <2>1, <2>3 DEF ShapeOf, HookRecord
  <2> QED
    BY <2>1, <2>2, <2>3, <2>4
<1>2. asked' = asked \cup {p} /\ UNCHANGED <<received, unmatched, mapping, runs, delivery, openTickets, linked, hookFaults>>
  BY <1>1 DEF Ask, World
<1>3. Growing
  BY <1>2 DEF Growing
<1>4. PICK x \in HookRecord :
         /\ SetHook(c, x) /\ ShapeOf(x)
         /\ \/ k.kind = "manager" /\ x = NoHook
            \/ k.kind = "webhook" /\ x.kind = "webhook" /\ x.d = k.d /\ x.pc = "take" /\ x.i = k.i + 1
  <2>1. CASE k.kind = "manager"
    <3>1. SetHook(c, NoHook)
      BY <1>1, <2>1 DEF Ask
    <3> QED
      BY <2>1, <3>1, NoHookShape
  <2>2. CASE k.kind = "webhook"
    <3>1. PICK w : w = [k EXCEPT !.pc = "take", !.i = k.i + 1]
      OBVIOUS
    <3>2. SetHook(c, w)
      BY <1>1, <2>2, <3>1 DEF Ask, Next1
    <3>3. w \in HookRecord /\ w.pc = "take" /\ w.i = k.i + 1 /\ w.kind = k.kind /\ w.d = k.d
      BY <1>1, <3>1, HookPasses
    <3> QED
      BY <1>1, <2>2, <3>2, <3>3 DEF ShapeOf
  <2> QED
    BY <1>1, <2>1, <2>2
<1>5. GithubTypeOK'
  BY <1>1, <1>2, <1>4, HookMoves DEF GithubTypeOK
<1>6. PassedBy(x)'
  <2>1. PassedBy(k)'
    BY <1>1, <1>3, PassedStays
  <2>2. CASE x = NoHook
    BY <2>2, NoHookShape DEF PassedBy
  <2>3. CASE k.kind = "webhook" /\ x.pc = "take" /\ x.i = k.i + 1 /\ x.d = k.d
    <3>1. /\ \A j \in 1..Len(delivery'[k.d].commits) : j < k.i => Accounted(delivery[k.d].commits[j])'
          /\ k.i <= Len(delivery'[k.d].commits) /\ delivery'[k.d].commits[k.i].sha = k.sha
      BY <1>1, <2>1, <2>3 DEF PassedBy
    <3>2. Accounted(delivery[k.d].commits[k.i])'
      BY <1>1, <1>2, <3>1 DEF Accounted
    <3>3. Len(delivery'[k.d].commits) \in Nat
      BY <1>1, <1>2, CommitsAre
    <3>4. \A j \in 1..Len(delivery'[k.d].commits) : j < k.i + 1 => Accounted(delivery[k.d].commits[j])'
      <4>1. \A j \in 1..Len(delivery'[k.d].commits) : j < k.i + 1 => j < k.i \/ j = k.i
        BY <1>1, <3>3
      <4> QED BY <3>1, <3>2, <4>1
    <3> QED
      BY <2>3, <3>4 DEF PassedBy
  <2> QED
    BY <1>1, <1>4, <2>2, <2>3
<1>7. MarkedIsMapped'
  BY <1>2 DEF MappedFirst, MarkedIsMapped
<1>8. /\ (Taking(x) <=> Taking(hook[c])) /\ (Taking(x) => hook[c].d = x.d)
      /\ x.pc \in {"idle", "take"} /\ hook[c].pc # "failed"
      /\ \A q : Owes(hook[c], q) => q \in asked'
  BY <1>1, <1>2, <1>4, NoHookShape DEF Taking, Owes
<1> QED
  BY <1>2, <1>3, <1>4, <1>5, <1>6, <1>7, <1>8, WithinHolds

LEMMA MarkHolds == ASSUME GithubInv, NEW c \in HookCall, Mark(c) PROVE GithubInv'
<1> USE DEF GithubInv
<1>1. PICK k \in HookRecord :
         /\ k = hook[c] /\ k.pc = "mark" /\ k.kind = "manager" /\ k.task \in Ticket /\ k.sha \in Sha
         /\ ShapeOf(k) /\ mapping[<<k.sha, k.task>>] # "none"
  BY DEF Mark, HookAt, GithubTypeOK, HookRecord, HookShape, ShapeOf, MappedFirst
<1>2. /\ unmatched' = [unmatched EXCEPT ![k.sha] = k.task]
      /\ UNCHANGED <<received, mapping, asked, runs, delivery, openTickets, linked, hookFaults>>
  BY <1>1 DEF Mark, World
<1>3. /\ unmatched' \in [Sha -> Ticket \cup {NoKey, "none"}] /\ unmatched'[k.sha] # "none"
      /\ \A s \in Sha \ {k.sha} : unmatched'[s] = unmatched[s]
  BY <1>1, <1>2, GithubAssumption DEF GithubTypeOK
<1>4. Growing
  BY <1>1, <1>2, <1>3 DEF Growing
<1>5. PICK x \in HookRecord :
         /\ SetHook(c, x) /\ ShapeOf(x) /\ x.kind # "webhook"
         /\ \/ x = NoHook /\ k.user = Nobody
            \/ x.pc = "ask" /\ x.sha = k.sha /\ x.task = k.task /\ x.user = k.user
  <2>1. CASE k.user = Nobody
    <3>1. SetHook(c, NoHook)
      BY <1>1, <2>1 DEF Mark, EndHook
    <3> QED
      BY <2>1, <3>1, NoHookShape
  <2>2. CASE k.user # Nobody
    <3>1. PICK w : w = [k EXCEPT !.pc = "ask"]
      OBVIOUS
    <3>2. SetHook(c, w)
      BY <1>1, <2>2, <3>1 DEF Mark, HookStep
    <3>3. /\ w \in HookRecord /\ w.pc = "ask" /\ w.kind = k.kind /\ w.d = k.d /\ w.i = k.i
          /\ w.sha = k.sha /\ w.task = k.task /\ w.user = k.user
      BY <1>1, <3>1, HookGoes DEF Stages
    <3> QED
      BY <1>1, <2>2, <3>2, <3>3 DEF ShapeOf
  <2> QED
    BY <2>1, <2>2
<1>6. GithubTypeOK'
  BY <1>2, <1>3, <1>5, HookMoves DEF GithubTypeOK
<1>7. PassedBy(x)' /\ ~Taking(x) /\ ~Taking(hook[c]) /\ x.pc \in {"idle", "ask"}
  BY <1>1, <1>5, NoHookShape DEF PassedBy, Taking
<1>8. MarkedIsMapped'
  BY <1>1, <1>2, <1>3 DEF MappedFirst, MarkedIsMapped
<1>9. x.pc \in {"mark", "ask"} => mapping'[<<x.sha, x.task>>] # "none"
  BY <1>1, <1>2, <1>5, NoHookShape
<1>10. \A q \in Sha \X Ticket : Owes(hook[c], q) => Owes(x, q)
  BY <1>1, <1>5, GithubAssumption DEF Owes
<1> QED
  BY <1>1, <1>2, <1>4, <1>5, <1>6, <1>7, <1>8, <1>9, <1>10, WithinHolds

LEMMA ChooseHolds ==
    ASSUME GithubInv, NEW c \in HookCall, NEW s \in Sha, NEW t \in Ticket, Choose(c, s, t)
    PROVE  GithubInv'
<1> USE DEF GithubInv
<1>1. hook[c].pc = "idle" /\ UNCHANGED <<HookRows, World, hookFaults>>
  BY DEF Choose, HookAt
<1>2. Resolve \in Accounts
  BY DEF Resolve, Accounts
<1>3. PICK x : x = [NoHook EXCEPT !.kind = "manager", !.pc = "map", !.sha = s, !.task = t, !.user = Resolve]
  OBVIOUS
<1>4. x \in HookRecord /\ ShapeOf(x) /\ x.pc = "map" /\ x.kind = "manager"
  BY <1>2, <1>3, NoHookShape DEF HookRecord, ShapeOf
<1>5. SetHook(c, x)
  BY <1>3 DEF Choose
<1>6. GithubTypeOK' /\ Growing
  BY <1>1, <1>4, <1>5, HookMoves DEF GithubTypeOK, Growing, HookRows, World
<1>7. PassedBy(x)' /\ ~Taking(x) /\ ~Taking(hook[c]) /\ \A q : ~Owes(hook[c], q)
  BY <1>1, <1>4 DEF PassedBy, Taking, Owes
<1>8. MarkedIsMapped'
  BY <1>1 DEF MappedFirst, MarkedIsMapped, HookRows
<1> QED
  BY <1>1, <1>4, <1>5, <1>6, <1>7, <1>8, WithinHolds DEF HookRows

LEMMA FaultHolds ==
    ASSUME GithubInv, NEW c \in HookCall, Throw(c) \/ StopHook(c)
    PROVE  GithubInv'
<1> USE DEF GithubInv
<1>1. /\ hookFaults < MaxHookFaults /\ hookFaults' = hookFaults + 1 /\ UNCHANGED <<HookRows, World>>
  BY DEF Throw, StopHook
<1>2. hookFaults' \in 0..MaxHookFaults /\ hookFaults' # 0
  BY <1>1, GithubAssumption DEF GithubTypeOK
<1>3. PICK k \in HookRecord : k = hook[c] /\ ShapeOf(k)
  BY DEF GithubTypeOK, HookShape
<1>4. PICK x \in HookRecord :
         /\ SetHook(c, x) /\ ShapeOf(x) /\ x.pc \in {"idle", "failed"}
         /\ Taking(x) => Taking(hook[c]) /\ hook[c].d = x.d
  <2>1. CASE EndHook(c)
    BY <2>1, NoHookShape DEF EndHook, Taking
  <2>2. CASE Throw(c) /\ k.kind = "webhook"
    <3>1. PICK w : w = [k EXCEPT !.pc = "failed"]
      OBVIOUS
    <3>2. SetHook(c, w)
      BY <1>3, <2>2, <3>1 DEF Throw, HookStep
    <3>3. /\ w \in HookRecord /\ w.pc = "failed" /\ w.kind = k.kind /\ w.d = k.d /\ w.i = k.i
          /\ w.sha = k.sha /\ w.task = k.task /\ w.user = k.user
      BY <1>3, <3>1, HookGoes DEF Stages
    <3>4. k.pc \in {"take", "keep", "map", "mark", "ask"}
      BY <1>3, <2>2 DEF Throw
    <3> QED
      BY <1>3, <2>2, <3>2, <3>3, <3>4 DEF ShapeOf, Taking
  <2> QED
    BY <1>3, <2>1, <2>2 DEF Throw, StopHook
<1>5. GithubTypeOK' /\ Growing
  BY <1>1, <1>2, <1>4, HookMoves DEF GithubTypeOK, Growing, HookRows, World
<1>6. PassedBy(x)'
  BY <1>4 DEF PassedBy
<1> QED
  BY <1>1, <1>2, <1>4, <1>5, <1>6, LeaveHolds DEF HookRows, World

\* What a request does, and what happens beside it.
LEMMA GithubStepHolds == GithubInv /\ [GithubNext]_githubVars => GithubInv'
<1> SUFFICES ASSUME GithubInv, [GithubNext]_githubVars PROVE GithubInv'
  OBVIOUS
<1>1. ASSUME NEW c \in HookCall, MarkFailed(c) PROVE GithubInv'
  <2>1. /\ hook[c].pc = "failed" /\ EndHook(c) /\ received' = [received EXCEPT ![hook[c].d] = "FAILED"]
        /\ UNCHANGED <<delivery, mapping, unmatched, asked, openTickets, linked, hookFaults, runs>>
    BY <1>1 DEF MarkFailed, HookAt, World
  <2>2. Taking(hook[c])
    BY <2>1 DEF GithubInv, HookShape, ShapeOf, Taking, GithubTypeOK, HookRecord
  <2> QED
    BY <2>1, <2>2, EndHolds
<1>2. ASSUME UNCHANGED <<HookRows, delivery, hook, hookFaults>>, openTickets' \subseteq Ticket, linked' \in BOOLEAN
      PROVE  GithubInv'
  <2>1. Growing /\ GithubTypeOK'
    BY <1>2 DEF Growing, HookRows, GithubInv, GithubTypeOK
  <2>2. HookShape' /\ OneTaker' /\ MappedFirst' /\ Unfinished'
    BY <1>2 DEF HookRows, GithubInv, HookShape, OneTaker, MappedFirst, MarkedIsMapped, Unfinished
  <2>3. Passed'
    BY <1>2, <2>1, PassedStays DEF GithubInv, Passed, GithubTypeOK
  <2>4. ProcessedAccountsForAll'
    BY <1>2, <2>1, AccountedStays, CommitsAre DEF HookRows, GithubInv, ProcessedAccountsForAll, Growing
  <2> QED
    BY <2>1, <2>2, <2>3, <2>4 DEF GithubInv
<1>3. CASE Link
  BY <1>2, <1>3 DEF Link, GithubInv, GithubTypeOK
<1>4. ASSUME NEW t \in Ticket, DropTicket(t) PROVE GithubInv'
  BY <1>2, <1>4 DEF DropTicket, GithubInv, GithubTypeOK
<1>5. CASE UNCHANGED githubVars
  BY <1>2, <1>5 DEF githubVars, HookRows, GithubInv, GithubTypeOK
<1> QED
  BY <1>1, <1>3, <1>4, <1>5, DeliverHolds, CreateHolds, TakeHolds, KeepHolds, MapHolds, AskHolds, MarkHolds,
     ChooseHolds, FaultHolds DEF GithubNext, HandleHook

LEMMA GithubStarts == GithubInit => GithubInv
<1> SUFFICES ASSUME GithubInit PROVE GithubInv
  OBVIOUS
<1>1. 0 \in 0..MaxSends /\ 0 \in 0..MaxHookFaults
  BY GithubAssumption
<1>2. delivery \in [Delivery -> [commits: Contents, tries: 0..MaxSends]]
  BY <1>1 DEF GithubInit
<1>3. GithubTypeOK
  BY <1>1, <1>2, NoHookShape DEF GithubInit, GithubTypeOK
<1>4. \A c \in HookCall : hook[c] = NoHook
  BY DEF GithubInit
<1>5. \A d \in Delivery : received[d] = "NONE" /\ runs[d] = 0
  BY DEF GithubInit
<1>6. /\ \A x \in Sha \X Ticket : mapping[x] = "none"
      /\ \A s \in Sha : unmatched[s] = "none"
      /\ Author # "none" /\ \A t \in Ticket : t # "none"
  BY GithubAssumption DEF GithubInit, Accounts
<1>7. HookShape /\ OneTaker /\ Passed
  BY <1>4, <1>5, NoHookShape DEF HookShape, OneTaker, Passed, PassedBy, Taking
<1>8. MappedFirst /\ Unfinished /\ ProcessedAccountsForAll
  BY <1>4, <1>5, <1>6, NoHookShape DEF MappedFirst, MarkedIsMapped, Unfinished, ProcessedAccountsForAll
<1> QED
  BY <1>3, <1>7, <1>8 DEF GithubInv

LEMMA GithubInvIsEnough == GithubInv => CommitsAccounted
<1> SUFFICES ASSUME GithubInv PROVE CommitsAccounted
  OBVIOUS
<1>1. GithubTypeOK /\ TakenUpOnce /\ ProcessedAccountsForAll /\ MarkedIsMapped
  BY DEF GithubInv, OneTaker, TakenUpOnce, MappedFirst
<1>2. ASSUME HooksIdle, hookFaults = 0
      PROVE  /\ \A d \in Delivery : received[d] \in {"NONE", "PROCESSED"}
             /\ \A x \in Sha \X Ticket : mapping[x] = Author => x \in asked
  <2>1. \A c \in HookCall : ~Taking(hook[c]) /\ \A x : ~Owes(hook[c], x)
    BY <1>2 DEF HooksIdle, HookAt, Taking, Owes
  <2> QED
    BY <1>2, <2>1 DEF GithubInv, Unfinished, GithubTypeOK
<1> QED
  BY <1>1, <1>2 DEF CommitsAccounted, LostOnlyByFault, AttributedIsAsked

\* Whatever is sent, however often and by however many requests at once, a
\* delivery is taken up once and a PROCESSED one has left no commit out; without
\* faults none is lost and whoever a commit is attributed to has been asked
\* (handleWebhook, mapUnmatchedCommit).
THEOREM CommitsStayAccounted == GithubSpec => []CommitsAccounted
<1>1. GithubSpec => []GithubInv
  BY GithubStarts, GithubStepHolds, PTL DEF GithubSpec
<1> QED
  BY <1>1, GithubInvIsEnough, PTL

-----------------------------------------------------------------------------
(***************************************************************************)
(* The seed script.  Whatever a run has passed is there, unless it has met *)
(* what takes it away (Present, Shows); as long as no two runs have met, a *)
(* run due to store a row finds none still, or has found it (StoredOnce);  *)
(* and the sequence a run has read is past all keys but the seeded ones,   *)
(* unless a task has been created beside a run (Sequenced).                *)
(***************************************************************************)
Kinds == {"run", "create", "change", "delete"}
Shown == {"none", "seeded", "moved"}
RunRecord == [at: 0..Len(Script), found: BOOLEAN, sequence: Nat, met: SUBSET Kinds]

SeedTypeOK ==
    /\ stored \in [Statements -> Nat] /\ next \in Nat
    /\ task \in [TaskKeys -> Shown] /\ history \in [TaskKeys -> Shown]
    /\ running \in [Runs -> RunRecord]
    /\ crossed \subseteq Kinds

\* A run is alone until it meets another.
Lonely ==
    \A r, q \in Active : "run" \notin running[r].met \/ "run" \notin crossed => q = r

\* What has no unique key is stored once, since a run that has found no row is right.
StoredOnce ==
    "run" \notin crossed =>
        /\ \A i \in Creating : stored[i] <= 1
        /\ \A r \in Active :
             Script[running[r].at].op = "store" /\ ~running[r].found => stored[running[r].at] = 0

\* The rows of the statements a run has passed are there, and so is one it has found.
Present ==
    \A r \in Active :
        running[r].met \cap {"run", "delete"} = {} =>
            /\ \A i \in Creating : i < running[r].at => stored[i] > 0
            /\ Script[running[r].at].op = "store" /\ running[r].found => stored[running[r].at] > 0

\* The tasks a run has passed, and then their rows, show what it stored.
Shows ==
    \A r \in Active, k \in SeededKeys :
        running[r].met \cap {"run", "change"} = {} =>
            /\ Upsert(k) < running[r].at => task[k] = "seeded"
            /\ The("log") < running[r].at => history[k] = "seeded"

\* The keys of tasks, the seeded ones aside, are below n.
KeysBelow(tasks, n) == \A k \in TaskKeys \ SeededKeys : tasks[k] # "none" => k < n

Sequenced ==
    /\ "create" \notin crossed =>
          /\ KeysBelow(task, next)
          /\ \A r \in Active :
               The("project") < running[r].at /\ running[r].at <= The("advance") =>
                   KeysBelow(task, running[r].sequence)
    /\ \A r \in Active : The("advance") < running[r].at => next >= 4

SeedInv == SeedTypeOK /\ Lonely /\ StoredOnce /\ Present /\ Shows /\ Sequenced

\* Where a run is.
LEMMA StatementDue ==
  ASSUME InOrder, SeedTypeOK, NEW r \in Active
  PROVE  /\ r \in Runs /\ running[r] \in RunRecord
         /\ running[r].at \in Statements /\ running[r].at \in 1..Len(Script)
         /\ Len(Script) \in Nat
BY DEF InOrder, SeedTypeOK, Active, RunRecord

\* A run that stops, or goes on to the next statement, stays alone if it was.
LEMMA OwnStep ==
  ASSUME InOrder, SeedTypeOK, Lonely, NEW r \in Active, NEW x \in RunRecord,
         running' = [running EXCEPT ![r] = x], crossed' = crossed,
         x.at = 0 \/ x.met = running[r].met
  PROVE  /\ running' \in [Runs -> RunRecord] /\ running'[r] = x
         /\ Active' \subseteq Active /\ Lonely'
         /\ r \in Active' => x.at # 0
         /\ \A q \in Runs \ {r} : running'[q] = running[q]
<1>1. running' \in [Runs -> RunRecord] /\ running'[r] = x /\ \A q \in Runs \ {r} : running'[q] = running[q]
  BY StatementDue DEF SeedTypeOK
<1>2. Active' \subseteq Active /\ (r \in Active' => x.at # 0)
  BY <1>1 DEF Active
<1>3. Lonely'
  BY <1>1, <1>2 DEF Lonely, Active
<1> QED BY <1>1, <1>2, <1>3

\* Where it goes on to.
LEMMA Advance ==
  ASSUME InOrder, SeedTypeOK, NEW r \in Active
  PROVE  /\ Advanced(r) \in RunRecord
         /\ \/ Advanced(r).at = 0
            \/ /\ Advanced(r).at = running[r].at + 1 /\ running[r].at + 1 \in Statements
               /\ Advanced(r).met = running[r].met
               /\ Advanced(r).found = running[r].found
               /\ Advanced(r).sequence = running[r].sequence
<1>1. /\ running[r] \in RunRecord /\ running[r].at \in 1..Len(Script)
      /\ Len(Script) \in Nat /\ Statements = 1..Len(Script)
  BY StatementDue DEF InOrder
<1>2. CASE running[r].at = Len(Script)
  BY <1>1, <1>2 DEF Advanced, Stopped, RunRecord
<1>3. CASE running[r].at # Len(Script)
  <2>1. Advanced(r) = [running[r] EXCEPT !.at = running[r].at + 1]
    BY <1>3 DEF Advanced
  <2>2. running[r].at + 1 \in 1..Len(Script)
    BY <1>1, <1>3
  <2> QED BY <1>1, <2>1, <2>2 DEF RunRecord
<1> QED BY <1>2, <1>3

\* Before the first statement nothing is claimed but of the sequence.
LEMMA SeedInitInv == InOrder /\ SeedInit => SeedInv
<1> SUFFICES ASSUME InOrder, SeedInit PROVE SeedInv
  OBVIOUS
<1>1. Active = {}
  BY DEF SeedInit, Active, Stopped
<1>2. SeedTypeOK
  BY DEF SeedInit, SeedTypeOK, Stopped, RunRecord, Kinds, Shown, InOrder
<1>3. StoredOnce
  BY <1>1 DEF SeedInit, StoredOnce, Creating
<1>4. Sequenced
  BY <1>1 DEF SeedInit, Sequenced, KeysBelow
<1> QED BY <1>1, <1>2, <1>3, <1>4 DEF SeedInv, Lonely, Present, Shows

LEMMA BeginKeeps ==
  ASSUME InOrder, SeedInv, NEW r \in Runs, Begin(r) PROVE SeedInv'
<1> USE DEF SeedInv
<1>0. Len(Script) \in Nat \ {0} /\ Statements = 1..Len(Script) /\ 1 \in Statements
  BY DEF InOrder
<1>1. /\ r \notin Active /\ running'[r].at = 1 /\ ~running'[r].found
      /\ running'[r] \in RunRecord
      /\ "run" \notin running'[r].met => Active = {}
      /\ "run" \notin crossed' => Active = {}
      /\ crossed' \in {crossed, crossed \cup {"run"}}
  <2>1. r \notin Active
    BY DEF Begin, Active
  <2>2. running'[r] = AtStart
    BY <2>1 DEF Begin
  <2>3. running'[r] = [at |-> 1, found |-> FALSE, sequence |-> 0,
                       met |-> IF Active = {} THEN {} ELSE {"run"}]
    BY <2>2 DEF AtStart
  <2>4. crossed' = IF Active = {} THEN crossed ELSE crossed \cup {"run"}
    BY DEF Begin
  <2>5. running'[r] \in RunRecord
    BY <1>0, <2>3 DEF RunRecord, Kinds
  <2> QED BY <2>1, <2>3, <2>4, <2>5
<1>2. ASSUME NEW q \in Active
      PROVE  /\ q # r /\ running'[q] \in RunRecord
             /\ running'[q].at = running[q].at /\ running'[q].found = running[q].found
             /\ running'[q].sequence = running[q].sequence
             /\ running'[q].met = running[q].met \cup {"run"}
  BY <1>1, StatementDue DEF Begin, Meets, RunRecord, Kinds
<1>3. \A q \in Runs : q \notin Active /\ q # r => running'[q] = running[q]
  BY DEF Begin
<1>4. Active' = Active \cup {r}
  BY <1>1, <1>2, <1>3, <1>0 DEF Active, SeedTypeOK, RunRecord
<1>5. UNCHANGED <<stored, next, task, history>>
  BY DEF Begin
<1>6. SeedTypeOK'
  <2>1. running' \in [Runs -> RunRecord]
    BY <1>1, <1>2, <1>3 DEF SeedTypeOK, Begin
  <2> QED BY <2>1, <1>1, <1>5 DEF SeedTypeOK, Kinds
<1>7. Lonely'
  BY <1>1, <1>2, <1>4 DEF Lonely
<1>8. StoredOnce'
  <2>1. Script[1].op # "store"
    BY <1>0 DEF InOrder
  <2> QED BY <1>1, <1>2, <1>4, <1>5, <2>1 DEF StoredOnce
<1>9. Present'
  <2>1. Script[1].op # "store" /\ \A i \in Creating : ~(i < 1)
    BY <1>0 DEF InOrder, Creating
  <2> QED BY <1>1, <1>2, <1>4, <1>5, <2>1 DEF Present
<1>10. Shows'
  <2>1. \A k \in SeededKeys : ~(Upsert(k) < 1) /\ ~(The("log") < 1)
    BY <1>0 DEF InOrder, Unique
  <2> QED BY <1>1, <1>2, <1>4, <1>5, <2>1 DEF Shows
<1>11. Sequenced'
  <2>1. ~(The("project") < 1) /\ ~(The("advance") < 1)
    BY <1>0 DEF InOrder, Unique
  <2>2. ASSUME "create" \notin crossed' PROVE "create" \notin crossed
    BY <1>1, <2>2
  <2> QED BY <1>1, <1>2, <1>4, <1>5, <2>1, <2>2 DEF Sequenced, KeysBelow
<1> QED BY <1>6, <1>7, <1>8, <1>9, <1>10, <1>11

LEMMA FailKeeps ==
  ASSUME InOrder, SeedInv, NEW r \in Active, Fail(r) PROVE SeedInv'
<1> USE DEF SeedInv
<1>1. Stopped \in RunRecord /\ Stopped.at = 0
  BY DEF Stopped, RunRecord, InOrder
<1>2. /\ running' \in [Runs -> RunRecord] /\ Active' \subseteq Active \ {r} /\ Lonely'
      /\ \A q \in Runs \ {r} : running'[q] = running[q]
  BY <1>1, OwnStep DEF Fail
<1>3. UNCHANGED <<stored, next, task, history, crossed>>
  BY DEF Fail
<1>4. \A q \in Active' : q \in Active /\ running'[q] = running[q]
  BY <1>2 DEF Active
<1>5. SeedTypeOK'
  BY <1>2, <1>3 DEF SeedTypeOK
<1>6. StoredOnce'
  BY <1>3, <1>4 DEF StoredOnce
<1>7. Present'
  BY <1>3, <1>4 DEF Present
<1>8. Shows'
  BY <1>3, <1>4 DEF Shows
<1>9. Sequenced'
  BY <1>3, <1>4 DEF Sequenced, KeysBelow
<1> QED BY <1>2, <1>5, <1>6, <1>7, <1>8, <1>9

\* The statements that store rows, or look for one.
LEMMA WriteKeeps ==
  ASSUME InOrder, SeedInv, NEW r \in Active, Write(r) PROVE SeedInv'
<1> USE DEF SeedInv
<1> DEFINE i == running[r].at
           x == [Advanced(r) EXCEPT !.found = FALSE]
<1>1. /\ r \in Runs /\ running[r] \in RunRecord /\ i \in Statements
      /\ stored \in [Statements -> Nat] /\ Statements \subseteq Nat
  BY StatementDue DEF SeedTypeOK, InOrder
<1>2. /\ x \in RunRecord /\ ~x.found
      /\ \/ x.at = 0
         \/ /\ x.at = i + 1 /\ i + 1 \in Statements
            /\ x.met = running[r].met /\ x.sequence = running[r].sequence
  BY Advance DEF RunRecord
<1>3. /\ Script[i].op \in {"keyed", "store", "insert", "clear"}
      /\ Script[i].op = "insert" => stored[i] = 0
      /\ running' = [running EXCEPT ![r] = x]
      /\ UNCHANGED <<next, task, history, crossed>>
  BY DEF Write
<1>4. /\ running' \in [Runs -> RunRecord] /\ running'[r] = x
      /\ Active' \subseteq Active /\ Lonely'
      /\ r \in Active' => x.at = i + 1 /\ x.met = running[r].met
      /\ \A q \in Runs \ {r} : running'[q] = running[q]
  BY <1>2, <1>3, OwnStep
<1>5. ASSUME Script[i].op = "clear" PROVE i + 1 \in Statements /\ Script[i + 1].op = "insert"
  BY <1>1, <1>5 DEF InOrder
<1>6. /\ Script[i].op = "keyed" => stored' = [stored EXCEPT ![i] = 1]
      /\ Script[i].op = "store" =>
           stored' = [stored EXCEPT ![i] = IF running[r].found THEN stored[i] ELSE stored[i] + 1]
      /\ Script[i].op = "insert" => stored' = [stored EXCEPT ![i] = stored[i] + 1]
      /\ Script[i].op = "clear" => stored' = [stored EXCEPT ![i + 1] = 0]
  BY DEF Write, PutRows
<1>7. stored' \in [Statements -> Nat]
  BY <1>1, <1>3, <1>5, <1>6
<1>8. /\ \A j \in Statements \ {i, i + 1} : stored'[j] = stored[j]
      /\ Script[i].op # "clear" =>
           /\ i + 1 \in Statements => stored'[i + 1] = stored[i + 1]
           /\ running[r].found \/ Script[i].op # "store" =>
                stored'[i] = IF Script[i].op = "store" THEN stored[i] ELSE 1
           /\ ~running[r].found /\ Script[i].op = "store" => stored'[i] = stored[i] + 1
      /\ Script[i].op = "clear" => stored'[i] = stored[i] /\ stored'[i + 1] = 0
  BY <1>1, <1>3, <1>5, <1>6
<1>9. SeedTypeOK'
  BY <1>3, <1>4, <1>7 DEF SeedTypeOK
<1>10. r \in Active' => Script[i + 1].op # "store"
  BY <1>1, <1>2, <1>3, <1>4 DEF InOrder
<1>11. StoredOnce'
  <2> SUFFICES ASSUME "run" \notin crossed
      PROVE  /\ \A j \in Creating : stored'[j] <= 1
             /\ \A q \in Active' :
                  Script[running'[q].at].op = "store" /\ ~running'[q].found => stored'[running'[q].at] = 0
    BY <1>3 DEF StoredOnce
  <2>1. \A j \in Creating : stored[j] <= 1 /\ j \in Statements
    BY DEF StoredOnce, Creating
  <2>2. Script[i].op = "store" /\ ~running[r].found => stored[i] = 0
    BY DEF StoredOnce
  <2>3. \A j \in Creating : stored'[j] <= 1
    BY <1>1, <1>3, <1>8, <2>1, <2>2
  <2>4. \A q \in Active' : q = r
    BY <1>4 DEF Lonely
  <2> QED BY <1>4, <1>10, <2>3, <2>4
<1>12. Present'
  <2> SUFFICES ASSUME NEW q \in Active', running'[q].met \cap {"run", "delete"} = {}
      PROVE  /\ \A j \in Creating : j < running'[q].at => stored'[j] > 0
             /\ Script[running'[q].at].op = "store" /\ running'[q].found => stored'[running'[q].at] > 0
    BY DEF Present
  <2>1. q = r
    <3>1. q \in Active /\ q \in Runs /\ running'[q].met = running[q].met
      BY <1>4 DEF Active
    <3> QED BY <3>1 DEF Lonely
  <2>2. /\ \A j \in Creating : j < i => stored[j] > 0
        /\ Script[i].op = "store" /\ running[r].found => stored[i] > 0
    BY <1>4, <2>1 DEF Present
  <2>3. ASSUME NEW j \in Creating, j < i + 1 PROVE stored'[j] > 0
    <3>1. j \in Statements /\ Script[j].op # "clear" /\ j \in Nat /\ i \in Nat
      BY <1>1 DEF Creating
    <3>4. (j < i \/ j = i) /\ j # i + 1
      BY <2>3, <3>1
    <3>2. CASE j < i
      BY <1>8, <2>2, <3>1, <3>4, <3>2
    <3>3. CASE j = i
      BY <1>1, <1>3, <1>8, <2>2, <3>1, <3>3
    <3> QED BY <3>2, <3>3, <3>4
  <2> QED BY <1>4, <1>10, <2>1, <2>3
<1>13. Shows'
  <2>1. The("log") # i
    BY <1>1, <1>3 DEF InOrder, Unique
  <2>2. \A k \in SeededKeys : Upsert(k) # i
    BY <1>1, <1>3 DEF InOrder
  <2>3. \A k \in SeededKeys : Upsert(k) \in Nat /\ The("log") \in Nat
    BY DEF InOrder, Unique
  <2>4. \A q \in Active' : running'[q].met = running[q].met
    BY <1>4 DEF Active
  <2>5. ASSUME NEW q \in Active', NEW j \in Nat, j # i, j < running'[q].at PROVE j < running[q].at
    <3>1. i \in Nat /\ q \in Runs
      BY <1>1 DEF Active
    <3>2. CASE q = r
      <4>1. running'[r].at = i + 1
        BY <1>4, <3>2
      <4> HIDE DEF i
      <4>2. j < i
        BY <2>5, <3>1, <3>2, <4>1
      <4> QED BY <3>2, <4>2 DEF i
    <3> QED BY <1>4, <2>5, <3>1, <3>2
  <2> QED BY <1>3, <1>4, <2>1, <2>2, <2>3, <2>4, <2>5 DEF Shows, Unique
<1>14. Sequenced'
  <2>1. The("project") # i /\ The("advance") # i /\ The("project") \in Nat /\ The("advance") \in Nat
    BY <1>1, <1>3 DEF InOrder, Unique
  <2>2. \A q \in Active' : /\ running'[q].at \in {running[q].at, running[q].at + 1} /\ running[q].at \in Nat
                           /\ q # r => running'[q].at = running[q].at
                           /\ running'[q].sequence = running[q].sequence
    BY <1>1, <1>2, <1>4, StatementDue DEF RunRecord
  <2> QED BY <1>3, <1>4, <2>1, <2>2 DEF Sequenced, KeysBelow
<1> QED BY <1>4, <1>9, <1>11, <1>12, <1>13, <1>14

\* A statement that stores no rows of its own leaves what is claimed of the rows.
LEMMA PassingStep ==
  ASSUME InOrder, SeedInv, NEW r \in Active, NEW x \in RunRecord,
         running' = [running EXCEPT ![r] = x], UNCHANGED <<stored, crossed>>,
         Script[running[r].at].op \notin {"keyed", "store", "insert"},
         \/ x.at = 0
         \/ /\ x.at = running[r].at + 1 /\ running[r].at + 1 \in Statements
            /\ x.met = running[r].met,
         Script[running[r].at].op = "look" =>
             IF stored[running[r].at + 1] > 0 THEN x.found ELSE ~x.found
  PROVE  /\ running' \in [Runs -> RunRecord] /\ running'[r] = x
         /\ Lonely' /\ StoredOnce' /\ Present'
         /\ \A q \in Active' :
              /\ q \in Active /\ running'[q].met = running[q].met
              /\ q # r => running'[q] = running[q]
              /\ running[q].at \in Nat
              /\ q = r => running'[q].at = running[q].at + 1
<1> USE DEF SeedInv
<1> DEFINE i == running[r].at
<1>1. i \in Statements /\ i \in Nat /\ Statements \subseteq Nat /\ stored \in [Statements -> Nat]
  BY StatementDue DEF InOrder, SeedTypeOK
<1>2. /\ running' \in [Runs -> RunRecord] /\ running'[r] = x
      /\ Active' \subseteq Active /\ Lonely'
      /\ r \in Active' => x.at = i + 1 /\ x.met = running[r].met /\ i + 1 \in Statements
      /\ \A q \in Runs \ {r} : running'[q] = running[q]
  BY OwnStep
<1>3. ASSUME NEW q \in Active'
      PROVE  /\ q \in Active /\ running'[q].met = running[q].met
             /\ q # r => running'[q] = running[q]
             /\ running[q].at \in Nat
             /\ q = r => running'[q].at = running[q].at + 1
  BY <1>2, StatementDue DEF Active
<1>4. ASSUME r \in Active', Script[i + 1].op = "store" 
      PROVE IF stored[i + 1] > 0 THEN x.found ELSE ~x.found
  BY <1>1, <1>2, <1>4 DEF InOrder
<1>5. ASSUME NEW q \in Active', NEW j \in Creating, j < running'[q].at PROVE j < running[q].at
  <2>1. j \in Nat /\ j # i
    BY <1>1 DEF Creating
  <2> HIDE DEF i
  <2>2. running[q].at \in Nat /\ (q = r => running[q].at = i /\ running'[q].at = i + 1)
    BY <1>3 DEF i
  <2>3. CASE q = r
    BY <1>1, <1>5, <2>1, <2>2, <2>3
  <2> QED BY <1>3, <1>5, <2>3
<1>6. StoredOnce'
  <2> SUFFICES ASSUME "run" \notin crossed
      PROVE  /\ \A j \in Creating : stored[j] <= 1
             /\ \A q \in Active' :
                  Script[running'[q].at].op = "store" /\ ~running'[q].found => stored[running'[q].at] = 0
    BY DEF StoredOnce
  <2>1. \A q \in Active' : q = r
    BY <1>3 DEF Lonely
  <2>2. r \in Active' => i + 1 \in Statements /\ stored[i + 1] \in Nat
    BY <1>1, <1>2
  <2>3. \A j \in Creating : stored[j] <= 1
    BY DEF StoredOnce
  <2>4. ASSUME r \in Active', Script[i + 1].op = "store", ~x.found PROVE stored[i + 1] = 0
    BY <1>4, <2>2, <2>4
  <2>5. r \in Active' => running'[r].at = i + 1 /\ running'[r].found = x.found
    BY <1>2
  <2> QED BY <2>1, <2>3, <2>4, <2>5
<1>7. Present'
  <2> SUFFICES ASSUME NEW q \in Active', running[q].met \cap {"run", "delete"} = {}
      PROVE  /\ \A j \in Creating : j < running'[q].at => stored[j] > 0
             /\ Script[running'[q].at].op = "store" /\ running'[q].found => stored[running'[q].at] > 0
    BY <1>3 DEF Present
  <2>1. \A j \in Creating : j < running[q].at => stored[j] > 0
    BY <1>3 DEF Present
  <2>2. q = r
    BY <1>3 DEF Lonely
  <2> QED BY <1>2, <1>4, <1>5, <2>1, <2>2
<1> QED BY <1>2, <1>3, <1>6, <1>7

\* A run claims a statement it has just executed, and those it had passed before.
LEMMA Passing ==
  ASSUME NEW i \in Nat, NEW j \in Nat, j < i + 1 PROVE j = i \/ j < i
OBVIOUS

LEMMA LookKeeps ==
  ASSUME InOrder, SeedInv, NEW r \in Active, Look(r) PROVE SeedInv'
<1> USE DEF SeedInv
<1> DEFINE i == running[r].at
           x == [Advanced(r) EXCEPT !.found = stored[i + 1] > 0]
<1>1. /\ x \in RunRecord 
      /\ IF stored[i + 1] > 0 THEN x.found ELSE ~x.found
      /\ \/ x.at = 0
         \/ /\ x.at = i + 1 /\ i + 1 \in Statements
            /\ x.met = running[r].met /\ x.sequence = running[r].sequence
  <2>1. Advanced(r) \in RunRecord /\ (stored[i + 1] > 0) \in BOOLEAN
    BY Advance
  <2>2. x \in RunRecord
    BY <2>1 DEF RunRecord
  <2>3. x.found = (stored[i + 1] > 0)
    BY <2>1, Zenon DEF RunRecord
  <2>4. x.at = Advanced(r).at /\ x.met = Advanced(r).met /\ x.sequence = Advanced(r).sequence
    BY <2>1 DEF RunRecord
  <2> QED BY <2>2, <2>3, <2>4, Advance
<1>2. /\ Script[i].op = "look" /\ running' = [running EXCEPT ![r] = x]
      /\ UNCHANGED <<stored, next, task, history, crossed>>
  BY DEF Look
<1>3. /\ running' \in [Runs -> RunRecord] /\ running'[r] = x
      /\ Lonely' /\ StoredOnce' /\ Present'
      /\ \A q \in Active' :
           /\ q \in Active /\ running'[q].met = running[q].met
           /\ q # r => running'[q] = running[q]
           /\ running[q].at \in Nat
           /\ q = r => running'[q].at = running[q].at + 1
  BY <1>1, <1>2, PassingStep
<1>4. SeedTypeOK'
  BY <1>2, <1>3 DEF SeedTypeOK
<1>5. /\ \A k \in SeededKeys : Upsert(k) # i /\ Upsert(k) \in Nat
      /\ \A op \in Unique : The(op) # i /\ The(op) \in Nat
  BY <1>2 DEF InOrder, Unique
<1>6. Shows'
  BY <1>2, <1>3, <1>5, Passing DEF Shows, Unique
<1>7. Sequenced'
  BY <1>1, <1>2, <1>3, <1>5, Passing DEF Sequenced, KeysBelow, Unique
<1> QED BY <1>3, <1>4, <1>6, <1>7

LEMMA UpsertProjectKeeps ==
  ASSUME InOrder, SeedInv, NEW r \in Active, UpsertProject(r) PROVE SeedInv'
<1> USE DEF SeedInv
<1> DEFINE i == running[r].at
           x == [Advanced(r) EXCEPT !.sequence = next']
<1>1. /\ Script[i].op = "project" /\ running' = [running EXCEPT ![r] = x]
      /\ next' \in Nat /\ next' >= next /\ next \in Nat
      /\ UNCHANGED <<stored, task, history, crossed>>
  BY DEF UpsertProject, SeedTypeOK
<1>2. /\ x \in RunRecord /\ x.sequence = next'
      /\ \/ x.at = 0
         \/ x.at = i + 1 /\ i + 1 \in Statements /\ x.met = running[r].met
  BY <1>1, Advance DEF RunRecord
<1>3. /\ running' \in [Runs -> RunRecord] /\ running'[r] = x
      /\ Lonely' /\ StoredOnce' /\ Present'
      /\ \A q \in Active' :
           /\ q \in Active /\ running'[q].met = running[q].met
           /\ q # r => running'[q] = running[q]
           /\ running[q].at \in Nat
           /\ q = r => running'[q].at = running[q].at + 1
  BY <1>1, <1>2, PassingStep
<1>4. SeedTypeOK'
  BY <1>1, <1>3 DEF SeedTypeOK
<1>5. /\ \A k \in SeededKeys : Upsert(k) # i /\ Upsert(k) \in Nat
      /\ The("log") # i /\ The("log") \in Nat /\ The("advance") # i /\ The("advance") \in Nat
      /\ The("project") = i
  <2>1. \A op \in Unique : The(op) \in Nat /\ (Script[i].op = op <=> i = The(op))
    BY StatementDue DEF InOrder
  <2>2. \A k \in SeededKeys : Upsert(k) # i /\ Upsert(k) \in Nat
    BY <1>1 DEF InOrder
  <2> QED BY <1>1, <2>1, <2>2 DEF Unique
<1>6. Shows'
  BY <1>1, <1>3, <1>5, Passing DEF Shows
<1>7. KeysBelow(task, next) => KeysBelow(task, next')
  BY <1>1, <1>2 DEF KeysBelow, TaskKeys, InOrder
<1>8. ASSUME NEW q \in Active', "create" \notin crossed,
             The("project") < running'[q].at, running'[q].at <= The("advance")
      PROVE  KeysBelow(task', running'[q].sequence)
  <2>1. CASE q = r
    BY <1>1, <1>2, <1>3, <1>7, <1>8, <2>1 DEF Sequenced
  <2>2. CASE q # r
    BY <1>1, <1>3, <1>8, <2>2 DEF Sequenced, KeysBelow
  <2> QED BY <2>1, <2>2
<1>9. ASSUME NEW q \in Active', The("advance") < running'[q].at PROVE next' >= 4
  BY <1>1, <1>3, <1>5, <1>9, Passing DEF Sequenced
<1>10. Sequenced'
  BY <1>1, <1>7, <1>8, <1>9 DEF Sequenced, KeysBelow
<1> QED BY <1>3, <1>4, <1>6, <1>10

LEMMA UpsertTaskKeeps ==
  ASSUME InOrder, SeedInv, NEW r \in Active, UpsertTask(r) PROVE SeedInv'
<1> USE DEF SeedInv
<1> DEFINE i == running[r].at
           x == Advanced(r)
           key == Script[i].key
<1>1. /\ Script[i].op = "task" /\ running' = [running EXCEPT ![r] = x]
      /\ task' = [task EXCEPT ![key] = "seeded"]
      /\ UNCHANGED <<stored, next, history, crossed>>
  BY DEF UpsertTask
<1>2. /\ x \in RunRecord
      /\ \/ x.at = 0
         \/ /\ x.at = i + 1 /\ i + 1 \in Statements
            /\ x.met = running[r].met /\ x.sequence = running[r].sequence
  BY Advance
<1>3. /\ running' \in [Runs -> RunRecord] /\ running'[r] = x
      /\ Lonely' /\ StoredOnce' /\ Present'
      /\ \A q \in Active' :
           /\ q \in Active /\ running'[q].met = running[q].met
           /\ q # r => running'[q] = running[q]
           /\ running[q].at \in Nat
           /\ q = r => running'[q].at = running[q].at + 1
  BY <1>1, <1>2, PassingStep
<1>4. key \in SeededKeys /\ SeededKeys \subseteq TaskKeys
  <2>1. i \in Statements
    BY StatementDue
  <2>2. key \in SeededKeys
    BY <1>1, <2>1 DEF InOrder
  <2>3. LastTaskKey \in Nat /\ LastTaskKey >= 3
    BY DEF InOrder
  <2> QED BY <2>2, <2>3 DEF SeededKeys, TaskKeys
<1>5. /\ task' \in [TaskKeys -> Shown] /\ task'[key] = "seeded"
      /\ \A k \in TaskKeys \ {key} : task'[k] = task[k]
  BY <1>1, <1>4 DEF SeedTypeOK, Shown
<1>6. SeedTypeOK'
  BY <1>1, <1>3, <1>5 DEF SeedTypeOK
<1>7. /\ \A k \in SeededKeys : Upsert(k) \in Nat /\ (Upsert(k) = i => k = key)
      /\ \A op \in Unique : The(op) # i /\ The(op) \in Nat
  BY <1>1 DEF InOrder, Unique
<1>8. Shows'
  <2> SUFFICES ASSUME NEW q \in Active', NEW k \in SeededKeys,
                      running'[q].met \cap {"run", "change"} = {}
      PROVE  /\ Upsert(k) < running'[q].at => task'[k] = "seeded"
             /\ The("log") < running'[q].at => history'[k] = "seeded"
    BY DEF Shows
  <2>1. q \in Active /\ running[q].met \cap {"run", "change"} = {}
    BY <1>3
  <2>2. /\ Upsert(k) < running[q].at => task[k] = "seeded"
        /\ The("log") < running[q].at => history[k] = "seeded"
    BY <2>1 DEF Shows
  <2>3. q = r
    BY <2>1 DEF Lonely
  <2>4. Upsert(k) < i + 1 => k = key \/ Upsert(k) < i
    BY <1>3, <1>7, <2>3, Passing
  <2>5. The("log") < i + 1 => The("log") < i
    BY <1>3, <1>7, <2>3, Passing DEF Unique
  <2> QED BY <1>1, <1>3, <1>4, <1>5, <2>2, <2>3, <2>4, <2>5
<1>9. Sequenced'
  <2>1. \A n : KeysBelow(task', n) <=> KeysBelow(task, n)
    BY <1>4, <1>5 DEF KeysBelow
  <2>2. \A op \in Unique : \A q \in Active' : The(op) < running'[q].at => The(op) < running[q].at
    BY <1>3, <1>7, Passing
  <2>3. \A q \in Active' : /\ running'[q].at >= running[q].at /\ running'[q].at \in Nat
                           /\ running'[q].sequence = running[q].sequence
    BY <1>2, <1>3
  <2>4. The("advance") \in Nat /\ {"project", "advance"} \subseteq Unique
    BY <1>7 DEF Unique
  <2>5. ASSUME NEW q \in Active', "create" \notin crossed,
               The("project") < running'[q].at, running'[q].at <= The("advance")
        PROVE  KeysBelow(task', running'[q].sequence)
    <3>1. q \in Active /\ The("project") < running[q].at /\ running[q].at <= The("advance")
      BY <1>3, <2>2, <2>3, <2>4, <2>5
    <3>2. KeysBelow(task, running[q].sequence)
      BY <2>5, <3>1 DEF Sequenced
    <3> QED BY <1>4, <1>5, <2>3, <3>2 DEF KeysBelow
  <2>6. "create" \notin crossed => KeysBelow(task', next')
    BY <1>1, <1>4, <1>5 DEF Sequenced, KeysBelow
  <2> QED BY <1>1, <1>3, <2>2, <2>4, <2>5, <2>6 DEF Sequenced
<1> QED BY <1>3, <1>6, <1>8, <1>9

LEMMA RewriteHistoryKeeps ==
  ASSUME InOrder, SeedInv, NEW r \in Active, RewriteHistory(r) PROVE SeedInv'
<1> USE DEF SeedInv
<1> DEFINE i == running[r].at
           x == Advanced(r)
<1>1. /\ Script[i].op \in {"forget", "log"} /\ running' = [running EXCEPT ![r] = x]
      /\ history' = [k \in TaskKeys |->
                       IF k \notin SeededKeys THEN history[k]
                       ELSE IF Script[i].op = "log" THEN "seeded" ELSE "none"]
      /\ UNCHANGED <<stored, next, task, crossed>>
  BY DEF RewriteHistory
<1>2. /\ x \in RunRecord
      /\ \/ x.at = 0
         \/ /\ x.at = i + 1 /\ i + 1 \in Statements
            /\ x.met = running[r].met /\ x.sequence = running[r].sequence
  BY Advance
<1>3. /\ running' \in [Runs -> RunRecord] /\ running'[r] = x
      /\ Lonely' /\ StoredOnce' /\ Present'
      /\ \A q \in Active' :
           /\ q \in Active /\ running'[q].met = running[q].met
           /\ q # r => running'[q] = running[q]
           /\ running[q].at \in Nat
           /\ q = r => running'[q].at = running[q].at + 1
  BY <1>1, <1>2, PassingStep
<1>4. SeedTypeOK'
  BY <1>1, <1>3 DEF SeedTypeOK, Shown
<1>5. /\ \A op \in Unique : The(op) \in Nat /\ (Script[i].op = op <=> i = The(op))
      /\ \A k \in SeededKeys : Upsert(k) # i /\ Upsert(k) \in Nat
  <2>1. \A op \in Unique : The(op) \in Nat /\ (Script[i].op = op <=> i = The(op))
    BY StatementDue DEF InOrder
  <2> QED BY <1>1, <2>1 DEF InOrder
<1>6. Shows'
  <2> SUFFICES ASSUME NEW q \in Active', NEW k \in SeededKeys,
                      running'[q].met \cap {"run", "change"} = {}
      PROVE  /\ Upsert(k) < running'[q].at => task'[k] = "seeded"
             /\ The("log") < running'[q].at => history'[k] = "seeded"
    BY DEF Shows
  <2>1. q \in Active /\ running[q].met \cap {"run", "change"} = {}
    BY <1>3
  <2>2. Upsert(k) < running[q].at => task[k] = "seeded"
    BY <2>1 DEF Shows
  <2>3. q = r
    BY <2>1 DEF Lonely
  <2>4. Upsert(k) < i + 1 => Upsert(k) < i
    BY <1>3, <1>5, <2>3, Passing
  <2>5. Script[i].op = "forget" => i < The("log") /\ ~(The("log") < i + 1)
    <3>1. The("forget") < The("log") /\ The("log") \in Nat
      BY <1>5 DEF InOrder, Unique
    <3> QED BY <1>5, <3>1, <1>3, <2>3 DEF Unique
  <2>6. Script[i].op = "log" => history'[k] = "seeded"
    BY <1>1 DEF SeededKeys, TaskKeys, InOrder
  <2> QED BY <1>1, <1>3, <2>2, <2>3, <2>4, <2>5, <2>6
<1>7. Sequenced'
  <2>1. \A op \in {"project", "advance"} : The(op) # i /\ The(op) \in Nat
    BY <1>1, <1>5 DEF Unique
  <2> QED BY <1>1, <1>2, <1>3, <2>1, Passing DEF Sequenced
<1> QED BY <1>3, <1>4, <1>6, <1>7

LEMMA AdvanceSequenceKeeps ==
  ASSUME InOrder, SeedInv, NEW r \in Active, AdvanceSequence(r) PROVE SeedInv'
<1> USE DEF SeedInv
<1> DEFINE i == running[r].at
           x == [Advanced(r) EXCEPT !.sequence = 0]
<1>1. /\ Script[i].op = "advance" /\ running' = [running EXCEPT ![r] = x]
      /\ next' = SequenceAfter(running[r].sequence)
      /\ UNCHANGED <<stored, task, history, crossed>>
  BY DEF AdvanceSequence
<1>2. running[r].sequence \in Nat /\ next' \in Nat /\ next' >= 4 /\ next' >= running[r].sequence
  BY <1>1, StatementDue DEF SequenceAfter, RunRecord
<1>3. /\ x \in RunRecord
      /\ \/ x.at = 0
         \/ x.at = i + 1 /\ i + 1 \in Statements /\ x.met = running[r].met
  BY Advance DEF RunRecord
<1>4. /\ running' \in [Runs -> RunRecord] /\ running'[r] = x
      /\ Lonely' /\ StoredOnce' /\ Present'
      /\ \A q \in Active' :
           /\ q \in Active /\ running'[q].met = running[q].met
           /\ q # r => running'[q] = running[q]
           /\ running[q].at \in Nat
           /\ q = r => running'[q].at = running[q].at + 1
  BY <1>1, <1>3, PassingStep
<1>5. SeedTypeOK'
  BY <1>1, <1>2, <1>4 DEF SeedTypeOK
<1>6. /\ \A k \in SeededKeys : Upsert(k) # i /\ Upsert(k) \in Nat
      /\ The("log") # i /\ The("log") \in Nat
      /\ The("advance") = i /\ The("project") < i /\ i \in Nat
  <2>1. \A op \in Unique : The(op) \in Nat /\ (Script[i].op = op <=> i = The(op))
    BY StatementDue DEF InOrder
  <2>2. The("project") < The("advance")
    BY DEF InOrder
  <2>3. \A k \in SeededKeys : Upsert(k) # i /\ Upsert(k) \in Nat
    BY <1>1 DEF InOrder
  <2> QED BY <1>1, <2>1, <2>2, <2>3 DEF Unique
<1>7. Shows'
  BY <1>1, <1>4, <1>6, Passing DEF Shows
<1>8. "create" \notin crossed => KeysBelow(task, running[r].sequence)
  BY <1>6 DEF Sequenced
<1>9. "create" \notin crossed => KeysBelow(task, next')
  BY <1>2, <1>8 DEF KeysBelow, TaskKeys, InOrder
<1>10. ASSUME NEW q \in Active', "create" \notin crossed,
              The("project") < running'[q].at, running'[q].at <= The("advance")
       PROVE  KeysBelow(task, running'[q].sequence)
  <2>1. q # r
    BY <1>4, <1>6, <1>10
  <2> QED BY <1>4, <1>10, <2>1 DEF Sequenced
<1>11. Sequenced'
  BY <1>1, <1>2, <1>9, <1>10 DEF Sequenced
<1> QED BY <1>4, <1>5, <1>7, <1>11

\* What the API does beside the runs, they have met.
LEMMA BesideRuns ==
  ASSUME InOrder, SeedTypeOK, Lonely, NEW kind \in Kinds \ {"run"}, Beside(kind),
         "run" \in crossed' => "run" \in crossed, "run" \in crossed => "run" \in crossed'
  PROVE  /\ running' \in [Runs -> RunRecord] /\ Active' = Active /\ Lonely'
         /\ \A q \in Active :
              /\ running'[q].at = running[q].at /\ running'[q].found = running[q].found
              /\ running'[q].sequence = running[q].sequence
              /\ running'[q].met = running[q].met \cup {kind}
<1>1. ASSUME NEW q \in Active
      PROVE  /\ running'[q] \in RunRecord
             /\ running'[q].at = running[q].at /\ running'[q].found = running[q].found
             /\ running'[q].sequence = running[q].sequence
             /\ running'[q].met = running[q].met \cup {kind}
  BY StatementDue DEF Beside, Meets, RunRecord, Kinds
<1>2. \A q \in Runs \ Active : running'[q] = running[q]
  BY DEF Beside
<1>3. running' \in [Runs -> RunRecord]
  BY <1>1, <1>2 DEF SeedTypeOK, Beside
<1>4. Active' = Active
  BY <1>1, <1>2 DEF Active
<1>5. Lonely'
  BY <1>1, <1>4 DEF Lonely
<1> QED BY <1>1, <1>3, <1>4, <1>5

LEMMA CreateTaskKeeps ==
  ASSUME InOrder, SeedInv, CreateTaskBeside PROVE SeedInv'
<1> USE DEF SeedInv
<1>1. /\ next \in TaskKeys /\ next \in Nat /\ task[next] = "none"
      /\ task' = [task EXCEPT ![next] = "seeded"] /\ history' = [history EXCEPT ![next] = "seeded"]
      /\ next' = next + 1 /\ Beside("create") /\ stored' = stored
      /\ crossed' = IF Active = {} THEN crossed ELSE crossed \cup {"create"}
  BY DEF CreateTaskBeside, SeedTypeOK
<1>2. /\ running' \in [Runs -> RunRecord] /\ Active' = Active /\ Lonely'
      /\ \A q \in Active :
           /\ running'[q].at = running[q].at /\ running'[q].found = running[q].found
           /\ running'[q].sequence = running[q].sequence
           /\ running'[q].met = running[q].met \cup {"create"}
  BY <1>1, BesideRuns DEF Kinds
<1>3. /\ task' \in [TaskKeys -> Shown] /\ history' \in [TaskKeys -> Shown]
      /\ task'[next] = "seeded" /\ history'[next] = "seeded"
      /\ \A k \in TaskKeys \ {next} : task'[k] = task[k] /\ history'[k] = history[k]
  BY <1>1 DEF SeedTypeOK, Shown
<1>4. SeedTypeOK'
  BY <1>1, <1>2, <1>3 DEF SeedTypeOK, Kinds
<1>5. StoredOnce'
  BY <1>1, <1>2 DEF StoredOnce
<1>6. Present'
  BY <1>1, <1>2 DEF Present
<1>7. Shows'
  <2>1. SeededKeys \subseteq TaskKeys
    <3>1. LastTaskKey \in Nat /\ LastTaskKey >= 3
      BY DEF InOrder
    <3> QED BY <3>1 DEF SeededKeys, TaskKeys
  <2>2. \A q \in Active : running'[q].met \cap {"run", "change"} = {} =>
                            running[q].met \cap {"run", "change"} = {}
    BY <1>2
  <2> QED BY <1>2, <1>3, <2>1, <2>2 DEF Shows
<1>8. Sequenced'
  <2>1. \A q \in Active' : The("advance") < running'[q].at => next' >= 4
    BY <1>1, <1>2 DEF Sequenced
  <2>2. ASSUME "create" \notin crossed' PROVE Active' = {} /\ KeysBelow(task', next')
    <3>1. Active' = {} /\ "create" \notin crossed
      BY <1>1, <1>2, <2>2
    <3>2. KeysBelow(task, next)
      BY <3>1 DEF Sequenced
    <3> QED BY <1>1, <1>3, <3>1, <3>2 DEF KeysBelow, TaskKeys, InOrder
  <2> QED BY <2>1, <2>2 DEF Sequenced
<1> QED BY <1>2, <1>4, <1>5, <1>6, <1>7, <1>8

LEMMA ChangeStatusKeeps ==
  ASSUME InOrder, SeedInv, NEW k \in TaskKeys, ChangeStatus(k) PROVE SeedInv'
<1> USE DEF SeedInv
<1>1. /\ task[k] # "none" /\ task' = [task EXCEPT ![k] = IF task[k] = "moved" THEN "seeded" ELSE "moved"]
      /\ history' = [history EXCEPT ![k] = task'[k]]
      /\ Beside("change") /\ UNCHANGED <<stored, next, crossed>>
  BY DEF ChangeStatus
<1>2. /\ running' \in [Runs -> RunRecord] /\ Active' = Active /\ Lonely'
      /\ \A q \in Active :
           /\ running'[q].at = running[q].at /\ running'[q].found = running[q].found
           /\ running'[q].sequence = running[q].sequence
           /\ running'[q].met = running[q].met \cup {"change"}
  BY <1>1, BesideRuns DEF Kinds
<1>3. /\ task' \in [TaskKeys -> Shown] /\ history' \in [TaskKeys -> Shown]
      /\ \A j \in TaskKeys : task'[j] # "none" => task[j] # "none"
  BY <1>1 DEF SeedTypeOK, Shown
<1>4. SeedTypeOK'
  BY <1>1, <1>2, <1>3 DEF SeedTypeOK
<1>5. StoredOnce'
  BY <1>1, <1>2 DEF StoredOnce
<1>6. Present'
  BY <1>1, <1>2 DEF Present
<1>7. Shows'
  BY <1>2 DEF Shows
<1>8. Sequenced'
  BY <1>1, <1>2, <1>3 DEF Sequenced, KeysBelow
<1> QED BY <1>2, <1>4, <1>5, <1>6, <1>7, <1>8

LEMMA DeleteMilestoneKeeps ==
  ASSUME InOrder, SeedInv, DeleteMilestone PROVE SeedInv'
<1> USE DEF SeedInv
<1>1. CreateMilestone \in Statements /\ stored \in [Statements -> Nat] /\ stored[CreateMilestone] \in Nat
  BY DEF InOrder, SeedTypeOK, Creating
<1>2. /\ stored[CreateMilestone] > 0
      /\ stored' = [stored EXCEPT ![CreateMilestone] = stored[CreateMilestone] - 1]
      /\ Beside("delete") /\ UNCHANGED <<next, task, history, crossed>>
  BY DEF DeleteMilestone
<1>3. /\ running' \in [Runs -> RunRecord] /\ Active' = Active /\ Lonely'
      /\ \A q \in Active :
           /\ running'[q].at = running[q].at /\ running'[q].found = running[q].found
           /\ running'[q].sequence = running[q].sequence
           /\ running'[q].met = running[q].met \cup {"delete"}
  BY <1>2, BesideRuns DEF Kinds
<1>4. /\ stored' \in [Statements -> Nat]
      /\ \A i \in Statements : stored'[i] <= stored[i] /\ stored'[i] \in Nat /\ stored[i] \in Nat
  BY <1>1, <1>2
<1>5. SeedTypeOK'
  BY <1>2, <1>3, <1>4 DEF SeedTypeOK
<1>6. StoredOnce'
  <2> SUFFICES ASSUME "run" \notin crossed
      PROVE  /\ \A i \in Creating : stored'[i] <= 1
             /\ \A q \in Active :
                  Script[running[q].at].op = "store" /\ ~running[q].found => stored'[running[q].at] = 0
    BY <1>2, <1>3 DEF StoredOnce
  <2>1. \A i \in Creating : i \in Statements /\ stored[i] <= 1
    BY DEF StoredOnce, Creating
  <2>2. \A q \in Active : /\ running[q].at \in Statements
                          /\ Script[running[q].at].op = "store" /\ ~running[q].found => stored[running[q].at] = 0
    BY StatementDue DEF StoredOnce
  <2>3. \A i \in Creating : stored'[i] <= 1
    BY <1>4, <2>1
  <2>4. \A i \in Statements : stored[i] = 0 => stored'[i] = 0
    BY <1>4
  <2> QED BY <2>2, <2>3, <2>4
<1>7. Present'
  BY <1>3 DEF Present
<1>8. Shows'
  BY <1>2, <1>3 DEF Shows
<1>9. Sequenced'
  BY <1>2, <1>3 DEF Sequenced, KeysBelow
<1> QED BY <1>3, <1>5, <1>6, <1>7, <1>8, <1>9

LEMMA SeedNextInv == InOrder /\ SeedInv /\ [SeedNext]_seedVars => SeedInv'
<1> SUFFICES ASSUME InOrder, SeedInv, [SeedNext]_seedVars PROVE SeedInv'
  OBVIOUS
<1>1. CASE \E r \in Runs : Begin(r)
  BY <1>1, BeginKeeps
<1>2. ASSUME NEW r \in Active,
             Write(r) \/ Look(r) \/ UpsertProject(r) \/ UpsertTask(r) \/ RewriteHistory(r)
             \/ AdvanceSequence(r) \/ Fail(r)
      PROVE  SeedInv'
  BY <1>2, WriteKeeps, LookKeeps, UpsertProjectKeeps, UpsertTaskKeeps, RewriteHistoryKeeps,
     AdvanceSequenceKeeps, FailKeeps
<1>3. CASE CreateTaskBeside
  BY <1>3, CreateTaskKeeps
<1>4. CASE \E k \in TaskKeys : ChangeStatus(k)
  BY <1>4, ChangeStatusKeeps
<1>5. CASE DeleteMilestone
  BY <1>5, DeleteMilestoneKeeps
<1>6. CASE UNCHANGED seedVars
  BY <1>6 DEF seedVars, SeedInv, SeedTypeOK, Lonely, StoredOnce, Present, Shows, Sequenced, KeysBelow, Active
<1>7. \A r \in Runs : Fail(r) => r \in Active
  BY DEF Fail
<1> QED BY <1>1, <1>2, <1>3, <1>4, <1>5, <1>6, <1>7 DEF SeedNext, RunStep

\* The last statement stores the last rows.
LEMMA CompletesAsPromised ==
  ASSUME InOrder, SeedInv, NEW r \in Runs, Completes(r)
  PROVE  LET met == running[r].met IN
         /\ (\E i \in Creating : stored'[i] > 1) => "run" \in crossed
         /\ (\E i \in Creating : stored'[i] = 0) => met \cap {"run", "delete"} # {}
         /\ (\E k \in SeededKeys : history[k] # task[k]) => met \cap {"run", "change"} # {}
         /\ (\E k \in TaskKeys : task[k] # "none" /\ k >= next) => "create" \in crossed
<1> USE DEF SeedInv
<1> DEFINE last == Len(Script)
<1>1. /\ r \in Active /\ running[r].at = last /\ Write(r)
      /\ last \in Creating /\ last \in Statements /\ last \in Nat /\ Statements = 1..last
  BY DEF Completes, InOrder
<1>2. /\ stored \in [Statements -> Nat]
      /\ \A i \in Statements \ {last} : stored'[i] = stored[i]
      /\ Script[last].op = "keyed" => stored'[last] = 1
      /\ Script[last].op = "store" =>
           stored'[last] = IF running[r].found THEN stored[last] ELSE stored[last] + 1
      /\ Script[last].op = "insert" => stored[last] = 0 /\ stored'[last] = stored[last] + 1
      /\ Script[last].op \in {"keyed", "store", "insert"}
  BY <1>1 DEF Write, PutRows, SeedTypeOK, Creating
<1>3. ASSUME "run" \notin crossed, NEW i \in Creating PROVE ~(stored'[i] > 1)
  <2>1. i \in Statements /\ stored[i] <= 1 /\ stored[i] \in Nat
    BY <1>2, <1>3 DEF StoredOnce, Creating
  <2>2. Script[last].op = "store" /\ ~running[r].found => stored[last] = 0
    BY <1>1, <1>3 DEF StoredOnce
  <2> QED BY <1>2, <2>1, <2>2
<1>4. ASSUME running[r].met \cap {"run", "delete"} = {}, NEW i \in Creating PROVE stored'[i] # 0
  <2>1. i \in Statements /\ (i # last => i < last)
    BY <1>1 DEF Creating
  <2>2. /\ i < last => stored[i] > 0
        /\ Script[last].op = "store" /\ running[r].found => stored[last] > 0
    BY <1>1, <1>4 DEF Present
  <2> QED BY <1>1, <1>2, <2>1, <2>2
<1>5. ASSUME running[r].met \cap {"run", "change"} = {}, NEW k \in SeededKeys PROVE history[k] = task[k]
  <2>1. Upsert(k) < last /\ The("log") < last
    BY <1>1 DEF InOrder, Unique
  <2> QED BY <1>1, <1>5, <2>1 DEF Shows
<1>6. ASSUME "create" \notin crossed, NEW k \in TaskKeys, task[k] # "none" PROVE ~(k >= next)
  <2>1. next >= 4 /\ next \in Nat /\ k \in Nat
    BY <1>1 DEF Sequenced, InOrder, Unique, SeedTypeOK, TaskKeys
  <2>2. k \notin SeededKeys => k < next
    BY <1>6 DEF Sequenced, KeysBelow
  <2> QED BY <2>1, <2>2 DEF SeededKeys
<1> QED BY <1>3, <1>4, <1>5, <1>6

\* However often the seed script is stopped and run again, a run that comes to its
\* end leaves what SeedConverges says, unless something beside a run has spoilt it:
\* for any number of runs, in any interleaving with the API, and any script whose
\* statements are InOrder.
THEOREM SeedRunsConverge == SeedSpec => SeedConverges
<1>1. SeedInit => SeedInv
  BY ScriptInOrder, SeedInitInv
<1>2. SeedInv /\ [SeedNext]_seedVars => SeedInv'
  BY ScriptInOrder, SeedNextInv
<1>3. SeedInv /\ [SeedNext]_seedVars =>
        [\A r \in Runs : Completes(r) =>
           LET met == running[r].met IN
           /\ (\E i \in Creating : stored'[i] > 1) => "run" \in crossed
           /\ (\E i \in Creating : stored'[i] = 0) => met \cap {"run", "delete"} # {}
           /\ (\E k \in SeededKeys : history[k] # task[k]) => met \cap {"run", "change"} # {}
           /\ (\E k \in TaskKeys : task[k] # "none" /\ k >= next) => "create" \in crossed]_seedVars
  BY ScriptInOrder, CompletesAsPromised
<1> QED BY <1>1, <1>2, <1>3, PTL DEF SeedSpec, SeedConverges

=============================================================================
