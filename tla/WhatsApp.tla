------------------------------ MODULE WhatsApp ------------------------------
(***************************************************************************)
(* The WhatsApp webhook of one tenant.  The provider delivers payloads,    *)
(* each a batch of messages, until a request is answered with success; the *)
(* handler takes the messages of a payload in turn, runs the command each  *)
(* one holds against a session it has read before, and replies.            *)
(*                                                                         *)
(* A handler is a request being handled, one statement or one request to   *)
(* the provider at a time.  The services a command calls are modelled by   *)
(* what they do for it: they store rows, or refuse.  Texts, templates, the *)
(* 24-hour window (which the message itself opens) and audit rows are left *)
(* out.                                                                    *)
(***************************************************************************)
EXTENDS Integers, Sequences, FiniteSets

CONSTANTS
    Phone,      \* the users, each with a phone number
    Stranger,   \* a number of no user
    Topic,      \* the tasks that messages are about
    NoTopic,
    Payload,    \* what the provider delivers
    Batch,      \* the sequences of messages a payload may hold
    Handler,    \* concurrent executions of the handlers
    MaxTries,   \* deliveries of one payload
    MaxFaults   \* bound on the sends that fail and the processes that stop

VARIABLES
    payload,    \* [messages, tries, acked] of each payload
    handler,    \* the requests being handled
    session,    \* [exists, state, task, fresh] of each user
    subscribed, \* users that are active
    assigned,   \* tasks whose assignee is the sender
    leave,      \* the status of the leave request the commands name
    faults,
    written,    \* history: times each message's command has stored rows
    replied,    \* history: replies to each message the provider has taken
    outbox,     \* [sent, recorded]: replies sent, and rows that say so
    broken,     \* history: deliveries that failed, or were overtaken by the next
    last,       \* history: the task each user has opened last, while it counts
    charged,    \* history: [task, last, sure] of each expense
    crossed     \* history: users who have had two messages in hand at once, or one
                \* cut short, since their session has last run out

whatsAppVars == <<payload, handler, session, subscribed, assigned, leave, faults, written,
                  replied, outbox, broken, last, charged, crossed>>

Opening == {"TASK_DETAIL", "TASK_START", "TASK_DONE", "TASK_BLOCK", "TASK_LOG"}
Reading == {"TASKS", "LEAVE_BALANCE", "MY_PERFORMANCE", "UNKNOWN"}
Deciding == {"LEAVE_APPROVE", "LEAVE_REJECT"}
Applying == {"LEAVE_APPLY", "WFH_APPLY", "CHECK_IN", "CHECK_OUT"}
CommandName == Opening \cup Reading \cup Deciding \cup Applying \cup {"EXPENSE_APPLY"}

Message == [from: Phone \cup {Stranger}, name: CommandName \cup {"NOT_TEXT"},
            task: Topic \cup {NoTopic}]

Topics == Topic \cup {NoTopic}
SessionState == {"IDLE", "ACTIVE", "AWAITING_CONFIRMATION"}
SessionRecord == [exists: BOOLEAN, state: SessionState, task: Topics, fresh: BOOLEAN]
NoSession == [exists |-> FALSE, state |-> "IDLE", task |-> NoTopic, fresh |-> FALSE]

MaxLen == CHOOSE n \in {Len(b) : b \in Batch} : \A b \in Batch : Len(b) <= n

ASSUME WhatsAppAssumption ==
    /\ Stranger \notin Phone /\ NoTopic \notin Topic
    /\ Batch \subseteq Seq(Message) /\ \A b \in Batch : Len(b) > 0
    /\ \E b \in Batch : \A o \in Batch : Len(o) <= Len(b)
    /\ Payload # {} /\ IsFiniteSet(Handler) /\ MaxTries \in Nat /\ MaxFaults \in Nat

Position == Payload \X (1..MaxLen)

\* state and task are what the handler has read of the session, next what the
\* command makes of them.
HandlerRecord == [kind: {"none", "webhook", "test", "template"},
               pc: {"idle", "receive", "admit", "store", "execute", "perform",
                    "reply", "record", "save"},
               p: Payload, i: 1..MaxLen, m: Message, found: BOOLEAN,
               state: SessionState, task: Topics, next: SessionState, open: Topics]

AnyPayload == CHOOSE p \in Payload : TRUE
AtRest == [kind |-> "none", pc |-> "idle", p |-> AnyPayload, i |-> 1,
         m |-> [from |-> Stranger, name |-> "NOT_TEXT", task |-> NoTopic],
         found |-> FALSE, state |-> "IDLE", task |-> NoTopic, next |-> "IDLE", open |-> NoTopic]

WhatsAppTypeOK ==
    /\ payload \in [Payload -> [messages: Batch, tries: 0..MaxTries, acked: BOOLEAN]]
    /\ handler \in [Handler -> HandlerRecord] /\ session \in [Phone -> SessionRecord]
    /\ subscribed \subseteq Phone /\ assigned \subseteq Topic
    /\ leave \in {"PENDING", "APPROVED", "REJECTED"} /\ faults \in 0..MaxFaults
    /\ written \in [Position -> Nat] /\ replied \in [Position -> Nat]
    /\ outbox \in [sent: Nat, recorded: Nat] /\ broken \in [Payload -> Nat]
    /\ last \in [Phone -> Topics] /\ charged \subseteq [task: Topics, last: Topics, sure: BOOLEAN]
    /\ crossed \subseteq Phone

WhatsAppInit ==
    /\ payload \in [Payload -> [messages: Batch, tries: {0}, acked: {FALSE}]]
    /\ handler = [c \in Handler |-> AtRest] /\ session = [u \in Phone |-> NoSession]
    /\ subscribed = Phone /\ assigned = Topic /\ leave = "PENDING" /\ faults = 0
    /\ written = [x \in Position |-> 0] /\ replied = [x \in Position |-> 0]
    /\ outbox = [sent |-> 0, recorded |-> 0] /\ broken = [p \in Payload |-> 0]
    /\ last = [u \in Phone |-> NoTopic] /\ charged = {} /\ crossed = {}

-----------------------------------------------------------------------------
(* A handler goes from statement to statement, and from message to message.  *)

At(c, pc) == handler[c].pc = pc
Go(c, record) == handler' = [handler EXCEPT ![c] = record]
Here(c) == <<handler[c].p, handler[c].i>>
InWebhook(c) == handler[c].kind = "webhook"
Sender(c) == handler[c].m.from

Step(c, pc) == [handler[c] EXCEPT !.pc = pc]
BeginMessage(c, p, i) == [AtRest EXCEPT !.kind = "webhook", !.pc = "receive", !.p = p, !.i = i,
                               !.m = payload[p].messages[i]]

\* The next message of the payload, or the answer to the provider.
Advance(c) ==
    IF handler[c].i < Len(payload[handler[c].p].messages)
    THEN Go(c, BeginMessage(c, handler[c].p, handler[c].i + 1)) /\ UNCHANGED payload
    ELSE Go(c, AtRest) /\ payload' = [payload EXCEPT ![handler[c].p].acked = TRUE]

\* Mutant: a message whose handling has thrown is handled again at once.
FailAgain(c) ==
    /\ IF InWebhook(c) THEN Go(c, BeginMessage(c, handler[c].p, handler[c].i)) ELSE Go(c, AtRest)
    /\ UNCHANGED broken

\* A message in hand: its handler has read the session of its sender.
InHand(c) ==
    InWebhook(c) /\ handler[c].pc \in {"store", "execute", "perform", "reply", "record", "save"}

\* A handler is cut short by a send that fails or a process that stops.
CutShort(c) ==
    crossed' = IF InHand(c) THEN crossed \cup {Sender(c)} ELSE crossed

\* An exception: the request fails, with what is left of its messages.
Fail(c) ==
    /\ Go(c, AtRest)
    /\ broken' = IF InWebhook(c) THEN [broken EXCEPT ![handler[c].p] = @ + 1] ELSE broken

\* handleWebhook: the provider delivers what no request has acknowledged, also
\* while another one is being handled.  A number no enabled setting has is skipped.
Deliver(c, p) ==
    /\ At(c, "idle") /\ ~payload[p].acked /\ payload[p].tries < MaxTries
    /\ Go(c, BeginMessage(c, p, 1))
    /\ payload' = [payload EXCEPT ![p].tries = @ + 1]
    /\ broken' = IF \E d \in Handler : InWebhook(d) /\ handler[d].p = p
                 THEN [broken EXCEPT ![p] = @ + 1] ELSE broken
    /\ UNCHANGED <<session, subscribed, assigned, leave, faults, written, replied,
                   outbox, last, charged, crossed>>

-----------------------------------------------------------------------------
(* handleInboundMessage                                                      *)

\* The sender is looked up and the message stored; that of a stranger is FAILED.
Receive(c) ==
    /\ At(c, "receive")
    /\ IF handler[c].m.name # "NOT_TEXT" /\ Sender(c) \in subscribed
       THEN Go(c, Step(c, "admit")) /\ UNCHANGED payload
       ELSE Advance(c)
    /\ UNCHANGED <<session, subscribed, assigned, leave, faults, written, replied,
                   outbox, broken, last, charged, crossed>>

\* Mutant: a session that has been left alone for ten minutes goes on.
ReadSessionForever(c) ==
    LET s == session[Sender(c)]
    IN [Step(c, "store") EXCEPT
          !.found = s.exists,
          !.state = IF ~s.exists THEN "ACTIVE" ELSE s.state,
          !.task = s.task]

\* upsertSession, its read: after ten minutes the state of the session is dropped.
ReadSession(c) ==
    LET s == session[Sender(c)]
    IN [Step(c, "store") EXCEPT
          !.found = s.exists,
          !.state = IF ~s.exists THEN "ACTIVE" ELSE IF s.fresh THEN s.state ELSE "IDLE",
          !.task = IF s.fresh THEN s.task ELSE NoTopic]

\* buildActor, and the read of the session.
Admit(c) ==
    /\ At(c, "admit")
    /\ IF Sender(c) \in subscribed
       THEN Go(c, ReadSession(c)) /\ UNCHANGED broken
       ELSE Fail(c)
    /\ crossed' = IF \E d \in Handler \ {c} : InHand(d) /\ Sender(d) = Sender(c)
                  THEN crossed \cup {Sender(c)}
                  ELSE IF session[Sender(c)].fresh THEN crossed ELSE crossed \ {Sender(c)}
    /\ last' = IF session[Sender(c)].fresh THEN last ELSE [last EXCEPT ![Sender(c)] = NoTopic]
    /\ UNCHANGED <<payload, session, subscribed, assigned, leave, faults, written, replied,
                   outbox, charged>>

\* upsertSession, its write: a session has one row for each user.
StoreSession(c) ==
    /\ At(c, "store")
    /\ IF handler[c].found \/ ~session[Sender(c)].exists
       THEN /\ session' = [session EXCEPT ![Sender(c)] =
                              [exists |-> TRUE, state |-> handler[c].state,
                               task |-> handler[c].task, fresh |-> TRUE]]
            /\ Go(c, [Step(c, "execute") EXCEPT !.next = handler[c].state, !.open = handler[c].task])
            /\ UNCHANGED broken
       ELSE Fail(c) /\ UNCHANGED session
    /\ UNCHANGED <<payload, subscribed, assigned, leave, faults, written, replied,
                   outbox, last, charged, crossed>>

-----------------------------------------------------------------------------
(* executeCommand                                                            *)

\* checkIn of the attendance service: away from the office a reason is required.
AcceptsCheckIn(atOffice, reason) == atOffice \/ reason

\* A test command ends with the message it would have sent.
Answer(c, state, task) ==
    IF InWebhook(c) THEN [Step(c, "reply") EXCEPT !.next = state, !.open = task] ELSE AtRest

StayOpen(c) == Answer(c, handler[c].next, handler[c].open)

Opened(c) == [Step(c, "perform") EXCEPT !.next = "ACTIVE", !.open = handler[c].m.task]

\* Each operator holds what its commands may come to before they write.  A task
\* must be the sender's own.
Report(c) == IF handler[c].m.name \in Reading THEN {StayOpen(c)} ELSE {}

ShowTask(c) ==
    IF handler[c].m.name # "TASK_DETAIL" THEN {}
    ELSE {IF handler[c].m.task \in assigned THEN Answer(c, "ACTIVE", handler[c].m.task) ELSE StayOpen(c)}

ChangeTask(c) ==
    IF handler[c].m.name \notin Opening \ {"TASK_DETAIL"} THEN {}
    ELSE {IF handler[c].m.task \in assigned THEN Opened(c) ELSE StayOpen(c)}

Punch(c) == IF handler[c].m.name \in {"CHECK_IN", "CHECK_OUT"} THEN {Step(c, "perform")} ELSE {}

\* There may be no leave type of that name.
Apply(c) ==
    CASE handler[c].m.name = "LEAVE_APPLY" -> {StayOpen(c), Step(c, "perform")}
      [] handler[c].m.name = "WFH_APPLY" -> {Step(c, "perform")}
      [] OTHER -> {}

\* The category may be unknown; the task is the one the session names.
Spend(c) ==
    IF handler[c].m.name # "EXPENSE_APPLY" THEN {}
    ELSE {StayOpen(c), IF handler[c].task \in assigned THEN Step(c, "perform")
                   ELSE Answer(c, "AWAITING_CONFIRMATION", handler[c].open)}

\* There may be no leave request with that code, or no approval of it.
DecideLeave(c) == IF handler[c].m.name \in Deciding THEN {StayOpen(c), Step(c, "perform")} ELSE {}

Outcomes(c) ==
    UNION {Report(c), ShowTask(c), ChangeTask(c), Punch(c), Apply(c), Spend(c), DecideLeave(c)}

Execute(c) ==
    /\ At(c, "execute")
    /\ \E r \in Outcomes(c) :
          /\ Go(c, r)
          /\ last' = IF r.pc = "reply" /\ handler[c].m.name = "TASK_DETAIL" /\ handler[c].m.task \in assigned
                     THEN [last EXCEPT ![Sender(c)] = handler[c].m.task] ELSE last
    /\ UNCHANGED <<payload, session, subscribed, assigned, leave, faults, written, replied,
                   outbox, broken, charged, crossed>>

\* What the services accept: the three statements the handler makes itself are
\* not refused, a decision only when there is one already, and a check-in is
\* made without an address, a place or a reason.
Accepts(c) ==
    CASE handler[c].m.name \in {"TASK_START", "TASK_DONE", "TASK_BLOCK"} -> {TRUE}
      [] handler[c].m.name \in Deciding -> {leave = "PENDING"}
      [] handler[c].m.name = "CHECK_IN" -> {AcceptsCheckIn(FALSE, FALSE)}
      [] OTHER -> BOOLEAN

\* The command stores its rows, or the service it calls throws.
Perform(c) ==
    /\ At(c, "perform")
    /\ IF ~InWebhook(c)
       THEN Go(c, AtRest) /\ UNCHANGED <<leave, written, broken, last, charged>>
       ELSE \E ok \in Accepts(c) :
          IF ~ok THEN Fail(c) /\ UNCHANGED <<leave, written, last, charged>>
          ELSE /\ Go(c, StayOpen(c))
               /\ written' = [written EXCEPT ![Here(c)] = @ + 1]
               /\ leave' = CASE handler[c].m.name = "LEAVE_APPROVE" -> "APPROVED"
                             [] handler[c].m.name = "LEAVE_REJECT" -> "REJECTED"
                             [] OTHER -> leave
               /\ last' = IF handler[c].m.name \in Opening
                          THEN [last EXCEPT ![Sender(c)] = handler[c].m.task] ELSE last
               /\ charged' = IF handler[c].m.name = "EXPENSE_APPLY"
                             THEN charged \cup {[task |-> handler[c].task, last |-> last[Sender(c)],
                                              sure |-> Sender(c) \notin crossed]}
                             ELSE charged
               /\ UNCHANGED broken
    /\ UNCHANGED <<payload, session, subscribed, assigned, faults, replied, outbox, crossed>>

-----------------------------------------------------------------------------
(* The reply                                                                 *)

\* sendReply, sendTemplate: the provider takes the message, or the call throws.
Reply(c) ==
    /\ At(c, "reply")
    /\ \/ /\ outbox' = [outbox EXCEPT !.sent = @ + 1]
          /\ IF handler[c].kind = "template" THEN UNCHANGED replied
             ELSE replied' = [replied EXCEPT ![Here(c)] = @ + 1]
          /\ Go(c, Step(c, "record")) /\ UNCHANGED <<faults, broken, crossed>>
       \/ /\ faults < MaxFaults /\ faults' = faults + 1 /\ Fail(c) /\ CutShort(c)
          /\ UNCHANGED <<outbox, replied>>
    /\ UNCHANGED <<payload, session, subscribed, assigned, leave, written, last, charged>>

\* The row of the message sent, and the mark on the session.
RecordReply(c) ==
    /\ At(c, "record")
    /\ outbox' = [outbox EXCEPT !.recorded = @ + 1]
    /\ IF handler[c].kind = "template" THEN Go(c, AtRest) /\ UNCHANGED session
       ELSE /\ Go(c, Step(c, "save"))
            /\ session' = [session EXCEPT ![Sender(c)].fresh = TRUE]
    /\ UNCHANGED <<payload, subscribed, assigned, leave, faults, written, replied, broken,
                   last, charged, crossed>>

\* The session gets what the command made of the state the handler has read,
\* and an unknown command is notified to its sender.
Save(c) ==
    /\ At(c, "save")
    /\ session' = [session EXCEPT ![Sender(c)] =
                      [exists |-> TRUE, state |-> handler[c].next, task |-> handler[c].open, fresh |-> TRUE]]
    /\ written' = IF handler[c].m.name = "UNKNOWN" THEN [written EXCEPT ![Here(c)] = @ + 1] ELSE written
    /\ Advance(c)
    /\ UNCHANGED <<subscribed, assigned, leave, faults, replied, outbox, broken, last, charged, crossed>>

-----------------------------------------------------------------------------
(* The other entries, and what happens around the handlers.                  *)

\* testCommand: a dry run, with an empty session, for an active user.
TestCommand(c) ==
    /\ At(c, "idle")
    /\ \E p \in Payload, i \in 1..MaxLen :
          /\ i <= Len(payload[p].messages)
          /\ payload[p].messages[i].from \in subscribed /\ payload[p].messages[i].name # "NOT_TEXT"
          /\ Go(c, [BeginMessage(c, p, i) EXCEPT !.kind = "test", !.pc = "execute"])
    /\ UNCHANGED <<payload, session, subscribed, assigned, leave, faults, written, replied,
                   outbox, broken, last, charged, crossed>>

\* sendTemplate: to an active user who has a phone number.
SendTemplate(c) ==
    /\ At(c, "idle") /\ subscribed # {} /\ outbox.sent < MaxTries
    /\ Go(c, [AtRest EXCEPT !.kind = "template", !.pc = "reply"])
    /\ UNCHANGED <<payload, session, subscribed, assigned, leave, faults, written, replied,
                   outbox, broken, last, charged, crossed>>

\* A process stops in the middle of a request.
Stop(c) ==
    /\ handler[c].kind # "none" /\ faults < MaxFaults /\ faults' = faults + 1
    /\ Fail(c) /\ CutShort(c)
    /\ UNCHANGED <<payload, session, subscribed, assigned, leave, written, replied, outbox, last,
                   charged>>

\* Ten minutes pass without a statement on the session.
Age(u) ==
    /\ session[u].fresh /\ session' = [session EXCEPT ![u].fresh = FALSE]
    /\ UNCHANGED <<payload, handler, subscribed, assigned, leave, faults, written, replied, outbox,
                   broken, last, charged, crossed>>

\* A task is given to somebody else, or a user deactivated.
Reassign(t) ==
    /\ t \in assigned /\ assigned' = assigned \ {t}
    /\ UNCHANGED <<payload, handler, session, subscribed, leave, faults, written, replied, outbox,
                   broken, last, charged, crossed>>
Deactivate(u) ==
    /\ u \in subscribed /\ subscribed' = subscribed \ {u}
    /\ UNCHANGED <<payload, handler, session, assigned, leave, faults, written, replied, outbox,
                   broken, last, charged, crossed>>

Handle(c) ==
    \/ Receive(c) \/ Admit(c) \/ StoreSession(c) \/ Execute(c) \/ Perform(c)
    \/ Reply(c) \/ RecordReply(c) \/ Save(c)

WhatsAppNext ==
    \/ \E c \in Handler :
          \/ Handle(c) \/ TestCommand(c) \/ SendTemplate(c) \/ Stop(c)
          \/ \E p \in Payload : Deliver(c, p)
    \/ \E u \in Phone : Age(u) \/ Deactivate(u)
    \/ \E t \in Topic : Reassign(t)

WhatsAppSpec == WhatsAppInit /\ [][WhatsAppNext]_whatsAppVars

-----------------------------------------------------------------------------
(* Properties                                                                *)

AnsweredBeforeAcked ==
    \A p \in Payload : payload[p].acked =>
        \A i \in 1..Len(payload[p].messages) :
            \/ replied[<<p, i>>] > 0
            \/ payload[p].messages[i].name = "NOT_TEXT"
            \/ payload[p].messages[i].from \notin subscribed

RepeatedOnlyByRedelivery ==
    \A p \in Payload : \A i \in 1..Len(payload[p].messages) :
        written[<<p, i>>] <= broken[p] + 1

RecordedWasSent == outbox.recorded <= outbox.sent

\* The provider is told that a payload has arrived only when each of its texts
\* from an active user has been answered, a reply is SENT only when he has taken
\* it, and a command is repeated only when a delivery has failed or has been
\* overtaken, once for each (handleWebhook, handleInboundMessage, sendReply).
AnsweredOncePerDelivery ==
    /\ WhatsAppTypeOK /\ AnsweredBeforeAcked /\ RecordedWasSent /\ RepeatedOnlyByRedelivery

\* While no message of a user is in hand, the session names the task he has
\* opened last, and an expense goes to the project of that task, unless two of his
\* messages have been handled at once, or one has been cut short, since his session
\* has last run out; and an expense always charges a task the session names
\* (executeCommand, handleInboundMessage).
ContextFollowsUser ==
    /\ \A u \in Phone \ crossed :
          session[u].fresh /\ ~(\E c \in Handler : InHand(c) /\ Sender(c) = u)
              => session[u].task = last[u]
    /\ \A x \in charged : x.task # NoTopic /\ (x.sure => x.task = x.last)

\* What the dry run and the help text say of "check in": the command records
\* the check-in of an active user, when nothing fails around it.
CheckInRecorded ==
    \A p \in Payload :
        /\ payload[p].messages[1].name = "CHECK_IN" /\ payload[p].messages[1].from \in subscribed
        /\ payload[p].tries > 0 /\ faults = 0 /\ (\A c \in Handler : At(c, "idle"))
        => written[<<p, 1>>] > 0
=============================================================================
