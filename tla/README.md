# PhotonX WorkOS: a TLA+ verification

PhotonX WorkOS is a multi-tenant HR and project system. `apps/api` is a NestJS server on MySQL
(Prisma) with Redis and BullMQ for background jobs; `apps/web` is a Next.js client of it. This
directory holds TLA+ models of the parts of both whose correctness rests on the order in which
database statements, jobs, requests and answers happen, the TLC configurations that check them, and
theorems about them that TLAPS checks. Paths below are relative to `apps/api/src` unless they say
otherwise; `common/` and `modules/` are its two halves.

## 1. How the system runs, and what that means for a model

- A request handler is an `async` method of a service. It runs one database statement (or one
  `prisma.$transaction`) at a time, and any other request, tick or job may run between two of them.
  **An action of a model is one such statement or transaction**, or a few that read rows nothing
  else in the model writes in between. What a handler remembers between two statements is a record
  in a variable (`op`, `worker`, `request`, `call`).
- `$transaction(async tx => ...)` on MySQL's InnoDB under REPEATABLE READ: reads in it see the
  snapshot of its first read, its writes take effect together when it commits, updates by primary
  key apply to the row as it is by then, and unique keys are checked against what is committed.
  A transaction that reads before it writes is therefore two actions, one for the snapshot and one
  for the commit; one that fails leaves nothing behind.
- A process may stop between any two statements. Nothing but the database and Redis survives.
- Background work: the BullMQ queues `notification-deliveries` (three attempts per job; the job of a
  process that died is run again), `notification-events` (mentions in comments),
  `compliance-requests`, and `recurring-task-templates`, whose repeated job ticks every minute. Each
  replica of the server runs the workers; `docker-compose.yml` has one, with
  `restart: unless-stopped`.
- Rows of different tenants never meet, so every model is of one tenant. Each handler also writes
  an audit row afterwards that nothing reads; it is left out of every action.

## 2. Inventory

| Component (source) | State it keeps | Operations that change it | Interacts with | What is hard |
|---|---|---|---|---|
| **Approvals** `modules/approvals` | `ApprovalRequest`, `ApprovalStep`, and the status of the row decided | create a single-step approval; approve, reject | filing handlers of Leave, WFH, Expenses, Attendance; project costs; attendance days | the request is read and checked outside the transaction that decides it |
| **Expenses** `modules/expenses` | `Expense`, categories, policies | file, decide, configure | Approvals, project costs | filing is several statements; approval creates a cost |
| **Teams** `modules/teams` | `Team`, `TeamMember` | add, remove members | who may approve | membership changes while a decision is under way |
| **Notifications** `modules/notifications` | `NotificationEvent`, `NotificationDelivery`, jobs | emit, deliver, refresh, mark read | every component emits; WhatsApp, Slack, email providers | at-least-once jobs, repeated emits, crashes, lost status updates |
| **Time entries** `modules/time-entries` | `TimeEntry`, `TimeEntryUnlock` | create, bulk create, adjust, unlock | Budget alerts | daily cap and lock date are checked before the row is stored |
| **Budget alerts** `common/services/budget-alerts`, `project-costing` | `BudgetAlert` | evaluate a project | time entries and costs write what it sums | concurrent evaluations, a unique key that fails the later one |
| **Leave** `modules/leave` | ledger, requests, policies | balance, request, policy | Approvals, request codes | balance against approved leave only; every query rewrites the ledger |
| **Request codes** `common/services/request-code` | none (largest code + 1) | next | Leave, WFH, Expenses, regularizations | two callers get one code |
| **Tasks** `modules/tasks` | `Task`, transitions, dependencies, key sequence | create, change status (one, bulk), delete, depend | workflows, statuses, templates, WhatsApp | keys from a snapshot; changes by what was read |
| **Task dependencies** `common/services/task-dependency` | `TaskDependency` | walk before an insertion | Tasks | the graph changes under the walk |
| **Task statuses**, **workflows** | `TaskStatus`, transitions | create, change, delete | Tasks | deletion races with tasks that take the status |
| **Access scopes** `common/services/tenant-rbac-scope` | none | who may open a task or a project | every service; the task list has a condition of its own | checked in one statement, relied on in later ones |
| **Comments and mentions** `modules/tasks` | `TaskComment`, events, jobs | comment, queue, mark the event | a queue of its own | jobs are added after the commit |
| **Recurring templates** `modules/recurring-task-templates` | `nextRunAt` | tick, generate | Tasks | overlapping ticks and replicas; months of different length; failing templates |
| **Projects**, **Milestones** `modules/projects`, `milestones` | rows, members | create, change, delete, add members | everything that hangs on a project | access is checked before the write, defaults are cleared and set |
| **Attachments** `modules/attachments` | `TaskAttachment`, objects in S3 | presign, confirm | Expenses, Tasks, the object store | keys made of a millisecond; a receipt points back to one expense |
| **KPI dashboards** `modules/kpi-dashboard` | none | count tasks, stays and sums | Tasks, Teams, Projects | nine statements, one set of figures |
| **Compliance** `modules/compliance` | request status, erased rows | export, delete, process | a queue, Users | crash while IN_PROGRESS, failures not retried |
| **GitHub** `modules/integrations/github` | deliveries, commits, mappings | webhook, manual mapping | Tasks | repeated deliveries, failures midway |
| **Auth** `modules/auth` | sessions | login, refresh, logout | everything | token rotation races |
| **WhatsApp** `modules/integrations/whatsapp` | messages, sessions | webhook commands | Tasks, Attendance, Leave, Expenses | redelivery after a failure midway, a session read before the command |
| **Attendance**, **Office policy** `modules/attendance`, `office-policy` | days, events, address rules | check in and out, regularize | Approvals | a check-in overwrites a corrected day; a prefix of an address |
| **WFH**, **Holidays** `modules/wfh`, `holidays` | requests, claims | file, claim | Approvals | quotas counted before they are used |
| **Reviews** `modules/reviews` | cycles, entries | submit, approve | Teams | a status read before it is written |
| **Users**, **Roles** | users, grants | update, import, replace | everything | an update undoes an erasure |
| **AI chat, cache, tools, documents** `modules/ai-agent`, `documents` | two caches, calls of tools | ask, run tools, invalidate | every service a tool calls | stale answers; tools that ran before a failure |
| **Seed script** `apps/api/prisma/seed.ts` | the demo tenant's rows | run, run again | Tasks | no transaction; a key sequence others use |
| **Web session** `apps/web/src/lib` | tokens of a browser | sign in, refresh, sign out | Auth | tabs share tokens, not the refresh |
| **Task board** `kanban-board.tsx` | a copy of a cached answer | drag a card | Tasks | answers that are older than a move |
| **Others** | rows | request-by-request storage, reads | | see section 8 |

`PROJECT.json` lists all forty-five components with their files, what is modelled of each, and the
hazards of the code with the line each bites at and the properties that would catch them.

What makes the main components correct:

- *Approvals*: the tables agree; only somebody entitled decides, and nobody decides their own
  request; a decision has its effects and only a decision has them; a settled request stays settled;
  a pending request has somebody who can decide it.
- *Notifications*: a delivery marked SENT was sent; messages are not multiplied beyond what the
  queue's guarantees force; the event's status follows its deliveries; each delivery gets an outcome.
- *Time and budget*: the cap and the lock date hold; alerts are complete and come in order.
- *Leave*: the ledger is what the policy grants; nobody takes more than was accrued.
- *Tasks*: keys are unique and dense; an occurrence is generated once; dependencies have no cycle;
  the transition rows tell how each task got where it is; whoever lists a task may open it.
- *Accounts*: a refresh token buys tokens once, a logout is final, an erasure lasts, requests tell
  what was done; the browser is signed in as its last login says.
- *Integrations*: a delivery is acknowledged only when it was handled, and nothing of it is lost or
  repeated without a fault; an answer of the assistant tells what its tools did.
- *Projects, reviews, attendance, days off*: one default at most; an approval stands; a day agrees
  with itself; quotas hold but for requests that overlap.
- *Receipts*: whoever sees an expense may open its receipt, and the attachment names an expense that
  names it.

## 3. Modules

| Module | Models | Size of the state |
|---|---|---|
| `ApprovalRecord` | the abstract promise of the approval engine: one record per request, decided by a claim staked while it was pending | `record`, `claim` |
| `Approvals` | `createSingleStepApproval`, `actOnApproval` with `applyTargetDecision`, the four filing handlers up to the approval they create, team membership | `member filing target request step costs link day corrections op parted` |
| `Notifications` | one event: `emitToUser` (`createOrGetEvent`, `enqueueEventDeliveries`), the queue, `processDelivery`, `refreshEventStatus` | `event delivery sends emitter job worker doubtful raced` |
| `TimeEntries` | one date: create, adjust, unlock, bulk items, project costs, `evaluateProjectBudget` | `entries hours labor unlocked locked costs alerts request behind` |
| `Leave` (extends `ApprovalRecord`) | one user, leave type and year: ledger, balance, requests, policy changes | `policy changes month ledger exact days call` + `record claim` |
| `TaskDependencies` | `createDependency` with `wouldCreateCycle`, `deleteDependency` | `dependsOn call` |
| `Tasks` | one project: keys, creation, status changes, WhatsApp commands, deletion of tasks and statuses, one recurring template | `nextTaskSequence live taskStatus deleted reopened run log nextRun call` |
| `Templates` | ticks over several templates with their limit, the calendar, failures and deleted projects | `today template deleted bare broken tick stops` |
| `TaskAccess` | who sees a task; the list and the detail; creating and updating one with assignee, milestone and parent; comments and mentions up to their events | `active member teams milestones task call event job hurt` |
| `Receipts` | uploads, attachments, `createExpense` with category, policy and receipt, list and detail of expenses | `open teams category policy now granted object attachment expense call linked stopped` |
| `Projects` | projects, members, milestones, statuses and workflows with their defaults | `project member milestone row uses request` |
| `Reviews` | review cycles and entries | `cycles teams present entry review` |
| `Attendance` | the days of one user, corrections, address rules | `clock day event reg rules punch stops mixed under` |
| `DaysOff` | WFH and optional holidays of one user | `quota peak wfh crowded holiday claims disturbed allowed absent handler` |
| `TimeOff` (extends `Leave`, `Attendance`, `DaysOff`) | the three side by side, and what each of them grants | theirs |
| `Dashboards` | scopes and counts of the KPI dashboards | `day active team member task entered change call` |
| `Accounts` | users, roles, sessions, compliance requests with their queue | users, sessions, calls, requests and histories |
| `WebSession` | two tabs of a browser and the shared refresh | `current issued fresh stored request refresh login hurt` |
| `WhatsApp` | the webhook loop, sessions, commands, replies | `payload handler session subscribed assigned leave faults written replied outbox broken last charged crossed` |
| `Github` | deliveries, commits mapped by event and by hand | `delivery received mapping unmatched asked openTickets linked hook hookFaults runs` |
| `AiChat` | chat, plan, tools, search, both caches, changes of documents | `document memory shared chat edit rows effects lost forgotten settled` |
| `SeedScript` | the statements of the seed script, in their order | none |
| `Seed` | runs of such a script, stopped, repeated or at once, beside the API | `stored next task history running crossed` |
| `Board` | the task board in one browser | `status writes columns fetch data shown move behind refused` |
| `*Proofs` | theorems about the modules each extends | |
| `MC*` | values for TLC; the `.cfg` files name the runs | |

A module that has theorems is extended, by its `MC` module and by its `*Proofs` module alike, so that
the property a run checks and the one a theorem states are one definition. Where one `MC` module
holds several components, each has its own names for `Init`, `Next` and its calls:

| `MC` module | extends | and has beside it, as instances | proofs |
|---|---|---|---|
| `MCApprovals` | `Approvals`, `Receipts` | | `ApprovalsProofs` |
| `MCNotifications` | `Notifications` | | `NotificationsProofs` |
| `MCTimeEntries` | `TimeEntries`, `Dashboards` | | `TimeEntriesProofs` |
| `MCLeave` | `TimeOff` | | `LeaveProofs` |
| `MCTaskDependencies` | `TaskDependencies`, `Reviews`, `Projects` | `Templates` | `TaskDependenciesProofs` |
| `MCTasks` | `Tasks`, `Board`, `Seed`, `SeedScript` | | `TasksProofs` |
| `MCAccounts` | `Accounts`, `WebSession` | | `AccountsProofs` |
| `MCIntegrations` | `TaskAccess`, `Github`, `WhatsApp`, `AiChat` | | `IntegrationsProofs`; `TasksProofs` for `Github`, whose commits are on tasks; `NotificationsProofs` for `WhatsApp`, whose messages come in where the others go out |

Composition: `Leave` extends `ApprovalRecord` and takes its actions as the decisions made about its
requests; `Approvals` implements `ApprovalRecord` (`ImplementsRecord`, checked and proved), so that
what `Leave` assumes of decisions is what the engine does, the overlap of two decisions included.
The cost row an approved expense creates is `ApplyToExpense` in `Approvals` and `ApproveExpense` in
`TimeEntries`. What the commands of `WhatsApp` and the tools of `AiChat` cause in other services is
modelled there by its outcome (a row, a refusal); the services themselves are in their own modules.
`WebSession` contains the server's part of a refresh, the two statements of `Accounts`.

### Approvals

`CreateTarget`, `ResolveApproverId`/`ResolveApproverFails`, `CreateSingleStepApproval` are the three
groups of statements of a filing handler, and `FilingLost` a stop between them. `OpenApproval` is the
read of the request and all checks on it; `AssertTeamOverlap` the second read that a team lead (not
a super admin) must pass; `BeginDecision`/`CommitDecision` the transaction, in which step, request
and target are updated by id (`WriteStatuses`) and the effects applied; `AbandonDecision` its loss.
`link` counts cost rows from 1, 0 being NULL: the expense is read in the transaction's snapshot, so
two approvals may both create a cost row. `day` and `corrections` are the attendance day and its
CORRECTION events. Which of several leads is the approver (the oldest grant) matters to no property,
so the choice is free. `parted` is history: the targets whose requester or approver has left a team
since the approver was resolved; `Decidable` excuses these and no others.

### Notifications

One event stands for all, since events share nothing but the workers. `FindEvent`, `CreateEvent`
(with the unique key's refusal), `ListPending` and `AddJob` are the statements of an emit;
`ReadDelivery` (with the early return on SENT and SKIPPED), `ReadPreference`, `MarkSkipped`,
`SendMessage`, `MarkSent`, `MarkFailed`, `RefreshRead`, `RefreshWrite` those of a run. `EndJob` and
`Retry` are BullMQ's: a run that throws is repeated until its attempts are spent, and `Stall` puts
the job of a dead process back. The channels are told apart by what matters: whether a user may mute
them and whether sending is a call to a provider. Three histories carry the properties: `sends`
counts the messages each job has handed to a provider, `doubtful` holds the deliveries two runs of
which have overlapped or that a run has sent and could not mark, and `raced` says that any two runs
have overlapped or one has stopped between its mark and its refresh.

### TimeEntries

Each statement of a request is an action: checks (`CreateTimeEntry`, `AdjustTimeEntry`),
`AssertDailyCap`, `InsertEntry`, then the evaluation with its two parallel sums (`ReadBurn`, in
either order), the alerts there are (`ReadAlerts`) and the insertions, lowest threshold first
(`RaiseAlert`, whose unique key ends the loser's request). `DateLocks` is the passing of days. Rows
are only added, so sums stand for the queries. An hour costs one unit. `InFlight` is the rows that
requests past their cap check still have to store, which is what lets `OverrunBounded` speak of
every moment; `behind` is history, the projects with costs that no evaluation has seen undisturbed.

### Leave

`BeginCall` reads policy and month; `EnsureMonth` is one upsert of `ensureAccrualLedgerForYear`;
`ReadAccrued`, `ReadApproved`, `ReadCode`, `InsertRequest`, `FileApproval` are the rest of
`getBalance` and `createLeaveRequest`. `old`, `alone` and `exact` are history variables that no
guard reads: they let `LedgerFollowsPolicy` say "a loop that no loop under another policy overlapped".

### TaskDependencies and Tasks

`Walk` is one query of the walk, `InsertDependency` the insertion with the unique pair's refusal;
the stack is a set since its order is immaterial to the result. In `Tasks` a creation takes its
snapshot (`OpenCreate`), and `CommitCreate` stores the key made from it, increments the sequence
where it stands, or fails on the unique key. `OpenRun`/`CommitRun` are a tick's transaction on a due
template. `ReadTasks`, `ResolveTarget`, `MoveTasks` are `updateTask`, `changeStatus` and
`bulkOperate`; `OpenMessage`/`ExecuteCommand` the two WhatsApp commands that write a status;
`CountTasks`/`DropStatus` the deletion of a status. No action creates statuses or templates: the
model starts with those of the project, and deletions only take them away. What one run of a
template stores is there; when templates run is `Templates`: `BeginTick` is the query of
`processDueTemplates`, `ProcessTemplate` one transaction with its four ends (no longer due, project
deleted, no status, task stored) or its failure, `NextRun` is `calculateNextRunAt`. A date is a day,
months are given by their lengths, and `setUTCMonth` counts days on into the next month. `Break` is
the way a transaction fails for good: the seed script has stored a key that `nextTaskSequence` makes.

### Projects and Reviews

A request of `Projects` checks in one statement that the caller may manage the project and writes by
id in a later one, so a row may be deleted in between. Making a status or a workflow the default
clears the others in the same transaction; that this leaves one default rests on InnoDB's locks over
the range the clearing statement reads, which the model states (over no rows the locks do not
conflict until both insert). In `Reviews` an entry is read, then written: the status written late
may overwrite an approval. No code closes a cycle, and nothing keeps a lead from reviewing himself.

### TaskAccess and Receipts

The lookups of a request (`ReadTask`, `ReadMember`, `ReadTeams`, `ReadAssignee`, `ReadMilestone`,
`ReadParent`) are actions in the order the awaits give them, `Write` stores the row by id;
`calm`, `hadTeams` and `wasMember` are history. `Readable` is what the detail page lets through and
`Listed` the condition of the list, written apart in the code and compared by `ListedIffReadable`.
`StoreComment` is one transaction, `AddJob` each job after it, `Take`/`Process`/`ProcessFails`/
`Stall` the worker's (the jobs have one attempt).
In `Receipts` a key is the kind, the entity and the millisecond; `Spending`, `Linking` and
`Confirming` are the stages of its requests, and `LinkReceipt` is the update of the attachment after
the insertion of the expense. `TaskAccess` has several tasks and their readers; in `Receipts` the
readers of the one task are a constant.

### Attendance, DaysOff, Dashboards

A punch is a check-in or a check-out being handled: it reads, writes the day (`WriteDay`, an upsert of
`CheckInDay` or `CheckOutDay`), then adds its event. An address is a row of bits, so that the test of
`isIpInCidr` (`Agrees`) compares the first of them for any width; `bits` 0 and a rule without bits
are its two special cases. Two histories excuse what the code lets happen: `mixed`, the days written by
a correction, by overlapping punches or at a time not theirs, and `under`, the rules a check-in was
judged by. `DaysOff` counts in one statement and stores in another; `crowded` holds the requests made
while another was pending or about to be, `disturbed` the claimed holidays whose day, or what was asked
for it, changed after the check, and `peak` is the largest quota there has been. `FileLeave` and
`RejectLeave` are what a leave request does to the days that count as taken. `Dashboards` takes the
statements of `user-performance.service` one by one; sums and quotients are left out. `touched` holds
the tasks that changed while a request read, `wereIn` and `wereOn` the users that were in the team or on
the project since it began.

### Accounts and WebSession

Each statement of `login`, `refresh`, `logout`, `updateUser`, `importUsers`, `deleteUser`,
`assignUserRoles` and of the compliance processor is a step of a call; `Caught` is the catch block
around the work *and* the audit row. `WebSession` runs the code of a tab from one answer to the next
in one step, because JavaScript does; the refresh that requests of a tab share is `Join`.

### WhatsApp, Github, AiChat

Payloads and deliveries are sent again until acknowledged. `WhatsApp` takes the messages of a payload
in turn, with the session read before the command and written after the reply; a `handler` is a
request being handled. Its histories: `broken` counts the deliveries of a payload that failed or were
overtaken by the next, `last` is the task a user opened last while his session had not run out,
`crossed` the users who have had two messages in hand at once, or one cut short by a failed send or a
stop, since it last did, and `charged` the expenses, each with whether its user had (`sure`). `Github` stores a
delivery under its id before it works on it, so a redelivery of a failed one is answered as a
duplicate. `AiChat` has two processes with a memory each and Redis between them; the documents module
has a cache service of its own, so its invalidation clears Redis and a memory no chat writes to. What a
plan may hold, how sure the model is and the threshold are constants. `effects` counts
what the tools of a question did, `rows` what stored messages tell of, `lost` what requests did that
failed before they were answered; `EffectsRecorded` says that the rest belongs to chats at work.
`forgotten` are the questions whose answer may not be found: an entry expired or was deleted, Redis or
the chat failed, or the question was asked again while a chat was still at work on it. All others have one chat at work at most, and the effects of one plan
(`ActedOnce`). `settled` are the documents whose last change has been followed up.

### Seed and Board

`SeedScript` groups statements that only store rows under unique keys, and separates a look from the
creation that follows it. Keys 1 to 3 are the tasks T-101 to T-103 of the script. `Seed` runs any
script whose statements are in the order `InOrder` asks for (a row looked for before it is stored, the
project before its sequence, the tasks before their rows), which TLC finds to be so of the one in
`SeedScript`. `Board` follows
react-query's rules (an invalidated fetch is dropped, equal data is the same object) as external.

## 4. Runs

A run has several scenarios, chosen in its initial states: modules that do not interact are checked
side by side, and a scenario says which inputs are worth combining.

| Run | Scenarios and instance | Question and answer |
|---|---|---|
| `approvals` | *approvals*: a plain user, a team lead, a super admin who is a lead too; one team, any initial membership, edited at any time; an expense by the user and a regularization by the admin; two executions of `actOnApproval`. *receipts*: two uploads and two expenses, or one expense and two changes of the policy | Do the tables agree, do only eligible people decide, do effects match, does the engine implement `ApprovalRecord`, has a pending request somebody to decide it unless its requester or its approver has left a team, do receipts agree with expenses? Yes |
| `approvals_completed` | the expense only | Is a completed request never decided again? **No**, see section 7 |
| `notifications` | *quiet*: two emitters of one key, WhatsApp (can be muted) and in-app, one worker that does not die, three attempts. Otherwise two workers, three jobs, of which one to the provider is run again after a stall or a failure, emitters that are lost, status updates that fail | Does a message take a second run that overlaps or one that could not record its send, is an idle event right unless runs have raced, has a closed event nothing left to send, is every delivery of a quiet system handled? Yes |
| `time_entries` | *entries*: one user, budget 5, thresholds 80/100/120, cap 4, two requests that may be lost, three rows, a manual cost, an expense. *figures*, *scopes*: a dashboard asked for while tasks, or teams and members, change | Overrun bounded by one entry per other request; alerts a ladder, complete for every project that is not behind; locked date closed; figures contradict each other only by tasks that changed meanwhile |
| `time_entries_cap` | two requests | Does the cap hold? **No** when two requests of a user overlap |
| `leave` | *leave*: two months, joining in the first (half accrual), accruals 2 and 4, requests of 3 days, two calls, one policy change. *overlap*, *serial*, *addresses*: attendance. *days off*, *in turn*: WFH and holidays | Settled ledger follows the policy; no request beyond what was accrued; a day agrees with itself, and is at the office by the prefix of the address; quotas exceeded only by overlap |
| `leave_overdrawn` | requests of 1 and 3 days, no policy change | Does approved leave stay within what was accrued? **No** |
| `task_dependencies` | *dependencies*: three tasks, two calls, deletions. *reviews*: one month, a person and a lead. *projects*, *rows*: one project, a milestone, two statuses, two workflows. *templates*: two monthly templates, one of which meets a short month, and a weekly one with an end; a tick takes one | Cycles need an overlap of two calls; every call ends; approvals of reviews stand but for a late submission; what is deleted stays, one default at most; a due template is run, at its dates, unless it fails or failing ones fill the ticks |
| `tasks` | *tasks*: two keys, statuses todo and done, only done to todo allowed by the workflow, one occurrence, two calls. *again*, *twins*: the seed script stopped and run again with the API at work, or run twice at once. *board*: two cards, a column others add | Dense keys, one task per occurrence, reopened counter equals the rows, the path breaks only by a stale change or a message; a seed run that ends leaves what it should; a quiet board is current |
| `accounts` | *sessions*, *erasure*, *faults*: two calls over two users, two sessions, two requests. *browser*: two tabs, two logins, two refresh tokens | Tokens bought once, logout final, roles as assigned; an erasure lasts but for calls that read before it; requests settle and tell the truth unless something failed; the browser follows its session |
| `integrations` | *serial*, *overlap*, *faulty*: two WhatsApp payloads. *github*, *github faults*: two deliveries. *documents*, *tools*: two chats, two processes. *tasks*: two tasks, two teams, a milestone, one request and two changes. *comments*: a comment of the lead and one of the admin | Acknowledged means answered; the context is the last task opened unless two messages cross or one is cut short; commits are accounted for; replies tell what ran, stale answers are explained; the list shows what may be opened; mentions are accounted for |
| `whatsapp_check_in` | the command alone | Does "check in" check in? **No** |

### Why the bounds are enough

- *Two executions* everywhere: every hazard listed is a race between two actors (two deciders, two
  emitters, two workers, two requests, two tabs). `approvals` has two targets so that an expense and a
  regularization are decided side by side, `task_dependencies` three tasks so that a cycle longer
  than two exists. The theorems of section 6 lift the bounds for what they cover.
- *Notifications*: three attempts is the code's number in the quiet system; with replicas
  one job to the provider is taken a second time, after a stall or a failure: two runs are what it takes to send
  twice, and the theorems hold of any number. Three jobs are one more than there are deliveries, so
  one is queued twice.
- *TimeEntries*: budget 5 with hours of 3 (and adjustments of 1) crosses the thresholds one by one and
  several at once; costs of one unit reach 80 % and 100 % exactly. `MaxEntries` is read when a request
  begins, so that two requests overlapping may pass it by one.
- *Dashboards*: at most three changes of tasks (a creation, a status, a reassignment or deletion)
  reach every way in which two of the nine statements can disagree about one task.
- *Leave*: two months give a prorated and a full one; one policy change suffices for two loops under
  different policies. Attendance has two days of three minutes and addresses of two bits; two
  punches and a correction meet on one day (*overlap*), or come one by one over two (*serial*).
- *Tasks*: the workflow allows only done to todo, so a task is finished by a message and reopened by
  a change, and a refused transition occurs too. `MaxRows` bounds the rows of a task, `MaxKey` the
  tasks: when the keys are used up a creation stays open.
- *Seed*: twins have at most one statement doubled, since doublings are independent, and end early
  only where a row is in their way, since a stop is the other scenario's; with the API at
  work, which acts twice, the script runs alone, and stops anywhere. Two runs beside the API are too
  many states for the run; `SeedRunsConverge` has them all. *Board*: three writes are a move,
  a change by others and one more.
- *TaskAccess*: one request and two changes let a membership, a team or the looked-up row change
  before or during the lookups, and one of them back; *Receipts*: two expenses are what one attachment needs to be
  pointed to twice.
- *WebSession*: what its property excuses (a late or lost answer, two tabs' refreshes, an expiry)
  happens in one way in a behaviour (`OneIncident`), so that no excuse hides another.
- *Integrations*: one fault per behaviour (`MaxFaults`, `MaxHookFaults`), each payload sent twice at most (`MaxTries`,
  `MaxSends`).
  The threshold of the assistant is 65, above the 64 at which withheld answers are cached.
- *AiChat*: answers expire between chats; for a chat under way, Redis failing has the same effect.
- *Projects*: two statuses and one workflow, or one and two, are what a change of the default and a
  status that a workflow uses need.
- *Templates*: months of three, two and three days and weeks of three; a limit of one, so that one
  failing template fills every tick; one stop and two changes of projects.
- Caps: `MaxAttempts`, `MaxStalls`, `MaxEntries`, `MaxCosts`, `MaxExpenses`, `MaxPolicies`, `Months`,
  `MaxKey`, `LastRun`, `MaxRows`, `MaxTries`, `MaxSends`, `MaxFaults`, `MaxHookFaults`, `MaxRuns`, `MaxLogins`,
  `MaxTokens`, `MaxWrites`, `MaxQuota`, `MaxDay`, `MaxStops`, `MaxChanges`, and `edits`, `moves` and `acts` in the
  MC modules. Of these the first two,
  `Months` and `LastRun` (the template's `endsAt`) are the program's own; the others are bounds of the
  model.

Symmetry is used over interchangeable calls, workers, emitters and requests where no liveness is at
stake (the quiet system of `notifications` has emitters and a worker of its own). Deadlock is checked
in `task_dependencies`, where something can always happen; it is off where the model stops
legitimately: everything decided, nothing left to deliver, bounds used up.

Every property has a mutant of the code in `PROJECT.json` (a dropped check, a forgotten table, a
retry without limit, a swapped order) under which TLC finds it violated.

## 5. Fairness

- `notifications`: in the quiet system an `emitToUser` that began goes on, and the worker keeps taking
  and running jobs. In the code these are awaits in a running process and a BullMQ worker started with
  the module, on one replica restarted unless stopped. `Stall` and `EmitterLost` have no fairness and
  do not happen there.
- `task_dependencies`: the server goes on with calls it accepted. Nothing forces anybody to make one.
- `task_dependencies`, templates: a tick begins when a template is due and goes on (a repeated job every
  minute, whose rows are processed in a loop). Days have no fairness: a calendar may stop anywhere.
- `accounts`: a filed compliance request is queued, and the worker goes on with the job it has taken
  (weak fairness of `Enqueue` and `WorkerStep`). Faults have none; a request on whose way one happened
  is excused by `RequestsSettle`.
- The other modules claim safety only.

With faults, an emitter that stops between creating the event and queueing its jobs leaves
deliveries nobody sends until the key is emitted again, and a process that stops between marking a
delivery SENT and refreshing the event leaves the event PENDING, since the repeated run returns
early. The same holds of a comment whose process stops before the jobs are added: `MentionsAccounted`
says that this is the only way for an event to stay PENDING.

## 6. Proofs

`tlapm` checks the eight `*Proofs` modules. Each theorem holds for all values of the constants that
satisfy the assumptions of the module it is about (`ConstantsAssumption`, `AmountsAssumption`,
`ReceiptsAssumption`, `ReviewsAssumption`, `ProjectsAssumption`, `BoardAssumption`,
`TabsAssumption`, `GithubAssumption`, `WhatsAppAssumption`, `AttendanceAssumption`, `DaysOffAssumption`,
`DashboardsAssumption`, `ChatAssumption`, `ScriptInOrder`), which say no more than that a marker such
as `None` is no user, that amounts are numbers, that the rows of two tables differ, that there is a
largest entry and a longest payload, that rows and requests at work are finitely many, that the
statements of a seed script are in order, and that the assistant's threshold is at least the 0.65 it
defaults to (withheld answers are cached with 0.64, so that with less their replays are COMPLETED);
TLC evaluates them on every run. The theorems about `TaskAccess` have `RequestsAreWishes` as a
hypothesis, which says that the requests are records with the columns of one.

| Theorem | States | Argument |
|---|---|---|
| `ApprovalsProofs!TypeCorrect` | `TypeOK` | step by step |
| `RecordsAlwaysAgree`, `AlwaysDecidedByEligible` | `RecordsAgree`, `DecidedByEligible` | `Inductive`: with `FilingOrder` (what exists at each stage of filing) and `InFlight` (an execution past its checks names an existing request and an entitled actor). Neither is inductive alone: a commit writes what the checks saw |
| `EffectsAlwaysMatch` | `EffectsMatchDecision` | `Effects` adds what an execution read of the expense to what cost rows exist |
| `SettledForever` | `SettledIsFinal` | no execution can open on a decided request, and none open can touch another |
| `AlwaysDecidable` | `Decidable` | `Assigned`: whom the resolver found shares a team with the requester, or is a super admin, for as long as neither has parted from a team |
| `ApprovalsImplementRecord` | `ImplementsRecord` | each action maps to an action of `ApprovalRecord` or a stutter, under `Inductive` |
| `ReceiptsAlwaysAgree` | `ReceiptsAgree` | `ReceiptsInv`: an attachment's key names its entity and a grant its caller had (`Owned`, `Named`); a link tells which expense it is for even where the expense was not told of it (`LinkTellsExpense`); an amount on its way is within a cap that stood since the request began (`Capped`, `FiledWithinCap`) |
| `NotificationsProofs!TypeCorrect` | `TypeOK` | with `Holding` (a job is in one worker's hands) and `Entitled` (a job waiting or running has an attempt left) |
| `ClosedForGood` | `ClosedMeansHandled` | `Existing` and `Computed`: PENDING is written only with the event itself, so a computed SENT or FAILED stays justified however late it is written |
| `SentOnlyIfSent` | `SentWasSent` | `HandedOver` |
| `OneMessageUnlessInDoubt`, `OutcomesAreFinal` | `SentAgainOnlyByRetry`, `HandledIsFinal` | `SInv`: a run counts its job's attempt before it sends (`Carried`, `Counted`); a delivery not in doubt is in one run's hands (`Sole`), which has sent nothing while the row is unhandled (`Unhandled`, `Told`, `Fresh`) |
| `EventFollowsDeliveries` | `EventReflectsDeliveries` | `RInv`: unless runs have raced, one run at most is between its mark and its refresh (`Alone`), and where none is, the event shows the deliveries (`Reflected`) |
| `PayloadsStayAnswered` | `AnsweredOncePerDelivery` | `WhatsAppInv`: a payload that is not acknowledged has had all its deliveries fail or be overtaken, or is in a handler's hands (`Delivered`); the rows a command has stored and those handlers may still store are no more than the deliveries of its payload (`RowsCounted`), and all of these but one have failed or been overtaken; replies taken but not recorded count as sent (`Recorded`); the messages before a handler's place are settled (`PassedMessages`) |
| `ContextStaysWithUser` | `ContextFollowsUser` | `Following`: of a user who has not crossed, one message at most is in hand, and it carries the task he opened last (`Carries`), from the read of the session to its write |
| `TimeEntriesProofs!TypeCorrect` | `TypeOK` | step by step |
| `LadderOfAlerts` | `AlertLadder` | `Ladder`: what a request still has to raise leaves no gap above what is raised; thresholds reached are closed downward |
| `LockHolds` | `LockedDateClosed` | `Opened`: who saw the date locked carries an unlocked entry |
| `OverrunStaysBounded` | `OverrunBounded` | `CInv`: the rows on their way count as stored. A request that passes its check adds one entry to a sum within the cap but for what the others in flight have, so the bound grows with the cardinality of `InFlight` |
| `AlertsCatchUp` | `AlertsComplete` | `AInv`: while a project is not behind, it has one evaluation at most, which has read the costs as they are and has what is missing on its list (`Undisturbed`), or all is raised (`Covered`) |
| `FiguresStayTrue` | `FiguresHold` | `DashboardsInv`: each figure read is the number of a set of tasks, which agrees with what the statement would find now but for the tasks touched since the first figure was read (`FiguresFollow`), so that figures contradict each other by those at most, whatever order they were read in; the baseline of a task is the day it entered its status, as long as a row has told of every change (`StaysFollow`); whoever a lead's request has kept in its scope was seen in his team, and on the project, since it began (`ScopeFollows`) |
| `LeaveProofs!TypeCorrect`, `LedgerSettled` | `TypeOK`, `LedgerFollowsPolicy` | `Settling`: a loop that is not old writes what the policy grants, and while an old one runs nothing counts as settled |
| `GrantsHold` | `WithinGrants` | *leave*, `Granting`: while the policy is the first one, a ledger row is what it grants or absent, so sums only grow, and what a call has found granted is still there. Sums are cardinalities of sets of units (`Total`), so that one is monotone by a lemma on subsets instead of an induction. *days off*, `DInv`: the claims, with those on their way, exceed the quota by less than the handlers (`ClaimsCounted`), a request that is alone has counted all others (`RequestsCounted`), and a claim not late holds the day of its holiday (`ClaimsInTime`) |
| `DaysStayAgreed` | `DayAgrees` | `AInv`: a punch carries its own time, place and judgement from its read to its event (`PunchesReady`), an approved correction lies on its day (`RegsReady`), and a day that is not mixed has one punch at a time, none before what is written (`DaysInTurn`). Addresses agree in their first bits for any number of bits |
| `TaskDependenciesProofs!TypeCorrect`, `CyclesNeedOverlap` | `TypeOK`, `CycleOnlyByOverlap` | `Walked`: the visited tasks are closed up to the stack; a row that leads into a closed set not holding its near end closes no cycle (`ClosedInsert`). No induction over paths: `Acyclic` speaks of sets |
| `ReviewsKeepStanding` | `ReviewsStand` | `ReviewsInv`: a request is about one entry and made by its reviewer or an admin (`About`); a submission that has seen no other write finds the draft it read (`Draft`); the teams a creation compares, read one after the other, are still those of the reviewer and met those of the reviewed, unless the one who differs has moved (`Compared`) |
| `ProjectsStayInOrder` | `ProjectInOrder` | `ProjectsInv`: a request under way was let in and its row is there, or still to be created (`Founded`) by nobody else (`Reserved`); what exists has a project (`Housed`); `AloneDefault` says that there is one default without counting, since a step that makes one clears the others |
| `TasksProofs!TypeCorrect`, `KeysStayDense` | `TypeOK`, `KeysDense` | `Behind`, `Known`, `Targeted`: a snapshot that is behind names a key already taken, so only one that is current commits |
| `GenerationOnce` | `GeneratedOnce` | `Fresh`: a generation commits only from a snapshot no creation has followed, in which the occurrence had not been generated |
| `StaleChangeBreaksPath` | `PathBreaksByStaleChange` | `LInv`: a task that is stored has rows (`Started`) and a key not taken has none (`Unstarted`), so a change appends to rows that end in the status it read, or was stale |
| `ReopenedCountsHold` | `ReopenedCounts` | `RInv`: the counter is the cardinality of the rows that leave a done status; a row is appended and the counter raised in one transaction, from the same value |
| `BoardStaysCurrent` | `QuietBoardIsCurrent` | `BoardInv`: no answer is ahead of the server (`NotAhead`); what has been read and what the cache holds is the server's, unless others wrote meanwhile or a fetch is still to begin (`Current`); a card shown elsewhere than the cache has it is moving, was refused, or was written since the answer (`Underway`, `Displaced`) |
| `CommitsStayAccounted` | `CommitsAccounted` | `GithubInv`: one request holds a delivery taken up (`OneTaker`), has passed over no commit before its place (`Passed`), asks for attribution only with the mapping stored (`MappedFirst`), and stops unfinished only by a fault (`Unfinished`) |
| `SeedRunsConverge` | `SeedConverges` | `SeedInv`: a run that has met no other is alone (`Lonely`); while no two have met, a row without a unique key is there once at most, and a run due to store one has found it or there is none (`StoredOnce`); what a run has passed is there and shows what it stored, unless it has met what takes that away (`Present`, `Shows`); the sequence a run has read is past all keys but the seeded ones unless a task was created beside a run, and is 4 at least once written (`Sequenced`). No induction over the script: each statement adds itself to those passed, and `InOrder` says which come before which |
| `AccountsProofs!TypeCorrect` | `TypeOK` | step by step |
| `SessionsStayEnded`, `ErasuresHold`, `HalvesAreFaults` | `SessionsEnd`, `ErasureHolds`, `HalfDoneOnlyByFault` | `IInv`: what each call holds of the user and the session it read, whatever has happened to both since (`CallSound`, `SessionSound`, `UserSound`), and what stage each request and its job have reached (`RequestSound`, `PreferencesFollow`, `RequestsMove`) |
| `BrowserKeepsSession` | `BrowserFollowsSession` | `WInv`: unless an answer has come late, tokens and refreshes are of the last login (`InTime`); unless anything has come between, one tab at a time refreshes, and the session accepts the stored pair or the one about to replace it (`Intact`); with what a refresh and the enrichment carry (`Exchange`, `Enrichment`) |
| `IntegrationsProofs!TypeCorrect` | `TypeOK` | step by step |
| `TasksStayWithinReach` | `TasksWithinReach` | `Sound`: what a request has looked up was so at a moment since it began |
| `MentionsStayAccounted` | `MentionsAccounted` | `Queued`: only a request that has stored its comment has jobs to add, and it has nothing left to look up, so no other step loses one |
| `RepliesStayTrue` | `RepliesTellWhatRan` | `ChatIInv`: an answer that misses a followed-up change is marked with it, or is in Redis and about to be deleted (`DocumentsFollowed`); an answer kept has the status its confidence gives it again (`AnswersReplayable`); effects are rows, losses and what chats at work have done (`EffectsRecorded`); a question not forgotten has one chat at work, and nothing in Redis, or none and the effects of the answer in Redis (`OneAtWork`); a chat without a plan has run nothing (`NothingRun`) |

Model-checked only, and why:

- Liveness (`QuietEventuallyHandled`, `CallsEnd`, `RequestsSettle`, `TemplatesServed`): out of the
  prover's reach.

Every invariant and every action property the passing runs check is the statement of a theorem. Some theorems state what no run
repeats: `TypeOK` of the modules that have proofs, `SettledIsFinal`,
`SentWasSent`, `HandledIsFinal`.

## 7. What the runs found

1. `approvals_completed`: `actOnApproval` refuses a completed request ("Approval request already
   completed") by a row it read outside its transaction, then updates by id. Two executions that
   both read PENDING both commit; the later one replaces the decision, and an expense rejected that
   way keeps its cost. `RecordsAgree`, `DecidedByEligible`, `SettledIsFinal` hold all the same.
2. `time_entries_cap`: two requests of a user read the same sum, both pass the cap.
   `OverrunBounded` says by how much it can be missed.
3. `leave_overdrawn`: the balance is checked when a request is filed, against approved leave. Two
   requests filed before either is decided both pass, and deciding does not look again.

4. `whatsapp_check_in`: the command "check in" calls the service without address, place and reason,
   which is always refused as a check-in away from the office without a reason; the webhook request
   fails with it.

The other runs pass because their properties name the exceptions, which are findings of their own:

- two overlapping `createDependency` calls can close a cycle (`CycleOnlyByOverlap`);
- a check-in after a check-out or an approved correction reopens the day; a submission read before
  an approval undoes it (`ReviewsStand`); overlapping claims exceed the quota (`WithinGrants`);
- two tabs that refresh at once lose the session, and the enrichment after a login stores the
  login's tokens again, whatever was stored since (`BrowserFollowsSession`);
- a GitHub delivery that failed midway is never taken up again (`CommitsAccounted`); a WhatsApp
  payload that failed midway repeats its commands (`AnsweredOncePerDelivery`);
- a compliance request whose audit row could not be written is FAILED though its work is done, and
  one whose worker stopped stays IN_PROGRESS (`HalfDoneOnlyByFault`, `RequestsSettle`);
- an answer about a document that was deleted stays in a process's memory until it expires;
- a task may be counted as open and as completed, yet be missing from the total (`FiguresHold`).

Seen while reading, without a run of its own:

- A team lead's search in the task list has no effect: `applyTaskVisibilityWhere` replaces the
  `where.OR` the search has set (`tasks.service.ts:1136`). `ListedIffReadable` states it as it is.
- Updates can make two tasks parents of each other (only a task's own id is refused, `:1295`); a
  deleted milestone or parent stays referenced; mentioned users need no access to the task.
- `ExpensePolicy.requireApproval` is never read, and a policy with a cap of 0 removes the category's
  cap (`expenses.service.ts:197`). The filer of an expense may not open what his lead attached to it.
- The web upload helper (`web/src/lib/upload.ts:64`) confirms `presign.s3Key`, but the API answers `key`.
  The USER role has no permission to presign or confirm, although a receipt must be the filer's own
  upload.
- The web client's logout sends no refresh token, is refused by the DTO, and the error is swallowed: the
  session is never revoked. The query cache is not cleared at logout.
- After a refused move the card stays in the wrong column until other data arrive.
- A task created by the API between the seed script's read and write of `nextTaskSequence` leaves the
  sequence behind for good; a rerun takes over tasks users created as T-101 to T-103, resets a
  template's `nextRunAt`, and does not restore a deleted project or team.
- Holidays without a location are not protected by their unique key.
- Nobody can leave a project; dashboards count deleted and inactive members for a lead.
- A status can be deleted after the tasks that have it were counted and before one takes it;
  adjustments of time entries have no lower bound; a leave request that spans new year counts in full
  in both years; a monthly template on the 31st
  moves to the month after a shorter one and keeps that day (`TemplatesServed` excuses it).

## 8. What is not modelled, and why

- *Inside modelled components*: reports and summaries other than the dashboards' counts (they only
  read); validation of single values (currencies, selfies, coordinates, lengths); text of
  notifications; per-user leave overrides, leave types and team conflict warnings; chunks, embeddings and ranking of
  documents; expiry of presigned addresses.
- *Stateless*: health checks, request plumbing, and the data of `rbac.seed.ts`, of which `Seed` keeps
  three classes of permissions.
- *Request-by-request storage of one row*: notification preferences (a nondeterministic choice of
  `Notifications`), integration settings, the tenant's settings (constants), the audit log.
- *External*: OpenAI, S3, GitHub, the WhatsApp, Slack and email providers, MySQL, Redis and BullMQ,
  react-query (modelled by the guarantees the code relies on).
- *Web pages and the flow scripts*: forms over the API and sequential clients; the session and the
  board, which keep state, are modelled.

## 9. Plan

Done, in this order: approvals with their abstract record; notifications; time and budgets; leave on
top of the record; dependencies; tasks with templates; accounts and compliance; attendance and days
off; the integrations; projects and reviews; the assistant; the seed script, board and browser;
dashboards; task access, mentions and receipts; the ticks and the calendar of templates.

Left:

1. *Leave*: overrides per user, policies whose accrual becomes 0, conflict warnings.
2. *Abstract specifications* of the webhooks (each payload handled, at least once) as refinements.
3. *Proofs*: that a template's task is of a date its calendar names.

## 10. Running the checks

    tlasany Approvals.tla
    tlc -workers 2 -config approvals.cfg MCApprovals
    tlapm ApprovalsProofs.tla

Each run takes between a few seconds and about a minute with two workers, each proof module two to ten
minutes from nothing.
