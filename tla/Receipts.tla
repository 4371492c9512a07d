------------------------------- MODULE Receipts -------------------------------
(***************************************************************************)
(* Uploads and expenses: a presigned address of the object store, the      *)
(* upload, its confirmation as an attachment, and createExpense, which     *)
(* reads the project, the category and its policy, looks the receipt up,   *)
(* inserts the expense and points the attachment back to it, each in a     *)
(* statement of its own.                                                   *)
(*                                                                         *)
(* One project, one task of it whose readers stay the same (TaskAccess has *)
(* them change), one category; the approval that follows is in Approvals,  *)
(* the request code in Leave.  The tenant's currency never changes.        *)
(***************************************************************************)
EXTENDS Naturals, FiniteSets

CONSTANTS
    User, Team, Call,
    MainRole,              \* [User -> {"SUPER_ADMIN", "TEAM_LEAD", "USER"}]
    TaskReader,            \* who may open, and so change, the task
    ProjectReader,         \* members, for leads, and assignees, for end users
    Expense, Attachment,   \* ids of rows
    Moment, Amount, Cap,   \* milliseconds, amounts of money and caps
    None

ASSUME ReceiptsAssumption ==
    /\ MainRole \in [User -> {"SUPER_ADMIN", "TEAM_LEAD", "USER"}]
    /\ None \notin User \cup Attachment

VARIABLES
    open,         \* the project is not deleted
    teams,        \* the teams of a user
    category,     \* [exists, cap]; cap None is NULL
    policy,       \* ExpensePolicy.categoryCap; None when NULL or without a policy
    now,          \* Date.now()
    granted,      \* presigned addresses: [by, key]
    object,       \* who has put the object under a key
    attachment,   \* TaskAttachment rows
    expense,      \* Expense rows
    call,         \* requests
    linked,       \* history: expenses whose receipt was pointed back to them
    stopped       \* history: expenses between whose insertion and link a process stopped

receiptVars == <<open, teams, category, policy, now, granted, object, attachment, expense, call, linked, stopped>>
org == <<open, teams, category, policy, now>>
store == <<granted, object>>
history == <<linked, stopped>>

IsAdmin(u) == MainRole[u] = "SUPER_ADMIN"
IsLead(u) == MainRole[u] = "TEAM_LEAD"

\* `${entityType}/${entityId ?? projectId}/${Date.now()}-${name}`, for one name.
Key == [kind: {"TASK", "EXPENSE"}, entity: Expense \cup {None}, at: Moment]

NoAttachment == [exists |-> FALSE]
NoExpense == [exists |-> FALSE]
NoCall == [pc |-> "none"]

\* A request of createExpense up to its insertion, and after it.
Spending == [pc: {"reads", "insert"}, by: User, amount: Amount, receipt: Attachment \cup {None},
           todo: SUBSET {"project", "category", "policy"}, cap: Cap \cup {None},
           had: SUBSET (Cap \cup {None})]
Linking == [pc: {"link"}, expense: Expense, receipt: Attachment]
Confirming == [pc: {"confirm"}, by: User, key: Key]
CallRecord == {NoCall} \cup Spending \cup Linking \cup Confirming

AttachmentRow ==
    {NoAttachment} \cup [exists: {TRUE}, uploader: User, key: Key, entity: Expense \cup {None}]
ExpenseRow ==
    {NoExpense} \cup [exists: {TRUE}, owner: User, amount: Amount, receipt: Attachment \cup {None},
                      had: SUBSET (Cap \cup {None})]

ReceiptsTypeOK ==
    /\ open \in BOOLEAN
    /\ teams \in [User -> SUBSET Team]
    /\ category \in [exists: BOOLEAN, cap: Cap \cup {None}]
    /\ policy \in Cap \cup {None}
    /\ now \in Moment
    /\ granted \subseteq [by: User, key: Key] /\ IsFiniteSet(granted)
    /\ object \in [Key -> User \cup {None}]
    /\ attachment \in [Attachment -> AttachmentRow]
    /\ expense \in [Expense -> ExpenseRow]
    /\ call \in [Call -> CallRecord]
    /\ linked \subseteq Expense /\ stopped \subseteq Expense

ReceiptsInit ==
    /\ open = TRUE
    /\ teams \in [User -> SUBSET Team]
    /\ category = [exists |-> FALSE, cap |-> None]
    /\ policy = None
    /\ now \in Moment /\ \A m \in Moment : now <= m
    /\ granted = {}
    /\ object = [k \in Key |-> None]
    /\ attachment = [a \in Attachment |-> NoAttachment]
    /\ expense = [e \in Expense |-> NoExpense]
    /\ call = [c \in Call |-> NoCall]
    /\ linked = {} /\ stopped = {}

-----------------------------------------------------------------------------
\* Access

\* hasTeamOverlap
Overlap(u, v) == teams[u] \cap teams[v] # {}

MayReadProject(u) == open /\ (IsAdmin(u) \/ u \in ProjectReader)

\* resolveAttachmentContext
InScope(u, kind, e) ==
    IF kind = "TASK" THEN u \in TaskReader
    ELSE /\ MayReadProject(u)
         /\ e # None => /\ expense[e].exists
                        /\ IsAdmin(u) \/ expense[e].owner = u \/ Overlap(u, expense[e].owner)

\* getAttachment
MayOpen(u, a) ==
    IF attachment[a].key.kind = "TASK" THEN u \in TaskReader
    ELSE \/ IsAdmin(u) \/ attachment[a].uploader = u
         \/ IsLead(u) /\ Overlap(u, attachment[a].uploader)

\* getExpenseById
MayOpenExpense(u, e) ==
    \/ IsAdmin(u) \/ expense[e].owner = u
    \/ IsLead(u) /\ Overlap(u, expense[e].owner)

\* listExpenses, asked for the expenses of one user or of all: an end user is
\* asked for his own, whoever he has named.
ListedExpenses(u, of) ==
    {e \in Expense :
       /\ expense[e].exists
       /\ LET owner == expense[e].owner IN
          CASE MainRole[u] = "USER" -> owner = u
            [] IsLead(u) -> of \in {None, owner} /\ (Overlap(u, owner) \/ owner = u)
            [] OTHER -> of \in {None, owner}}

-----------------------------------------------------------------------------
\* The organisation

DeleteProject ==
    /\ open /\ open' = FALSE
    /\ UNCHANGED <<teams, category, policy, now, store, attachment, expense, call, history>>

ChangeTeam(u, x) ==
    /\ teams' = [teams EXCEPT ![u] = IF x \in @ THEN @ \ {x} ELSE @ \cup {x}]
    /\ UNCHANGED <<open, category, policy, now, store, attachment, expense, call, history>>

Tick ==
    /\ now + 1 \in Moment /\ now' = now + 1
    /\ UNCHANGED <<open, teams, category, policy, store, attachment, expense, call, history>>

\* The code of a category is unique, and nothing changes or deletes one.
CreateCategory(u, cap) ==
    /\ MainRole[u] # "USER" /\ ~category.exists
    /\ category' = [exists |-> TRUE, cap |-> cap]
    /\ UNCHANGED <<open, teams, policy, now, store, attachment, expense, call, history>>

\* An upsert that writes NULL when no cap is given.
CreatePolicy(u, cap) ==
    /\ MainRole[u] # "USER" /\ category.exists
    /\ policy' = cap
    /\ call' = [c \in Call |-> IF call[c].pc = "reads" THEN [call[c] EXCEPT !.had = @ \cup {cap}] ELSE call[c]]
    /\ UNCHANGED <<open, teams, category, now, store, attachment, expense, history>>

-----------------------------------------------------------------------------
\* Uploads

Presign(u, kind, e) ==
    /\ InScope(u, kind, e)
    /\ granted' = granted \cup {[by |-> u, key |-> [kind |-> kind, entity |-> e, at |-> now]]}
    /\ UNCHANGED <<org, object, attachment, expense, call, history>>

\* The object store takes any number of uploads under a key.
Put(g) ==
    /\ object' = [object EXCEPT ![g.key] = g.by]
    /\ UNCHANGED <<org, granted, attachment, expense, call, history>>

\* The client confirms what it has uploaded.
BeginConfirm(c, g) ==
    /\ call[c].pc = "none" /\ object[g.key] # None
    /\ InScope(g.by, g.key.kind, g.key.entity)
    /\ call' = [call EXCEPT ![c] = [pc |-> "confirm", by |-> g.by, key |-> g.key]]
    /\ UNCHANGED <<org, store, attachment, expense, history>>

Taken(key) == \E a \in Attachment : attachment[a].exists /\ attachment[a].key = key

NewRow(rows) == CHOOSE r \in DOMAIN rows : ~rows[r].exists

\* A key that is confirmed already is a conflict.
InsertAttachment(c) ==
    /\ call[c].pc = "confirm"
    /\ call' = [call EXCEPT ![c] = NoCall]
    /\ IF Taken(call[c].key) THEN UNCHANGED attachment
       ELSE /\ \E a \in Attachment : ~attachment[a].exists
            /\ attachment' = [attachment EXCEPT ![NewRow(attachment)] =
                  [exists |-> TRUE, uploader |-> call[c].by, key |-> call[c].key,
                   entity |-> call[c].key.entity]]
    /\ UNCHANGED <<org, store, expense, history>>

-----------------------------------------------------------------------------
\* createExpense

BeginExpense(c, u, amount, receipt) ==
    /\ call[c].pc = "none"
    /\ call' = [call EXCEPT ![c] =
          [pc |-> "reads", by |-> u, amount |-> amount, receipt |-> receipt,
           todo |-> {"project", "category", "policy"}, cap |-> None, had |-> {policy}]]
    /\ UNCHANGED <<org, store, attachment, expense, history>>

Refused(c) == call' = [call EXCEPT ![c] = NoCall]

ReadProject(c) ==
    /\ call[c].pc = "reads" /\ "project" \in call[c].todo
    /\ IF open THEN call' = [call EXCEPT ![c].todo = @ \ {"project"}] ELSE Refused(c)
    /\ UNCHANGED <<org, store, attachment, expense, history>>

ReadCategory(c) ==
    /\ call[c].pc = "reads" /\ "category" \in call[c].todo
    /\ IF category.exists THEN call' = [call EXCEPT ![c].todo = @ \ {"category"}] ELSE Refused(c)
    /\ UNCHANGED <<org, store, attachment, expense, history>>

ReadPolicy(c) ==
    /\ call[c].pc = "reads" /\ "policy" \in call[c].todo
    /\ call' = [call EXCEPT ![c].todo = @ \ {"policy"}, ![c].cap = policy]
    /\ UNCHANGED <<org, store, attachment, expense, history>>

\* policy?.categoryCap ?? category.capAmount ?? 0; a cap of 0 is none.
Within(amount, cap) ==
    LET first == IF cap # None THEN cap ELSE IF category.cap # None THEN category.cap ELSE 0
    IN first > 0 => amount <= first

\* Mutant: the kind of the attachment is not looked at.
ReceiptOfAnyKind(u, a) == attachment[a].exists /\ attachment[a].uploader = u

ReceiptOf(u, a) ==
    attachment[a].exists /\ attachment[a].uploader = u /\ attachment[a].key.kind = "EXPENSE"

\* The cap is checked, then the receipt is read.
Check(c) ==
    /\ call[c].pc = "reads" /\ call[c].todo = {}
    /\ IF /\ Within(call[c].amount, call[c].cap)
          /\ call[c].receipt # None => ReceiptOf(call[c].by, call[c].receipt)
       THEN call' = [call EXCEPT ![c].pc = "insert"] ELSE Refused(c)
    /\ UNCHANGED <<org, store, attachment, expense, history>>

InsertExpense(c) ==
    /\ call[c].pc = "insert" /\ \E e \in Expense : ~expense[e].exists
    /\ LET e == NewRow(expense) IN
       /\ expense' = [expense EXCEPT ![e] =
             [exists |-> TRUE, owner |-> call[c].by, amount |-> call[c].amount,
              receipt |-> call[c].receipt, had |-> call[c].had]]
       /\ call' = [call EXCEPT ![c] = IF @.receipt = None THEN NoCall
                                      ELSE [pc |-> "link", expense |-> e, receipt |-> @.receipt]]
    /\ UNCHANGED <<org, store, attachment, history>>

\* Whatever the attachment belonged to before, as another expense may name it too.
LinkReceipt(c) ==
    /\ call[c].pc = "link"
    /\ attachment' = [attachment EXCEPT ![call[c].receipt].entity = call[c].expense]
    /\ linked' = linked \cup {call[c].expense}
    /\ Refused(c)
    /\ UNCHANGED <<org, store, expense, stopped>>

\* The request code is taken, a statement fails or the process stops.
LoseCall(c) ==
    /\ call[c].pc \in {"insert", "link"}
    /\ stopped' = IF call[c].pc = "link" THEN stopped \cup {call[c].expense} ELSE stopped
    /\ Refused(c)
    /\ UNCHANGED <<org, store, attachment, expense, linked>>

-----------------------------------------------------------------------------
OrganiseExpenses ==
    \/ DeleteProject \/ Tick
    \/ \E u \in User : \/ \E x \in Team : ChangeTeam(u, x)
                       \/ \E cap \in Cap \cup {None} : CreateCategory(u, cap) \/ CreatePolicy(u, cap)

Upload ==
    \/ \E u \in User : Presign(u, "TASK", None) \/ \E e \in Expense \cup {None} : Presign(u, "EXPENSE", e)
    \/ \E g \in granted : Put(g) \/ \E c \in Call : BeginConfirm(c, g)
    \/ \E c \in Call : InsertAttachment(c)

CreateExpense(c) ==
    \/ \E u \in User, amount \in Amount, receipt \in Attachment \cup {None} : BeginExpense(c, u, amount, receipt)
    \/ ReadProject(c) \/ ReadCategory(c) \/ ReadPolicy(c) \/ Check(c)
    \/ InsertExpense(c) \/ LinkReceipt(c) \/ LoseCall(c)

ReceiptsNext == OrganiseExpenses \/ Upload \/ \E c \in Call : CreateExpense(c)

ReceiptsSpec == ReceiptsInit /\ [][ReceiptsNext]_receiptVars

-----------------------------------------------------------------------------
\* Properties

Filed == {e \in Expense : expense[e].exists}
FiledWith(a) == {e \in Filed : expense[e].receipt = a}

\* Whoever may open an expense may open its receipt (getExpenseById,
\* getAttachment), whatever happens to the teams.
ReceiptOpensWithExpense ==
    \A u \in User, e \in Filed :
        MayOpenExpense(u, e) /\ expense[e].receipt # None => MayOpen(u, expense[e].receipt)

\* The list and the detail of expenses agree (listExpenses, getExpenseById).
ExpensesListed ==
    \A u \in User, of \in User \cup {None} :
        ListedExpenses(u, of) =
            {e \in Filed : MayOpenExpense(u, e) /\ (MainRole[u] = "USER" \/ of \in {None, expense[e].owner})}

\* An attachment that is a receipt belongs to one of the expenses that name it,
\* whatever it was uploaded for, once createExpense has ended; where no expense
\* of it got so far, a process has stopped on the way.
LinkTellsExpense ==
    \A a \in Attachment :
        /\ FiledWith(a) \cap linked # {} => attachment[a].entity \in FiledWith(a)
        /\ \A e \in FiledWith(a) \ (linked \cup stopped) : \E c \in Call : call[c].pc = "link" /\ call[c].expense = e

\* An expense is within a cap that was in force at some time since its request
\* began (createExpense).
FiledWithinCap == \A e \in Filed : \E cap \in expense[e].had : Within(expense[e].amount, cap)

\* The object of an attachment is its uploader's, unless two users were given the
\* address in the same millisecond for the same place and name
\* (createPresignedUrl).
ObjectOfUploader ==
    \A a \in Attachment :
        attachment[a].exists /\ object[attachment[a].key] # attachment[a].uploader =>
            Cardinality({g \in granted : g.key = attachment[a].key}) > 1

\* An expense, its receipt and the attachment agree, and the amount is within a
\* cap (createExpense, getExpenseById, getAttachment).
ReceiptsAgree == ReceiptOpensWithExpense /\ ExpensesListed /\ LinkTellsExpense /\ FiledWithinCap /\ ObjectOfUploader
=============================================================================
