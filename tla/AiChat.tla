-------------------------------- MODULE AiChat --------------------------------
(***************************************************************************)
(* The assistant: a question is answered from the cache or by a plan of an *)
(* external model, whose tools run on the user's behalf and whose answer   *)
(* may cite documents; administrators add and delete documents meanwhile.  *)
(*                                                                         *)
(* Answers are kept for a while twice, in the process that gave them and   *)
(* in Redis.  A change of the documents drops the tenant's answers from    *)
(* Redis; it also clears the memory of a cache, but of the one that the    *)
(* documents module has for itself and no chat writes to.  Requests to     *)
(* Redis may fail and nobody is told.                                      *)
(***************************************************************************)
EXTENDS Naturals, Sequences, FiniteSets

CONSTANTS
    Process,    \* processes of the API
    Question,   \* cache keys: a prompt in a conversation of a user
    Blocked,    \* those whose prompt looks like an injection
    Document,
    Plan,       \* what the external model may plan
    Conf,       \* its confidence in an answer, in percent
    Threshold,  \* AI_CONFIDENCE_THRESHOLD, in percent
    Role, Granted,  \* the user's role and permissions
    Chats, Editors, \* chats and document changes under way at once
    MaxEffects, \* bound on the effects of one question
    Nil         \* no process, question, document, source or status

VARIABLES
    document,   \* each document: "absent", "there" or "deleted"
    memory,     \* the answers each process remembers
    shared,     \* those in Redis
    chat,       \* the chats
    edit,       \* the document changes
    rows,       \* the AiToolCall rows of each question that report an effect, but
                \* for those of messages marked cacheHit
    effects,    \* how often each question had an effect (history)
    lost,       \* the effects of requests that failed before they were answered (history)
    forgotten,  \* the questions whose answer may not be found (history)
    settled     \* the documents whose last change has been followed up (history)

chatVars == <<document, memory, shared, chat, edit, rows, effects, lost, forgotten, settled>>

NoPlan == [tools |-> <<>>, rag |-> FALSE, confidence |-> 0]
NoAnswer == [confidence |-> 0, ran |-> <<>>, rag |-> FALSE, read |-> {}, over |-> {},
             status |-> Nil]
NoChat == [pc |-> "idle", on |-> Nil, asks |-> Nil, plan |-> NoPlan, answer |-> NoAnswer,
           hit |-> Nil, status |-> Nil, knew |-> {}]
NoEdit == [pc |-> "idle", doc |-> Nil, listed |-> {}, clears |-> {}]

There == {d \in Document : document[d] = "there"}
Free(c) == [chat EXCEPT ![c] = NoChat]

-----------------------------------------------------------------------------
(* The tools.                                                              *)

\* The registered tools, with the permission each asserts for the user's own data.
Needs == [
    get_user_leave_balance |-> "leave_balance:me:read", apply_leave |-> "leave_requests:create",
    apply_wfh |-> "wfh_requests:create", list_my_tasks |-> "tasks:read",
    update_task_status |-> "tasks:status:update", log_task_hours |-> "time_entries:create",
    get_user_performance |-> "time_entries:read", get_project_burn |-> "projects:burn:read",
    list_pending_approvals |-> "approvals:pending:read",
    who_is_on_leave_today |-> "leave_requests:read", file_expense |-> "expenses:create",
    check_in |-> "attendance:check_in", check_out |-> "attendance:check_out"]

Writes == {"apply_leave", "apply_wfh", "update_task_status", "log_task_hours",
           "file_expense", "check_in", "check_out"}
Tool == DOMAIN Needs \cup {"unknown"}

\* The calls of a chat that had an effect.
Acted(ran) == {i \in DOMAIN ran : ran[i].success /\ ran[i].tool \in Writes}
Effects(ran) == Cardinality(Acted(ran))

\* May the tool begin?  Its service may still refuse.
MayRun(tool) ==
    /\ tool \in DOMAIN Needs
    /\ Needs[tool] \in Granted
    /\ tool = "list_pending_approvals" => Role # "USER"

PlanRecord == [tools: Seq(Tool), rag: BOOLEAN, confidence: 0..100]
AnswerRecord == [confidence: 0..100, ran: Seq([tool: Tool, success: BOOLEAN]),
                 rag: BOOLEAN, read: SUBSET Document,
                 over: SUBSET Document,   \* the changes it may have missed (history)
                 status: {Nil, "COMPLETED", "FALLBACK"}]     \* (history)
ChatRecord == [pc: {"idle", "memory", "shared", "plan", "tools", "rows", "answer", "persist",
                    "remember", "share", "replied"},
               on: Process \cup {Nil}, asks: Question \cup {Nil}, plan: PlanRecord,
               answer: AnswerRecord, hit: {Nil, "memory", "shared", "none"},
               status: {Nil, "COMPLETED", "FALLBACK"},
               knew: SUBSET Document]   \* changes followed up when it began (history)
EditRecord == [pc: {"idle", "delete", "keys", "del"}, doc: Document \cup {Nil},
               listed: SUBSET Question, clears: SUBSET Document]   \* (history)

\* The provider's confidences are cut to percentages; the threshold is above what
\* a withheld answer may have, as the one the code defaults to.
ChatAssumption ==
    /\ IsFiniteSet(Chats) /\ MaxEffects \in Nat
    /\ Plan \subseteq PlanRecord /\ Conf \subseteq 0..100 /\ Threshold \in 65..100
ASSUME ChatAssumption

ChatTypeOK ==
    /\ document \in [Document -> {"absent", "there", "deleted"}]
    /\ memory \in [Process -> [Question -> AnswerRecord]]
    /\ shared \in [Question -> AnswerRecord]
    /\ chat \in [Chats -> ChatRecord]
    /\ \A c \in Chats : chat[c].pc # "idle" => chat[c].on \in Process /\ chat[c].asks \in Question
    /\ edit \in [Editors -> EditRecord]
    /\ \A e \in Editors : edit[e].pc = "delete" => edit[e].doc \in Document
    /\ rows \in [Question -> Nat] /\ lost \in [Question -> Nat]
    /\ effects \in [Question -> 0..MaxEffects]
    /\ forgotten \subseteq Question /\ settled \subseteq Document

-----------------------------------------------------------------------------
(* Asking, and looking for an answer in the cache.                         *)

\* The question is stored with its conversation.
AskQuestion(c) ==
    /\ chat[c].pc = "idle"
    /\ "ai:chat" \in Granted
    /\ \E p \in Process, q \in Question :
         chat' = [chat EXCEPT ![c] = [NoChat EXCEPT !.pc = "memory", !.on = p, !.asks = q,
                                                  !.knew = settled]]
    /\ UNCHANGED <<document, memory, shared, edit, rows, effects, lost, forgotten, settled>>

\* The chats that work an answer to the question out.
Working == {"plan", "tools", "rows", "answer", "persist", "remember", "share"}
WorkingOn(q) == {c \in Chats : chat[c].asks = q /\ chat[c].pc \in Working}

\* A cached answer is stored again, with the status its confidence gives it.
Replayed(k, answer, from) ==
    [k EXCEPT !.pc = "replied", !.answer = answer, !.hit = from,
              !.status = IF answer.confidence >= Threshold THEN "COMPLETED" ELSE "FALLBACK"]

GetMemory(c) ==
    /\ chat[c].pc = "memory"
    /\ LET kept == memory[chat[c].on][chat[c].asks]
       IN chat' = [chat EXCEPT ![c] =
                     IF kept # NoAnswer THEN Replayed(@, kept, "memory")
                     ELSE [@ EXCEPT !.pc = "shared"]]
    /\ UNCHANGED <<document, memory, shared, edit, rows, effects, lost, forgotten, settled>>

\* Redis has it, or has it not, or fails; memory is not filled from Redis.
GetShared(c) ==
    /\ chat[c].pc = "shared"
    /\ LET q == chat[c].asks
       IN \/ /\ shared[q] # NoAnswer
             /\ chat' = [chat EXCEPT ![c] = Replayed(@, shared[q], "shared")]
             /\ UNCHANGED forgotten
          \/ /\ chat' = [chat EXCEPT ![c] = [@ EXCEPT !.pc = "plan"]]
             /\ forgotten' = IF shared[q] # NoAnswer \/ WorkingOn(q) # {}
                             THEN forgotten \cup {q} ELSE forgotten
    /\ UNCHANGED <<document, memory, shared, edit, rows, effects, lost, settled>>

-----------------------------------------------------------------------------
(* Working an answer out.                                                  *)

\* The plan of a blocked prompt calls no tool.
GeneratePlan(c) ==
    /\ chat[c].pc = "plan"
    /\ \E plan \in IF chat[c].asks \in Blocked THEN {[NoPlan EXCEPT !.confidence = 30]} ELSE Plan :
         chat' = [chat EXCEPT ![c] = [@ EXCEPT !.pc = "tools", !.plan = plan, !.answer.rag = plan.rag]]
    /\ UNCHANGED <<document, memory, shared, edit, rows, effects, lost, forgotten, settled>>

\* The next tool; one that is unknown, not allowed or fails leaves no effect.
ExecuteTool(c) ==
    /\ chat[c].pc = "tools"
    /\ chat[c].plan.tools # <<>>
    /\ LET tool == Head(chat[c].plan.tools)
           q == chat[c].asks
       IN \E done \in BOOLEAN :
            /\ done => MayRun(tool)
            /\ done /\ tool \in Writes => effects[q] < MaxEffects
            /\ chat' = [chat EXCEPT ![c] =
                  [chat[c] EXCEPT !.plan.tools = Tail(@),
                                  !.answer.ran = Append(@, [tool |-> tool, success |-> done])]]
            /\ effects' = IF done /\ tool \in Writes THEN [effects EXCEPT ![q] = @ + 1] ELSE effects
    /\ UNCHANGED <<document, memory, shared, edit, rows, lost, forgotten, settled>>

\* The search: the chunks that match, by id, ...
SearchIds(c) ==
    /\ chat[c].pc = "tools"
    /\ chat[c].plan.tools = <<>>
    /\ chat' = [chat EXCEPT ![c] =
          [@ EXCEPT !.pc = IF chat[c].plan.rag THEN "rows" ELSE "answer",
                    !.answer.read = IF chat[c].plan.rag THEN There ELSE {}]]
    /\ UNCHANGED <<document, memory, shared, edit, rows, effects, lost, forgotten, settled>>

\* ... then the chunks themselves, their document deleted or not; when none
\* matched, those that contain the query.
SearchRows(c) ==
    /\ chat[c].pc = "rows"
    /\ chat' = [chat EXCEPT ![c] =
          [chat[c] EXCEPT !.pc = "answer", !.answer.read = IF @ = {} THEN There ELSE @]]
    /\ UNCHANGED <<document, memory, shared, edit, rows, effects, lost, forgotten, settled>>

\* The answer is withheld when the confidence is low, a number in it comes from
\* no tool, or a tool did not succeed; what the tools did stays done.
Withheld(k, confidence, numericsSafe) ==
    \/ confidence < Threshold
    \/ ~numericsSafe
    \/ \E i \in DOMAIN k.answer.ran : ~k.answer.ran[i].success

\* The cache keeps no status: a withheld answer must stay below the threshold.
\* Mutant: its confidence is kept as it is.
NotCapped(confidence) == confidence
Capped(confidence) == IF confidence > 64 THEN 64 ELSE confidence

Concluded(k, confidence, numericsSafe) ==
    LET withheld == Withheld(k, confidence, numericsSafe)
        status == IF withheld THEN "FALLBACK" ELSE "COMPLETED"
    IN [k EXCEPT !.pc = "persist", !.status = status, !.answer.status = status,
                 !.answer.confidence = IF withheld THEN Capped(confidence) ELSE confidence]

GenerateAnswer(c) ==
    /\ chat[c].pc = "answer"
    /\ \E conf \in Conf, safe \in BOOLEAN :
         LET least == IF conf < chat[c].plan.confidence THEN conf ELSE chat[c].plan.confidence
         IN chat' = [chat EXCEPT ![c] = Concluded(@, least, safe)]
    /\ UNCHANGED <<document, memory, shared, edit, rows, effects, lost, forgotten, settled>>

\* The message with its prompt log and a row for each tool call.
PersistAssistantMessage(c) ==
    /\ chat[c].pc = "persist"
    /\ chat' = [chat EXCEPT ![c] = [@ EXCEPT !.pc = "remember"]]
    /\ rows' = [rows EXCEPT ![chat[c].asks] = @ + Effects(chat[c].answer.ran)]
    /\ UNCHANGED <<document, memory, shared, edit, effects, lost, forgotten, settled>>

SetMemory(c) ==
    /\ chat[c].pc = "remember"
    /\ memory' = [memory EXCEPT ![chat[c].on][chat[c].asks] = chat[c].answer]
    /\ chat' = [chat EXCEPT ![c] = [@ EXCEPT !.pc = "share"]]
    /\ UNCHANGED <<document, shared, edit, rows, effects, lost, forgotten, settled>>

SetShared(c) ==
    /\ chat[c].pc = "share"
    /\ \/ /\ shared' = [shared EXCEPT ![chat[c].asks] = chat[c].answer]
          /\ UNCHANGED forgotten
       \/ /\ forgotten' = forgotten \cup {chat[c].asks}
          /\ UNCHANGED shared
    /\ chat' = [chat EXCEPT ![c] = [@ EXCEPT !.pc = "replied", !.hit = "none"]]
    /\ UNCHANGED <<document, memory, edit, rows, effects, lost, settled>>

\* The caller has the reply.
GiveReply(c) ==
    /\ chat[c].pc = "replied"
    /\ chat' = Free(c)
    /\ UNCHANGED <<document, memory, shared, edit, rows, effects, lost, forgotten, settled>>

\* A statement or the search fails: the request fails, whatever its tools did.
LoseChat(c) ==
    /\ chat[c].pc \in {"plan", "tools", "rows", "persist"}
    /\ chat' = Free(c)
    /\ lost' = [lost EXCEPT ![chat[c].asks] = @ + Effects(chat[c].answer.ran)]
    /\ forgotten' = forgotten \cup {chat[c].asks}
    /\ UNCHANGED <<document, memory, shared, edit, rows, effects, settled>>

\* An entry is older than AI_CACHE_TTL_SEC.
Expire ==
    /\ \E q \in Question :
         /\ forgotten' = forgotten \cup {q}
         /\ \/ /\ shared[q] # NoAnswer
               /\ shared' = [shared EXCEPT ![q] = NoAnswer]
               /\ UNCHANGED memory
            \/ \E p \in Process :
                 /\ memory[p][q] # NoAnswer
                 /\ memory' = [memory EXCEPT ![p][q] = NoAnswer]
                 /\ UNCHANGED shared
    /\ UNCHANGED <<document, chat, edit, rows, effects, lost, settled>>

-----------------------------------------------------------------------------
(* Changing the documents.                                                 *)

\* A document d changes: a chat that has searched and not answered yet is overtaken.
Changed(d, to) ==
    /\ document' = [document EXCEPT ![d] = to]
    /\ settled' = settled \ {d}
    /\ chat' = [c \in Chats |->
                  IF chat[c].pc \in {"rows", "answer", "persist", "remember", "share"}
                  THEN [chat[c] EXCEPT !.answer.over = @ \cup {d}, !.knew = @ \ {d}]
                  ELSE [chat[c] EXCEPT !.knew = @ \ {d}]]

CreateDocument(e) ==
    /\ edit[e].pc = "idle"
    /\ \E d \in Document :
         /\ document[d] = "absent"
         /\ Changed(d, "there")
         /\ edit' = [o \in Editors |-> IF o = e THEN [NoEdit EXCEPT !.pc = "keys", !.doc = d]
                                   ELSE [edit[o] EXCEPT !.clears = @ \ {d}]]
    /\ UNCHANGED <<memory, shared, rows, effects, lost, forgotten>>

FindDocument(e) ==
    /\ edit[e].pc = "idle"
    /\ \E d \in There : edit' = [edit EXCEPT ![e] = [NoEdit EXCEPT !.pc = "delete", !.doc = d]]
    /\ UNCHANGED <<document, memory, shared, chat, rows, effects, lost, forgotten, settled>>

DeleteDocument(e) ==
    /\ edit[e].pc = "delete"
    /\ Changed(edit[e].doc, "deleted")
    /\ edit' = [o \in Editors |-> IF o = e THEN [edit[e] EXCEPT !.pc = "keys"]
                              ELSE [edit[o] EXCEPT !.clears = @ \ {edit[e].doc}]]
    /\ UNCHANGED <<memory, shared, rows, effects, lost, forgotten>>

\* The keys with the prefix of the tenant.
Cached == {q \in Question : shared[q] # NoAnswer}

\* invalidateTenant: the answers in Redis are listed, then deleted.
ListKeys(e) ==
    /\ edit[e].pc = "keys"
    /\ \/ edit' = [edit EXCEPT ![e] = [@ EXCEPT !.pc = "del", !.clears = Document,
                                                    !.listed = Cached]]
       \/ edit' = [edit EXCEPT ![e] = NoEdit]
    /\ UNCHANGED <<document, memory, shared, chat, rows, effects, lost, forgotten, settled>>

DeleteKeys(e) ==
    /\ edit[e].pc = "del"
    /\ edit' = [edit EXCEPT ![e] = NoEdit]
    /\ \/ /\ shared' = [q \in Question |-> IF q \in edit[e].listed THEN NoAnswer ELSE shared[q]]
          /\ forgotten' = forgotten \cup edit[e].listed
          /\ settled' = settled \cup edit[e].clears
       \/ UNCHANGED <<shared, forgotten, settled>>
    /\ UNCHANGED <<document, memory, chat, rows, effects, lost>>

-----------------------------------------------------------------------------
ChatInit ==
    /\ document \in [Document -> {"absent", "there"}]
    /\ memory = [p \in Process |-> [q \in Question |-> NoAnswer]]
    /\ shared = [q \in Question |-> NoAnswer]
    /\ chat = [c \in Chats |-> NoChat]
    /\ edit = [e \in Editors |-> NoEdit]
    /\ rows = [q \in Question |-> 0]
    /\ effects = [q \in Question |-> 0]
    /\ lost = [q \in Question |-> 0]
    /\ forgotten = {}
    /\ settled = Document

ChatNext ==
    \/ \E c \in Chats :
         \/ AskQuestion(c) \/ GetMemory(c) \/ GetShared(c) \/ GeneratePlan(c) \/ ExecuteTool(c)
         \/ SearchIds(c) \/ SearchRows(c) \/ GenerateAnswer(c) \/ PersistAssistantMessage(c)
         \/ SetMemory(c) \/ SetShared(c) \/ GiveReply(c) \/ LoseChat(c)
    \/ Expire
    \/ \E e \in Editors :
         \/ CreateDocument(e) \/ FindDocument(e) \/ DeleteDocument(e)
         \/ ListKeys(e) \/ DeleteKeys(e)

ChatSpec == ChatInit /\ [][ChatNext]_chatVars

-----------------------------------------------------------------------------
(* Properties.                                                             *)

Stale(answer, d) == answer.rag /\ ((d \in answer.read) # (document[d] = "there"))

\* An answer given for a question asked after a change of the documents had been
\* followed up, and that does not know of it, comes from the memory of the process
\* or from a chat the change had overtaken: never from Redis otherwise
\* (invalidateTenant, and the two instances of its service).
StaleExplained ==
    \A c \in Chats, d \in Document :
      (chat[c].pc = "replied" /\ d \in chat[c].knew /\ Stale(chat[c].answer, d))
        => chat[c].hit = "memory" \/ d \in chat[c].answer.over

\* The effects of the chats at work that no row tells of yet.
Untold(q) ==
    UNION {{c} \X Acted(chat[c].answer.ran) :
             c \in {o \in WorkingOn(q) : chat[o].pc \notin {"remember", "share"}}}

\* What the tools of a question did is in the rows of a message given without
\* the cache, unless its chat is still at work or has failed (persistAssistantMessage).
EffectsRecorded ==
    \A q \in Question : effects[q] = rows[q] + lost[q] + Cardinality(Untold(q))

\* A question whose answer could always be found has had the effects of one plan:
\* those of the answer in Redis, or of the one chat that works it out (chat).
ActedOnce ==
    \A q \in Question \ forgotten :
      \E answer \in {shared[q]} \cup {chat[c].answer : c \in WorkingOn(q)} :
         effects[q] = Effects(answer.ran)

\* A reply is COMPLETED only when all its tools succeeded, and one from the cache
\* has the status of the answer it repeats, though the cache keeps no status (chat).
StatusTellsOutcome ==
    \A c \in Chats : chat[c].pc = "replied" =>
      /\ chat[c].status = chat[c].answer.status
      /\ chat[c].status = "COMPLETED"
           => \A i \in DOMAIN chat[c].answer.ran : chat[c].answer.ran[i].success

\* The rows and the status of a reply tell what its tools did, and a question is
\* acted upon again only when its answer could not be found (chat); a document
\* change that has been followed up is missed only by answers in the memory of a
\* process or of chats it has overtaken (invalidateTenant).
RepliesTellWhatRan ==
    /\ ChatTypeOK /\ StaleExplained
    /\ EffectsRecorded /\ ActedOnce /\ StatusTellsOutcome
=============================================================================
