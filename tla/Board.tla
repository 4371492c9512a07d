-------------------------------- MODULE Board ---------------------------------
(***************************************************************************)
(* The task board in one browser, against the tasks on the server that     *)
(* other users move too.                                                   *)
(*                                                                         *)
(* The board is a copy of a copy: the query cache holds the last answer,   *)
(* and the columns shown are set from it whenever it changes; a card that  *)
(* is dropped moves at once, its request is sent, and the answer makes the *)
(* board fetch again.  The query library gives out the same data object    *)
(* as long as an answer equals the one before, drops the answer of a fetch *)
(* that was invalidated, and starts a new one.                             *)
(***************************************************************************)
EXTENDS Naturals

CONSTANTS
    Cards,      \* tasks of the project
    Columns,    \* task statuses the project has or gets
    First,      \* the ones it has at first
    Ways,       \* transitions of the default workflow
    Moves,      \* requests of the board under way at once
    MaxWrites,  \* bound on changes of a task
    None

ASSUME BoardAssumption == First \subseteq Columns /\ MaxWrites \in Nat

VARIABLES
    status,   \* of each task, on the server
    writes,   \* changes of its row: updatedAt
    columns,  \* the statuses on the server
    fetch,    \* the fetch under way
    data,     \* the answer in the query cache
    shown,    \* the column each card is shown in
    move,     \* the requests of cards that were dropped
    behind,   \* history: others wrote since the last fetch began, or it failed
    refused   \* history: cards whose move failed since the data last changed

boardVars == <<status, writes, columns, fetch, data, shown, move, behind, refused>>

\* An answer of the board's endpoint: a card whose status is not among the
\* columns is on none.
Answer(cols) ==
    [columns |-> cols, writes |-> writes,
     at |-> [t \in Cards |-> IF status[t] \in cols THEN status[t] ELSE None]]

NoData == [columns |-> {}, writes |-> [t \in Cards |-> 0], at |-> [t \in Cards |-> None]]

NoFetch == [pc |-> "none", answer |-> NoData]
Fetching == [pc |-> "statuses", answer |-> NoData]
NoMove == [pc |-> "none", card |-> None, to |-> None]

AnswerRecord ==
    [columns: SUBSET Columns, writes: [Cards -> Nat], at: [Cards -> Columns \cup {None}]]

BoardTypeOK ==
    /\ status \in [Cards -> Columns]
    /\ writes \in [Cards -> Nat]
    /\ columns \subseteq Columns
    /\ fetch \in [pc: {"none", "statuses", "tasks", "answer"}, answer: AnswerRecord]
    /\ data \in AnswerRecord
    /\ shown \in [Cards -> Columns \cup {None}]
    /\ move \in [Moves -> [pc: {"none", "sent", "ok", "failed"}, card: Cards \cup {None},
                           to: Columns \cup {None}]]
    /\ behind \in BOOLEAN
    /\ refused \subseteq Cards

BoardInit ==
    /\ status \in [Cards -> First]
    /\ writes = [t \in Cards |-> 0]
    /\ columns = First
    /\ fetch = Fetching
    /\ data = NoData /\ shown = NoData.at
    /\ move = [m \in Moves |-> NoMove]
    /\ behind = TRUE /\ refused = {}

-----------------------------------------------------------------------------
\* The server

Store(t, s) ==
    /\ writes[t] < MaxWrites
    /\ status' = [status EXCEPT ![t] = s]
    /\ writes' = [writes EXCEPT ![t] = @ + 1]

\* changeStatus of other users.
OthersMove(t, s) ==
    /\ s \in columns /\ <<status[t], s>> \in Ways
    /\ Store(t, s)
    /\ behind' = TRUE
    /\ UNCHANGED <<columns, fetch, data, shown, move, refused>>

\* createStatus
OthersAddColumn(s) ==
    /\ s \notin columns
    /\ columns' = columns \cup {s}
    /\ behind' = TRUE
    /\ UNCHANGED <<status, writes, fetch, data, shown, move, refused>>

\* getKanban reads the statuses, then the tasks.
ReadStatuses ==
    /\ fetch.pc = "statuses"
    /\ fetch' = [pc |-> "tasks", answer |-> [NoData EXCEPT !.columns = columns]]
    /\ behind' = FALSE
    /\ UNCHANGED <<status, writes, columns, data, shown, move, refused>>

ReadCards ==
    /\ fetch.pc = "tasks"
    /\ fetch' = [pc |-> "answer", answer |-> Answer(fetch.answer.columns)]
    /\ UNCHANGED <<status, writes, columns, data, shown, move, behind, refused>>

-----------------------------------------------------------------------------
\* The board

\* The effect on data runs when it is another object than before.
Deliver ==
    /\ fetch.pc = "answer"
    /\ fetch' = NoFetch
    /\ data' = fetch.answer
    /\ IF fetch.answer = data THEN UNCHANGED <<shown, refused>>
       ELSE shown' = fetch.answer.at /\ refused' = {}
    /\ UNCHANGED <<status, writes, columns, move, behind>>

\* A fetch and its one retry fail: the data stay.
FetchFails ==
    /\ fetch.pc # "none"
    /\ fetch' = NoFetch
    /\ behind' = TRUE
    /\ UNCHANGED <<status, writes, columns, data, shown, move, refused>>

\* handleDragEnd: the card is moved where it is shown, and the request sent.
Drop(m, t, s) ==
    /\ move[m].pc = "none"
    /\ shown[t] # None /\ s \in data.columns \ {shown[t]}
    /\ shown' = [shown EXCEPT ![t] = s]
    /\ move' = [move EXCEPT ![m] = [pc |-> "sent", card |-> t, to |-> s]]
    /\ UNCHANGED <<status, writes, columns, fetch, data, behind, refused>>

\* changeStatus, whose answer may get lost.
Accept(m) ==
    LET t == move[m].card  s == move[m].to IN
    /\ move[m].pc = "sent"
    /\ status[t] = s \/ <<status[t], s>> \in Ways
    /\ Store(t, s)
    /\ \E pc \in {"ok", "failed"} : move' = [move EXCEPT ![m].pc = pc]
    /\ UNCHANGED <<columns, fetch, data, shown, behind, refused>>

\* No such transition, no location or selfie, no access, or no connection.
Refuse(m) ==
    /\ move[m].pc = "sent"
    /\ move' = [move EXCEPT ![m].pc = "failed"]
    /\ UNCHANGED <<status, writes, columns, fetch, data, shown, behind, refused>>

\* Mutant: a fetch under way is taken for the one the change asks for.
InvalidatedUnlessFetching == IF fetch.pc = "none" THEN Fetching ELSE fetch

\* invalidateQueries drops the fetch under way and starts another.
Invalidated == Fetching

\* onSuccess and onError
Settle(m) ==
    /\ move[m].pc \in {"ok", "failed"}
    /\ move' = [move EXCEPT ![m] = NoMove]
    /\ fetch' = Invalidated
    /\ refused' = IF move[m].pc = "failed" THEN refused \cup {move[m].card} ELSE refused
    /\ UNCHANGED <<status, writes, columns, data, shown, behind>>

\* The user comes back to the board: it starts from the cache, and fetches
\* unless the data are fresh.
Remount ==
    /\ shown' = data.at
    /\ refused' = {}
    /\ fetch' \in {fetch, IF fetch.pc = "none" THEN Fetching ELSE fetch}
    /\ UNCHANGED <<status, writes, columns, data, move, behind>>

BoardNext ==
    \/ \E t \in Cards, s \in Columns : OthersMove(t, s)
    \/ \E s \in Columns : OthersAddColumn(s)
    \/ ReadStatuses \/ ReadCards \/ Deliver \/ FetchFails \/ Remount
    \/ \E m \in Moves :
          \/ \E t \in Cards, s \in Columns : Drop(m, t, s)
          \/ Accept(m) \/ Refuse(m) \/ Settle(m)

BoardSpec == BoardInit /\ [][BoardNext]_boardVars

-----------------------------------------------------------------------------
\* Properties

Quiet == fetch.pc = "none" /\ \A m \in Moves : move[m].pc = "none"

\* With nothing under way, and unless others wrote since the last fetch began or
\* that fetch failed, the board shows what the server has, its own moves
\* included; but for cards whose move failed: the answer that follows equals the
\* one before, and nothing moves them back.
QuietBoardIsCurrent ==
    Quiet /\ ~behind =>
        /\ data = Answer(columns)
        /\ \A t \in Cards : shown[t] # data.at[t] => t \in refused
=============================================================================
