------------------------------ MODULE Templates ------------------------------
(***************************************************************************)
(* Recurring task templates as a schedule: a tick takes the templates due  *)
(* longest, up to a limit, and runs one after the other, each in a         *)
(* transaction that moves it to its next date or fails and leaves it where *)
(* it was.  That a transaction stores one task, whatever overlaps with it, *)
(* is module Tasks; here it is one step.                                   *)
(*                                                                         *)
(* A date is a number of days; the months are given by their lengths.      *)
(***************************************************************************)
EXTENDS Integers, Sequences, FiniteSets, FiniteSetsExt

CONSTANTS
    Template, Project,
    ProjectOf, Frequency, Interval, Start, End,   \* columns of the templates
    MonthLengths,   \* the calendar
    WeekLength,     \* 7 in the code
    Limit,          \* 50 in the code
    MaxStops, MaxChanges

VARIABLES
    today,
    template,     \* [active, next]
    deleted,      \* projects deleted
    bare,         \* projects without a status
    broken,       \* projects in which every insertion of a task fails
    tick,         \* [now, todo]: what is left of a tick, or no tick
    stops         \* processes that stopped in a tick

vars == <<today, template, deleted, bare, broken, tick, stops>>
projects == <<deleted, bare, broken>>

NoTick == [now |-> 0, todo |-> <<>>]

Init ==
    /\ today = 1
    /\ template = [t \in Template |-> [active |-> TRUE, next |-> Start[t]]]
    /\ deleted = {} /\ bare = {} /\ broken = {}
    /\ tick = NoTick
    /\ stops = 0

-----------------------------------------------------------------------------
\* The calendar

DaysBefore[m \in 1 .. Len(MonthLengths) + 1] ==
    IF m = 1 THEN 0 ELSE DaysBefore[m - 1] + MonthLengths[m - 1]

LastDay == DaysBefore[Len(MonthLengths) + 1]
MonthOf(date) == CHOOSE m \in DOMAIN MonthLengths : DaysBefore[m] < date /\ date <= DaysBefore[m + 1]
DayOf(date) == date - DaysBefore[MonthOf(date)]

\* setUTCMonth: the same day counted from the first of a later month, which may
\* lie in the month after that one.  Past the calendar nothing is due any more.
AddMonths(date, n) ==
    LET m == MonthOf(date) + n IN
    IF m \in DOMAIN MonthLengths THEN DaysBefore[m] + DayOf(date) ELSE LastDay + 1

AtLeastOne(n) == IF n < 1 THEN 1 ELSE n

\* Mutant: every month is as long as the first.
NextRunByDays(t, date) ==
    LET n == AtLeastOne(Interval[t]) IN
    CASE Frequency[t] = "WEEKLY" -> date + WeekLength * n
      [] Frequency[t] = "MONTHLY" -> date + MonthLengths[1] * n
      [] OTHER -> date + n

\* calculateNextRunAt, from the date that was due and not from today
NextRun(t, date) ==
    LET n == AtLeastOne(Interval[t]) IN
    CASE Frequency[t] = "WEEKLY" -> date + WeekLength * n
      [] Frequency[t] = "MONTHLY" -> AddMonths(date, n)
      [] OTHER -> date + n

-----------------------------------------------------------------------------
\* Ticks

Due(t, now) == template[t].active /\ template[t].next <= now

\* Those due longest; which of several due on one date come first is open.
BeginTick ==
    LET due == {t \in Template : Due(t, today)}
        n == Min({Cardinality(due), Limit})
    IN
    /\ tick = NoTick /\ due # {}
    /\ \E taken \in [1 .. n -> due] :
          /\ \A i, j \in 1 .. n : i < j => taken[i] # taken[j] /\ template[taken[i]].next <= template[taken[j]].next
          /\ \A t \in due \ {taken[i] : i \in 1 .. n} : template[taken[n]].next <= template[t].next
          /\ tick' = [now |-> today, todo |-> taken]
    /\ UNCHANGED <<today, template, projects, stops>>

\* What follows a run, with a task or, when the project has no status, without.
Moved(t) ==
    LET next == NextRun(t, template[t].next) IN
    [active |-> next <= End[t], next |-> next]

\* An error is logged, and the tick goes on.
ProcessTemplate ==
    LET t == Head(tick.todo)
        p == ProjectOf[t]
    IN
    /\ tick # NoTick
    /\ template' =
          IF ~Due(t, tick.now) THEN template
          ELSE IF p \in deleted THEN [template EXCEPT ![t].active = FALSE]
          ELSE IF p \in broken \ bare THEN template
          ELSE [template EXCEPT ![t] = Moved(t)]
    /\ tick' = IF Len(tick.todo) = 1 THEN NoTick ELSE [tick EXCEPT !.todo = Tail(@)]
    /\ UNCHANGED <<today, projects, stops>>

TickLost ==
    /\ tick # NoTick /\ stops < MaxStops
    /\ tick' = NoTick /\ stops' = stops + 1
    /\ UNCHANGED <<today, template, projects>>

-----------------------------------------------------------------------------
\* What happens meanwhile

NextDay ==
    /\ today < LastDay /\ today' = today + 1
    /\ UNCHANGED <<template, projects, tick, stops>>

Changes == Cardinality(deleted) + Cardinality(bare) + Cardinality(broken)

DeleteProject(p) ==
    /\ Changes < MaxChanges /\ deleted' = deleted \cup {p} /\ UNCHANGED <<bare, broken>>

DropStatuses(p) ==
    /\ Changes < MaxChanges /\ bare' = bare \cup {p} /\ UNCHANGED <<deleted, broken>>

AddStatus(p) ==
    bare' = bare \ {p} /\ UNCHANGED <<deleted, broken>>

\* The seed script stores tasks under keys of its own, and a sequence that ends
\* below them makes a key that is taken, until the script has run to its end.
Break(p) ==
    /\ Changes < MaxChanges /\ broken' = broken \cup {p} /\ UNCHANGED <<deleted, bare>>

Mend(p) ==
    broken' = broken \ {p} /\ UNCHANGED <<deleted, bare>>

Change(p) ==
    /\ DeleteProject(p) \/ DropStatuses(p) \/ AddStatus(p) \/ Break(p) \/ Mend(p)
    /\ UNCHANGED <<today, template, tick, stops>>

Next == BeginTick \/ ProcessTemplate \/ TickLost \/ NextDay \/ \E p \in Project : Change(p)

-----------------------------------------------------------------------------
\* Properties

\* The day of the month a monthly template began on is the day of its next date,
\* unless a month on its way was too short for it; then it is in one of the months
\* after.  Other templates keep their distance.
OnSchedule(t) ==
    LET date == template[t].next
        n == AtLeastOne(Interval[t])
    IN
    date > LastDay \/
    CASE Frequency[t] = "MONTHLY" ->
           \/ DayOf(date) = DayOf(Start[t]) /\ (MonthOf(date) - MonthOf(Start[t])) % n = 0
           \/ \E m \in MonthOf(Start[t]) .. MonthOf(date) : MonthLengths[m] < DayOf(Start[t])
      [] Frequency[t] = "WEEKLY" -> (date - Start[t]) % (WeekLength * n) = 0
      [] OTHER -> (date - Start[t]) % n = 0

Failing(t) == Due(t, today) /\ ProjectOf[t] \in broken \ (deleted \cup bare)

\* A template that is due is run until it is not, and its next date is on its
\* schedule, unless it fails itself or as many that fail as a tick takes keep
\* their place before it (processDueTemplates, calculateNextRunAt).
TemplatesServed ==
    \A t \in Template :
        Due(t, today) ~> \/ ~Due(t, today) /\ OnSchedule(t)
                         \/ Failing(t)
                         \/ Cardinality({u \in Template : Failing(u)}) >= Limit
=============================================================================
