------------------------------- MODULE DaysOff -------------------------------
(***************************************************************************)
(* What one user takes of a year: days of work from home, within a quota,  *)
(* and optional holidays, within another.                                  *)
(*                                                                         *)
(* A handler handles a request, one statement at a time: what it has       *)
(* counted may be out of date when it stores its row.  The approval of a   *)
(* request is a step of its own; the chain behind it is module Approvals.  *)
(***************************************************************************)
EXTENDS Integers, FiniteSets

CONSTANTS
    Date,      \* days of the year
    Request,   \* rows of work-from-home requests
    Holiday,   \* rows of holidays
    Handlers,
    MaxQuota   \* quotas are 0..MaxQuota

ASSUME DaysOffAssumption ==
    /\ Date # {} /\ Holiday # {} /\ MaxQuota \in Nat
    /\ IsFiniteSet(Request) /\ IsFiniteSet(Holiday) /\ IsFiniteSet(Handlers) /\ Handlers # {}

VARIABLES
    quota,     \* days of work from home: the override of the user, or the default
    peak,      \* the largest quota there has been (history)
    wfh,       \* [status, date] of each request
    crowded,   \* requests made while another was pending or about to be (history)
    holiday,   \* [exists, optional, active, date] of each holiday
    claims,    \* holidays the user has claimed
    disturbed, \* claimed holidays whose day, or what is asked for it, changed
               \* after the claim had been checked (history)
    allowed,   \* optional holidays a year
    absent,    \* days of a leave request that is pending or approved
    handler

daysOffVars == <<quota, peak, wfh, crowded, holiday, claims, disturbed, allowed, absent, handler>>

RequestRecord == [status: {"NONE", "PENDING", "APPROVED", "REJECTED"}, date: Date]
HolidayRecord == [exists: BOOLEAN, optional: BOOLEAN, active: BOOLEAN, date: Date]
HandlerRecord == [pc: {"idle", "store", "conflict", "count", "claim"}, date: Date, h: Holiday,
                  crowded: BOOLEAN, late: BOOLEAN]  \* histories, see crowded and disturbed

AnyDate == CHOOSE d \in Date : TRUE
AnyHoliday == CHOOSE h \in Holiday : TRUE
Free == [pc |-> "idle", date |-> AnyDate, h |-> AnyHoliday, crowded |-> FALSE, late |-> FALSE]

DaysOffTypeOK ==
    /\ quota \in 0..MaxQuota /\ peak \in 0..MaxQuota /\ allowed \in 0..MaxQuota
    /\ wfh \in [Request -> RequestRecord] /\ crowded \subseteq Request
    /\ holiday \in [Holiday -> HolidayRecord] /\ claims \subseteq Holiday
    /\ disturbed \subseteq Holiday /\ absent \subseteq Date
    /\ handler \in [Handlers -> HandlerRecord]

DaysOffInit ==
    /\ quota \in 0..MaxQuota /\ peak = quota /\ allowed \in 0..MaxQuota
    /\ wfh = [r \in Request |-> [status |-> "NONE", date |-> AnyDate]] /\ crowded = {}
    /\ holiday = [h \in Holiday |->
          [exists |-> FALSE, optional |-> FALSE, active |-> FALSE, date |-> AnyDate]]
    /\ claims = {} /\ disturbed = {} /\ absent = {} /\ handler = [c \in Handlers |-> Free]

At(c, pc) == handler[c].pc = pc
Advance(c, pc) == handler' = [handler EXCEPT ![c].pc = pc]
Finish(c) == handler' = [handler EXCEPT ![c] = Free]

Asked == {r \in Request : wfh[r].status = "PENDING"}
Granted == {r \in Request : wfh[r].status = "APPROVED"}

-----------------------------------------------------------------------------
(* Work from home                                                            *)

\* getBalance: what is pending does not count.
Available == quota - Cardinality(Granted)

\* createPolicy: the default, or the override of the user.
SetQuota(n) ==
    /\ quota' = n /\ peak' = IF n > peak THEN n ELSE peak
    /\ UNCHANGED <<wfh, crowded, holiday, claims, disturbed, allowed, absent, handler>>

\* createRequest: the balance is read, and the row stored later.
Ask(c, d) ==
    /\ At(c, "idle") /\ Available > 0
    /\ handler' = [handler EXCEPT ![c] =
          [Free EXCEPT !.pc = "store", !.date = d,
                       !.crowded = Asked # {} \/ \E x \in Handlers : At(x, "store")]]
    /\ UNCHANGED <<quota, peak, wfh, crowded, holiday, claims, disturbed, allowed, absent>>

\* What is asked for day d disturbs the claims of its holidays, those stored
\* and those already checked.
Checked(c, d) == (At(c, "count") \/ At(c, "claim")) /\ handler[c].date = d
Disturb(d) == disturbed' = disturbed \cup {h \in claims : holiday[h].date = d}
Overtaken(d) ==
    [c \in Handlers |-> IF Checked(c, d) THEN [handler[c] EXCEPT !.late = TRUE] ELSE handler[c]]

StoreRequest(c, r) ==
    /\ At(c, "store") /\ wfh[r].status = "NONE"
    /\ wfh' = [wfh EXCEPT ![r] = [status |-> "PENDING", date |-> handler[c].date]]
    /\ crowded' = IF handler[c].crowded THEN crowded \cup {r} ELSE crowded
    /\ handler' = [Overtaken(handler[c].date) EXCEPT ![c] = Free] /\ Disturb(handler[c].date)
    /\ UNCHANGED <<quota, peak, holiday, claims, allowed, absent>>

\* approveRequest, rejectRequest: nothing is counted again.
DecideRequest(r, status) ==
    /\ wfh[r].status = "PENDING" /\ wfh' = [wfh EXCEPT ![r].status = status]
    /\ UNCHANGED <<quota, peak, crowded, holiday, claims, disturbed, allowed, absent, handler>>

-----------------------------------------------------------------------------
(* Holidays                                                                  *)

Claiming(c) == handler[c].pc \in {"conflict", "count", "claim"}

\* createHoliday, updateHoliday: any of its fields.
PutHoliday(h, optional, enabled, d) ==
    /\ holiday' = [holiday EXCEPT ![h] =
                      [exists |-> TRUE, optional |-> optional, active |-> enabled, date |-> d]]
    /\ disturbed' = IF h \in claims /\ d # holiday[h].date THEN disturbed \cup {h} ELSE disturbed
    /\ handler' = [c \in Handlers |->
          IF Claiming(c) /\ handler[c].h = h /\ d # holiday[h].date
          THEN [handler[c] EXCEPT !.late = TRUE] ELSE handler[c]]
    /\ UNCHANGED <<quota, peak, wfh, crowded, claims, allowed, absent>>

\* deleteHoliday: its claims go with it.
DeleteHoliday(h) ==
    /\ holiday[h].exists /\ holiday' = [holiday EXCEPT ![h].exists = FALSE]
    /\ claims' = claims \ {h}
    /\ UNCHANGED <<quota, peak, wfh, crowded, disturbed, allowed, absent, handler>>

\* claimOptionalHoliday: the holiday and an earlier claim of it are read ...
Claim(c, h) ==
    /\ At(c, "idle") /\ h \notin claims
    /\ holiday[h].exists /\ holiday[h].active /\ holiday[h].optional
    /\ handler' = [handler EXCEPT ![c] =
          [Free EXCEPT !.pc = "conflict", !.h = h, !.date = holiday[h].date]]
    /\ UNCHANGED <<quota, peak, wfh, crowded, holiday, claims, disturbed, allowed, absent>>

\* The user is not away on day d, and has not asked for it.
DayFree(d) == d \notin absent /\ \A r \in Asked \cup Granted : wfh[r].date # d

\* ... then the requests of its day ...
CheckConflict(c) ==
    /\ At(c, "conflict")
    /\ IF DayFree(handler[c].date) THEN Advance(c, "count") ELSE Finish(c)
    /\ UNCHANGED <<quota, peak, wfh, crowded, holiday, claims, disturbed, allowed, absent>>

\* Mutant: the claim that reaches the quota is let through.
CountLoose(c) ==
    /\ At(c, "count")
    /\ IF Cardinality(claims) > allowed THEN Finish(c) ELSE Advance(c, "claim")
    /\ UNCHANGED <<quota, peak, wfh, crowded, holiday, claims, disturbed, allowed, absent>>

\* ... then the claims of the year ...
CountClaims(c) ==
    /\ At(c, "count")
    /\ IF Cardinality(claims) >= allowed THEN Finish(c) ELSE Advance(c, "claim")
    /\ UNCHANGED <<quota, peak, wfh, crowded, holiday, claims, disturbed, allowed, absent>>

\* ... and the claim is stored, unless there is one, or the holiday is gone.
StoreClaim(c) ==
    LET h == handler[c].h
    IN /\ At(c, "claim") /\ Finish(c)
       /\ \/ /\ holiday[h].exists /\ h \notin claims /\ claims' = claims \cup {h}
             /\ disturbed' = IF handler[c].late THEN disturbed \cup {h} ELSE disturbed \ {h}
          \/ (~holiday[h].exists \/ h \in claims) /\ UNCHANGED <<claims, disturbed>>
       /\ UNCHANGED <<quota, peak, wfh, crowded, holiday, allowed, absent>>

\* A leave request of a day is filed, or rejected (module Leave).
FileLeave(d) ==
    /\ absent' = absent \cup {d} /\ d \notin absent
    /\ handler' = Overtaken(d) /\ Disturb(d)
    /\ UNCHANGED <<quota, peak, wfh, crowded, holiday, claims, allowed>>

RejectLeave(d) ==
    /\ d \in absent /\ absent' = absent \ {d}
    /\ UNCHANGED <<quota, peak, wfh, crowded, holiday, claims, disturbed, allowed, handler>>

DaysOffNext ==
    \/ \E c \in Handlers :
          \/ CheckConflict(c) \/ CountClaims(c) \/ StoreClaim(c)
          \/ \E d \in Date : Ask(c, d)
          \/ \E r \in Request : StoreRequest(c, r)
          \/ \E h \in Holiday : Claim(c, h)
    \/ \E r \in Request, status \in {"APPROVED", "REJECTED"} : DecideRequest(r, status)
    \/ \E n \in 0..MaxQuota : SetQuota(n)
    \/ \E h \in Holiday, optional, enabled \in BOOLEAN, d \in Date : PutHoliday(h, optional, enabled, d)
    \/ \E h \in Holiday : DeleteHoliday(h)
    \/ \E d \in Date : FileLeave(d) \/ RejectLeave(d)

DaysOffSpec == DaysOffInit /\ [][DaysOffNext]_daysOffVars

-----------------------------------------------------------------------------
(* Properties                                                                *)

\* Claims exceed the quota by no more than the requests that overlap
\* (claimOptionalHoliday).
ClaimsBounded == Cardinality(claims) <= allowed + Cardinality(Handlers) - 1

\* A claim is a claim of a holiday that exists (deleteHoliday).
ClaimsHaveHoliday == \A h \in claims : holiday[h].exists

\* The requests that were made while none was waiting for its decision or about
\* to be stored do not exceed the largest quota there has been (createRequest).
ApprovedWithinQuota == Cardinality(Granted \ crowded) <= peak

\* The day of a claimed holiday is free, unless it was moved, or the day asked
\* for, after the claim had been checked (assertNoExistingDayRequestConflict).
ClaimedDayIsFree == \A h \in claims \ disturbed : DayFree(holiday[h].date)
=============================================================================
