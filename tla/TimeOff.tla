------------------------------- MODULE TimeOff -------------------------------
(***************************************************************************)
(* The time one user is at work or away in a year: the leave ledger and    *)
(* requests, the attendance days, work from home and optional holidays.    *)
(* The three share no row and are handled by services of their own; a      *)
(* leave request bears on the days off as FileLeave and RejectLeave.       *)
(***************************************************************************)
EXTENDS Leave, Attendance, DaysOff

TimeOffSpec == Spec /\ AttendanceSpec /\ DaysOffSpec

-----------------------------------------------------------------------------
\* What is asked for is granted: no leave request exceeds what had been accrued
\* (createLeaveRequest); claims of optional holidays exceed the quota by no more
\* than the requests that overlap, and are of holidays that exist; work from home
\* that is asked for one request at a time stays within its quota, and a claimed
\* day is free unless it has changed since (claimOptionalHoliday, createRequest).
WithinGrants ==
    /\ NoRequestBeyondAccrual
    /\ DaysOffTypeOK /\ ClaimsBounded /\ ClaimsHaveHoliday
    /\ ApprovedWithinQuota /\ ClaimedDayIsFree
=============================================================================
