----------------------------- MODULE Attendance -----------------------------
(***************************************************************************)
(* The attendance days of one user: check-ins and check-outs write them,   *)
(* and so does the approval of a regularization.  A time is a minute since *)
(* the first day began; its day is the UTC day, as for the handlers, and   *)
(* the office hours are taken in the same clock.                           *)
(*                                                                         *)
(* A punch is a check-in or check-out being handled: it reads, then writes *)
(* the day, then adds an event.  An address is a row of Width bits, the    *)
(* most significant one first; a place is near an office or not.           *)
(***************************************************************************)
EXTENDS Integers, FiniteSets

CONSTANTS
    Days,         \* number of days
    DayLength,    \* minutes of a day
    Start, End,   \* office hours, in minutes of the day
    NoTime,       \* no time
    Regularization,
    Punches,      \* check-ins and check-outs being handled at once
    MaxStops,     \* bound on the processes that stop
    Width,        \* bits of an address
    NoAddress,    \* no address, or one that is not of the kind the rules have
    Bare          \* the bits of a rule that names a single address

ASSUME AttendanceAssumption ==
    /\ Days \in Nat \ {0} /\ DayLength \in Nat \ {0} /\ Width \in Nat \ {0}
    /\ Start \in 0..(DayLength - 1) /\ End \in 0..(DayLength - 1) /\ MaxStops \in Nat
    /\ NoTime \notin Int /\ NoAddress \notin [1..Width -> {0, 1}] /\ Bare \notin Int

VARIABLES
    clock,
    day,     \* the row of each day, NoDay where there is none
    event,   \* rows of attendance events: [day, type, at]
    reg,     \* [status, day, in, out] of each regularization
    rules,   \* the active address rules: [base, bits]
    punch,
    stops,   \* processes that have stopped
    mixed,   \* days written by a correction, by punches that overlapped, or at a
             \* time that was not theirs (history)
    under    \* the rules the last check-in of each day was judged by (history)

attendanceVars == <<clock, day, event, reg, rules, punch, stops, mixed, under>>

Time == 0..(Days * DayLength - 1)
Times == Time \cup {NoTime}
DayOf(t) == t \div DayLength
MinuteOf(t) == t % DayLength
Minutes == 0..(DayLength - 1)
Address == [1..Width -> {0, 1}]
Rule == [base: Address, bits: (0..Width) \cup {Bare}]

DayRecord == [exists: BOOLEAN, in: Times, out: Times, late: Minutes, early: Minutes,
              missing: BOOLEAN, status: {"OPEN", "COMPLETE", "REGULARIZED"},
              ip: Address \cup {NoAddress}, near: BOOLEAN, office: BOOLEAN]
NoDay == [exists |-> FALSE, in |-> NoTime, out |-> NoTime, late |-> 0, early |-> 0,
          missing |-> FALSE, status |-> "OPEN", ip |-> NoAddress, near |-> FALSE, office |-> FALSE]

PunchRecord == [kind: {"none", "in", "out"}, pc: {"idle", "write", "event"}, at: Time,
                ip: Address \cup {NoAddress}, near: BOOLEAN, office: BOOLEAN,
                under: SUBSET Rule]  \* the rules it was judged by (history)
NoPunch == [kind |-> "none", pc |-> "idle", at |-> 0, ip |-> NoAddress, near |-> FALSE,
            office |-> FALSE, under |-> {}]
NoReg == [status |-> "NONE", day |-> 0, in |-> 0, out |-> 0]

RegRecord == [status: {"NONE", "PENDING", "APPROVED", "REJECTED"},
              day: 0..(Days - 1), in: Time, out: Time]
EventRecord == [day: 0..(Days - 1), type: {"CHECK_IN", "CHECK_OUT", "CORRECTION"}, at: Time]

AttendanceTypeOK ==
    /\ clock \in Time /\ day \in [0..(Days - 1) -> DayRecord] /\ event \subseteq EventRecord
    /\ reg \in [Regularization -> RegRecord] /\ rules \subseteq Rule
    /\ punch \in [Punches -> PunchRecord] /\ stops \in 0..MaxStops
    /\ mixed \subseteq 0..(Days - 1) /\ under \in [0..(Days - 1) -> SUBSET Rule]

AttendanceInit ==
    /\ clock = 0 /\ day = [d \in 0..(Days - 1) |-> NoDay] /\ event = {}
    /\ reg = [r \in Regularization |-> NoReg] /\ punch = [p \in Punches |-> NoPunch]
    /\ rules = {} /\ stops = 0
    /\ mixed = {} /\ under = [d \in 0..(Days - 1) |-> {}]

-----------------------------------------------------------------------------
(* resolveOfficeStatus                                                       *)

Zeros == [i \in 1..Width |-> 0]
Ones == [i \in 1..Width |-> 1]

\* The shift is that of the language: its count is taken modulo the width.
Shl(x, n) ==
    LET k == n % Width IN [i \in 1..Width |-> IF i + k <= Width THEN x[i + k] ELSE 0]
And(x, y) == [i \in 1..Width |-> IF x[i] = 1 THEN y[i] ELSE 0]

Mask(bits) == IF bits = 0 THEN Zeros ELSE Shl(Ones, Width - bits)

\* isIpInCidr
InCidr(ip, rule) ==
    IF rule.bits = Bare THEN ip = rule.base
    ELSE And(ip, Mask(rule.bits)) = And(rule.base, Mask(rule.bits))

\* By address, or by place.
AtOffice(ip, near) == (ip # NoAddress /\ \E rule \in rules : InCidr(ip, rule)) \/ near

\* createOfficeIp of the office policy service: a rule is one row, and none is
\* ever changed.
AddRule(rule) ==
    /\ rule \notin rules /\ rules' = rules \cup {rule}
    /\ UNCHANGED <<clock, day, event, reg, punch, stops, mixed, under>>

-----------------------------------------------------------------------------
(* calculateLateMinutes, calculateEarlyLogoutMinutes                         *)

LateMinutes(t) == IF MinuteOf(t) > Start THEN MinuteOf(t) - Start ELSE 0
EarlyMinutes(t) == IF MinuteOf(t) < End THEN End - MinuteOf(t) ELSE 0

\* A punch for time t has a day to itself when it is made at that time, and no
\* other one is about to write the day.
Alone(t) == t = clock /\ \A p \in Punches : punch[p].pc = "write" => DayOf(punch[p].at) # DayOf(t)
Mixing(t) == mixed' = IF Alone(t) THEN mixed ELSE mixed \cup {DayOf(t)}

\* checkIn, checkOut: at the time the input gives, or now; a check-in away from
\* the office without a reason, and a check-out of a day without a check-in,
\* are refused.
BeginCheckIn(p, t, ip, near, reason) ==
    /\ punch[p].pc = "idle" /\ (AtOffice(ip, near) \/ reason)
    /\ punch' = [punch EXCEPT ![p] =
          [kind |-> "in", pc |-> "write", at |-> t, ip |-> ip, near |-> near,
           office |-> AtOffice(ip, near), under |-> rules]]
    /\ Mixing(t) /\ UNCHANGED <<clock, day, event, reg, rules, stops, under>>

BeginCheckOut(p, t) ==
    /\ punch[p].pc = "idle" /\ day[DayOf(t)].exists /\ day[DayOf(t)].in # NoTime
    /\ punch' = [punch EXCEPT ![p] = [NoPunch EXCEPT !.kind = "out", !.pc = "write", !.at = t]]
    /\ Mixing(t) /\ UNCHANGED <<clock, day, event, reg, rules, stops, under>>

\* Mutant: a check-in of a day that exists leaves its status.
CheckInKeepsStatus(p, d) ==
    [day[d] EXCEPT !.exists = TRUE, !.in = punch[p].at, !.late = LateMinutes(punch[p].at),
                   !.missing = TRUE,
                   !.ip = punch[p].ip, !.near = punch[p].near, !.office = punch[p].office]

\* The day is created or overwritten; what a check-out has written stays.
CheckInDay(p, d) ==
    [day[d] EXCEPT !.exists = TRUE, !.in = punch[p].at, !.late = LateMinutes(punch[p].at),
                   !.missing = TRUE, !.status = "OPEN",
                   !.ip = punch[p].ip, !.near = punch[p].near, !.office = punch[p].office]

CheckOutDay(p, d) ==
    [day[d] EXCEPT !.out = punch[p].at, !.early = EarlyMinutes(punch[p].at),
                   !.missing = FALSE, !.status = "COMPLETE"]

WriteDay(p) ==
    LET d == DayOf(punch[p].at)
    IN /\ punch[p].pc = "write" /\ punch' = [punch EXCEPT ![p].pc = "event"]
       /\ \/ /\ punch[p].kind = "in" /\ day' = [day EXCEPT ![d] = CheckInDay(p, d)]
             /\ under' = [under EXCEPT ![d] = punch[p].under]
          \/ /\ punch[p].kind = "out" /\ day' = [day EXCEPT ![d] = CheckOutDay(p, d)]
             /\ UNCHANGED under
       /\ UNCHANGED <<clock, event, reg, rules, stops, mixed>>

AddEvent(p) ==
    /\ punch[p].pc = "event" /\ punch' = [punch EXCEPT ![p] = NoPunch]
    /\ event' = event \cup {[day |-> DayOf(punch[p].at), at |-> punch[p].at,
                             type |-> IF punch[p].kind = "in" THEN "CHECK_IN" ELSE "CHECK_OUT"]}
    /\ UNCHANGED <<clock, day, reg, rules, stops, mixed, under>>

-----------------------------------------------------------------------------
(* Regularizations                                                           *)

\* createRegularization: of a day that exists; the corrected times need not lie
\* in it.
File(r, d, i, o) ==
    /\ reg[r].status = "NONE" /\ day[d].exists /\ i < o
    /\ reg' = [reg EXCEPT ![r] = [status |-> "PENDING", day |-> d, in |-> i, out |-> o]]
    /\ UNCHANGED <<clock, day, event, rules, punch, stops, mixed, under>>

Corrected(r) ==
    [day[reg[r].day] EXCEPT !.in = reg[r].in, !.out = reg[r].out,
                            !.late = LateMinutes(reg[r].in), !.early = EarlyMinutes(reg[r].out),
                            !.missing = FALSE, !.status = "REGULARIZED"]

\* applyTargetDecision of the approvals service, in one transaction.
Approve(r) ==
    /\ reg[r].status = "PENDING" /\ reg' = [reg EXCEPT ![r].status = "APPROVED"]
    /\ day' = [day EXCEPT ![reg[r].day] = Corrected(r)]
    /\ event' = event \cup {[day |-> reg[r].day, type |-> "CORRECTION", at |-> clock]}
    /\ mixed' = mixed \cup {reg[r].day} /\ UNCHANGED <<clock, rules, punch, stops, under>>
Reject(r) ==
    /\ reg[r].status = "PENDING" /\ reg' = [reg EXCEPT ![r].status = "REJECTED"]
    /\ UNCHANGED <<clock, day, event, rules, punch, stops, mixed, under>>

Tick ==
    /\ clock + 1 \in Time /\ clock' = clock + 1
    /\ UNCHANGED <<day, event, reg, rules, punch, stops, mixed, under>>

\* A process stops in the middle of a request.
Stop(p) ==
    /\ punch[p].pc # "idle" /\ punch' = [punch EXCEPT ![p] = NoPunch]
    /\ stops < MaxStops /\ stops' = stops + 1
    /\ UNCHANGED <<clock, day, event, reg, rules, mixed, under>>

AttendanceNext ==
    \/ \E p \in Punches :
          \/ WriteDay(p) \/ AddEvent(p) \/ Stop(p)
          \/ \E t \in Time : BeginCheckOut(p, t)
          \/ \E t \in Time, ip \in Address \cup {NoAddress}, near, reason \in BOOLEAN :
                BeginCheckIn(p, t, ip, near, reason)
    \/ \E rule \in Rule : AddRule(rule)
    \/ \E r \in Regularization :
          \/ Approve(r) \/ Reject(r)
          \/ \E d \in 0..(Days - 1), i, o \in Time : File(r, d, i, o)
    \/ Tick

AttendanceSpec == AttendanceInit /\ [][AttendanceNext]_attendanceVars

-----------------------------------------------------------------------------
(* Properties                                                                *)

\* The late and early minutes of a day are those of the times it holds, whoever
\* has written them last (checkIn, checkOut, applyTargetDecision).
MinutesBelongToTimes ==
    \A d \in 0..(Days - 1) :
        /\ day[d].in # NoTime => day[d].late = LateMinutes(day[d].in)
        /\ day[d].out # NoTime => day[d].early = EarlyMinutes(day[d].out)

\* A day that is closed has both times and misses no check-out, one that is
\* open misses it, in whatever order its writers come (checkIn, checkOut).
StatusTellsTimes ==
    \A d \in 0..(Days - 1) : day[d].exists =>
        /\ day[d].in # NoTime /\ (day[d].missing <=> day[d].status = "OPEN")
        /\ day[d].status # "OPEN" => day[d].out # NoTime

\* A time of a day is told by an event, by a punch about to add one, or by an
\* approved correction.
Told(d, t, kind, type, times) ==
    \/ t = NoTime \/ t \in times \/ [day |-> d, type |-> type, at |-> t] \in event
    \/ DayOf(t) = d /\ \E p \in Punches :
          punch[p].pc = "event" /\ punch[p].kind = kind /\ punch[p].at = t

ApprovedFor(d) == {r \in Regularization : reg[r].status = "APPROVED" /\ reg[r].day = d}

\* Without a process that stops, a time of a day is that of an event or of an
\* approved correction once nothing is being handled (checkIn, checkOut).
TimesAreExplained ==
    stops = 0 => \A d \in 0..(Days - 1) :
        /\ Told(d, day[d].in, "in", "CHECK_IN", {reg[r].in : r \in ApprovedFor(d)})
        /\ Told(d, day[d].out, "out", "CHECK_OUT", {reg[r].out : r \in ApprovedFor(d)})

\* A day whose requests came one at a time, each at the time it gives, and that
\* no correction has touched, ends no earlier than it began when it is COMPLETE
\* (checkIn, checkOut).
CompleteDaySpans ==
    \A d \in 0..(Days - 1) \ mixed : day[d].status = "COMPLETE" => day[d].in <= day[d].out

\* An address agrees with a rule in the first bits of both.
Agrees(ip, rule) ==
    \A i \in 1..(IF rule.bits = Bare THEN Width ELSE rule.bits) : ip[i] = rule.base[i]

\* A day is one at the office when its place is near one, or when its address
\* agreed with one of the rules there were at its last check-in (isIpInCidr).
OfficeByPrefix ==
    \A d \in 0..(Days - 1) : day[d].exists =>
        (day[d].office <=>
            \/ day[d].near
            \/ day[d].ip # NoAddress /\ \E rule \in under[d] : Agrees(day[d].ip, rule))

\* An attendance day agrees with itself, whoever has written it last: its late
\* and early minutes are those of its times, its status tells which times it
\* has, one that requests made one after the other ends after it began, and a
\* time is that of an event or of an approved correction, unless a process has
\* stopped on the way (checkIn, checkOut).  It is at the office by place, or by
\* the first bits of an address (isIpInCidr).
DayAgrees ==
    /\ AttendanceTypeOK /\ MinutesBelongToTimes /\ StatusTellsTimes /\ TimesAreExplained
    /\ CompleteDaySpans /\ OfficeByPrefix
=============================================================================
