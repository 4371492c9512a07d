------------------------------- MODULE MCLeave -------------------------------
(* Leave: somebody who joined in the first month, halfway; policies of two   *)
(* or four units a month.  Beside it, attendance and days off in scenarios   *)
(* of their own.  "overlap": two requests of times of the first day, and a   *)
(* correction; "serial": one request at a time, at its time, over two days;  *)
(* "addresses": one check-in, after at most one address rule is made.        *)
(* "days off": two claims at once; "in turn": one request, and nothing is    *)
(* filed or changed under it.                                                *)
EXTENDS TimeOff, TLC

CONSTANTS boss, nobody, noClaim, c1, c2, k1, x1, x2, r1, r2, h1, h2, noon, None

MCUsers == {boss}
MCClaims == {k1}
MCCalls == {c1, c2}
MCAccruals == {2, 4}
MCOneLength == {3}
MCLeaveDays == {1, 3}
MCProrated == [a \in MCAccruals |-> a \div 2]
MCRequests == 1 .. 2
MCRequester == [r \in MCRequests |-> nobody]
MCHandlers == {x1, x2}
MCRegularization == {r1}
MCRequest == {r1, r2}
MCHoliday == {h1, h2}
MCDate == {noon, None}
MCSymmetry == Permutations(Calls)

VARIABLE scenario

-----------------------------------------------------------------------------
Plain == \A p \in Punches : punch'[p].ip = None /\ (punch'[p].kind = "in" => punch'[p].near)

Overlap ==
    /\ Plain /\ UNCHANGED <<rules, clock>> /\ stops' = 0
    /\ \A p \in Punches : punch'[p].at \in {0, 2}
    /\ reg'[r1].day = 0 /\ reg'[r1].out < 4 /\ (reg'[r1].status # "NONE" => reg'[r1].in = 1)
Serial ==
    /\ Plain /\ UNCHANGED <<rules, reg>> /\ punch'[x2].kind = "none"
    /\ punch[x1].pc = "idle" /\ punch'[x1].pc # "idle" => punch'[x1].at \in {clock, 4}
    /\ clock' # clock => punch[x1].pc = "idle"
    /\ Cardinality(event') < 4
Addresses ==
    /\ UNCHANGED <<clock, reg>> /\ stops' = 0 /\ punch'[x2].kind = "none"
    /\ punch'[x1].kind # "out" /\ punch'[x1].at = 0
    /\ punch'[x1].kind = "none" => punch[x1].kind = "none" \/ day[0].exists
    /\ event # {} => punch'[x1].kind = "none"
    /\ rules' # rules => rules = {}

Contended ==
    /\ UNCHANGED <<quota, wfh, absent>> /\ \A c \in Handlers : ~At(c, "store")'
    /\ \A h \in Holiday : holiday'[h].exists => holiday'[h].date = noon
InTurn ==
    /\ At(x2, "idle")' /\ ~holiday'[h2].exists /\ absent' \subseteq {noon}
    /\ holiday'[h1].exists =>
          holiday'[h1].optional /\ (holiday'[h1].active \/ holiday'[h1].date = noon)

InAttendance == scenario \in {"overlap", "serial", "addresses"}
InDaysOff == scenario \in {"days off", "in turn"}

MCInit ==
    /\ Init /\ AttendanceInit /\ DaysOffInit
    /\ scenario \in {"leave", "overlap", "serial", "addresses", "days off", "in turn"}
    /\ scenario # "leave" => policy = 2
    /\ scenario # "in turn" => quota = 0
    /\ scenario \notin {"days off", "in turn"} => allowed = 0

MCNext ==
    /\ UNCHANGED scenario
    /\ \/ scenario = "leave" /\ Next /\ UNCHANGED <<attendanceVars, daysOffVars>>
       \/ /\ InAttendance /\ AttendanceNext /\ UNCHANGED <<vars, daysOffVars>>
          /\ \/ scenario = "overlap" /\ Overlap
             \/ scenario = "serial" /\ Serial
             \/ scenario = "addresses" /\ Addresses
       \/ /\ InDaysOff /\ DaysOffNext /\ UNCHANGED <<vars, attendanceVars>>
          /\ \/ scenario = "days off" /\ Contended
             \/ scenario = "in turn" /\ InTurn

MCSpec == MCInit /\ [][MCNext]_<<vars, attendanceVars, daysOffVars, scenario>>
=============================================================================
