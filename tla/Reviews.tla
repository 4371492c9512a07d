------------------------------- MODULE Reviews -------------------------------
(***************************************************************************)
(* Monthly reviews: a cycle for each month, and for each cycle, reviewed   *)
(* user and reviewer one entry, DRAFT, then SUBMITTED by its reviewer,     *)
(* then APPROVED by an administrator.  A request is one action for each    *)
(* of its database statements.  No code closes a cycle, so the check that  *)
(* an entry's cycle is not CLOSED always passes.                           *)
(***************************************************************************)
EXTENDS FiniteSets

CONSTANTS
    Cycle,   \* months a cycle may be opened for
    Team,
    Lead,    \* users with the role TEAM_LEAD, who write entries
    Admin,   \* users with the role SUPER_ADMIN, who approve them
    Person,  \* users with neither role
    ReviewCalls,  \* concurrent requests
    Nobody

ASSUME ReviewsAssumption == Nobody \notin Admin

User == Lead \cup Admin \cup Person
Entry == [cycle: Cycle, reviewed: User, reviewer: Lead]

VARIABLES
    cycles,    \* the ReviewCycle rows
    teams,     \* the teams each user is a member of
    present,   \* users without deletedAt
    entry,     \* the ReviewEntry rows: status and approvedById
    review       \* the requests

reviewVars == <<cycles, teams, present, entry, review>>

Absent == [status |-> "NONE", approvedBy |-> Nobody, late |-> FALSE]

\* A request that is over, or has not begun.
NoReview == [pc |-> "idle", of |-> {}, actor |-> Nobody, teams |-> {},
         met |-> FALSE, moved |-> {}, stale |-> FALSE]

ReviewRecord ==
    [pc: {"idle", "teams", "overlap", "insert", "submit", "approve"},
     of: {{}} \cup {{e} : e \in Entry},  \* the entry the request is about
     actor: User \cup {Nobody},
     teams: SUBSET Team,  \* the reviewer's teams, as read
     met: BOOLEAN,        \* the two shared a team at some time since (history)
     moved: SUBSET User,  \* whose teams changed since (history)
     stale: BOOLEAN]      \* the entry changed since it was read (history)

ReviewsTypeOK ==
    /\ cycles \subseteq Cycle
    /\ teams \in [User -> SUBSET Team]
    /\ present \subseteq User
    /\ entry \in [Entry -> [status: {"NONE", "DRAFT", "SUBMITTED", "APPROVED"},
                            approvedBy: Admin \cup {Nobody}, late: BOOLEAN]]
    /\ review \in [ReviewCalls -> ReviewRecord]

ReviewsInit ==
    /\ cycles = {}
    /\ teams \in [User -> SUBSET Team]
    /\ present = User
    /\ entry = [e \in Entry |-> Absent]
    /\ review = [c \in ReviewCalls |-> NoReview]

EndReview(c) == review' = [review EXCEPT ![c] = NoReview]

\* Two users have a team in common.
Share(T, u, v) == T[u] \cap T[v] # {}

-----------------------------------------------------------------------------
\* createReviewCycle: the unique key admits one cycle for a month.
CreateReviewCycle(m) ==
    /\ m \notin cycles
    /\ cycles' = cycles \cup {m}
    /\ UNCHANGED <<teams, present, entry, review>>

-----------------------------------------------------------------------------
\* createReviewEntry

\* The cycle exists and the reviewed user is not deleted; he may be the
\* reviewer himself.
CreateReviewEntry(c, e) ==
    /\ review[c] = NoReview
    /\ e.cycle \in cycles
    /\ e.reviewed \in present
    /\ review' = [review EXCEPT ![c] =
          [NoReview EXCEPT !.pc = "teams", !.of = {e}, !.actor = e.reviewer,
                           !.met = Share(teams, e.reviewer, e.reviewed)]]
    /\ UNCHANGED <<cycles, teams, present, entry>>

\* 'TEAM_LEAD has no managed team scope'
GetLeadTeamIds(c) ==
    /\ review[c].pc = "teams"
    /\ \/ teams[review[c].actor] = {} /\ EndReview(c)
       \/ /\ teams[review[c].actor] # {}
          /\ review' = [review EXCEPT ![c].pc = "overlap", ![c].teams = teams[review[c].actor]]
    /\ UNCHANGED <<cycles, teams, present, entry>>

\* The reviewed user is in one of the teams read before.
Overlaps(read, u) == read \cap teams[u] # {}

\* 'TEAM_LEAD can only review own team users'
FindOverlap(c) ==
    /\ review[c].pc = "overlap"
    /\ \E e \in review[c].of :
          \/ ~Overlaps(review[c].teams, e.reviewed) /\ EndReview(c)
          \/ Overlaps(review[c].teams, e.reviewed) /\ review' = [review EXCEPT ![c].pc = "insert"]
    /\ UNCHANGED <<cycles, teams, present, entry>>

\* A second entry for the same cycle, user and reviewer is refused.
InsertEntry(c) ==
    /\ review[c].pc = "insert"
    /\ entry' = [e \in Entry |-> IF e \in review[c].of /\ entry[e] = Absent
                                 THEN [Absent EXCEPT !.status = "DRAFT"] ELSE entry[e]]
    /\ EndReview(c)
    /\ UNCHANGED <<cycles, teams, present>>

-----------------------------------------------------------------------------
\* submitReviewEntry, approveReviewEntry

\* Mutant: an entry may be submitted again.
MaySubmitAgain(e) == entry[e].status # "NONE"

\* 'Only DRAFT reviews can be submitted'
MaySubmit(e) == entry[e].status = "DRAFT"

SubmitReviewEntry(c, e) ==
    /\ review[c] = NoReview
    /\ MaySubmit(e)
    /\ review' = [review EXCEPT ![c] = [NoReview EXCEPT !.pc = "submit", !.of = {e}, !.actor = e.reviewer]]
    /\ UNCHANGED <<cycles, teams, present, entry>>

\* 'Only SUBMITTED reviews can be approved'
ApproveReviewEntry(c, a, e) ==
    /\ review[c] = NoReview
    /\ entry[e].status = "SUBMITTED"
    /\ review' = [review EXCEPT ![c] = [NoReview EXCEPT !.pc = "approve", !.of = {e}, !.actor = a]]
    /\ UNCHANGED <<cycles, teams, present, entry>>

\* The row the status is written to, whatever it is by now; the columns of an
\* approval stay when a late submission overwrites the status.
Written(c, row) ==
    IF review[c].pc = "submit"
    THEN [row EXCEPT !.status = "SUBMITTED", !.late = @ \/ review[c].stale]
    ELSE [row EXCEPT !.status = "APPROVED", !.approvedBy = review[c].actor]

WriteStatus(c) ==
    /\ review[c].pc \in {"submit", "approve"}
    /\ entry' = [e \in Entry |-> IF e \in review[c].of THEN Written(c, entry[e]) ELSE entry[e]]
    /\ review' = [d \in ReviewCalls |->
          IF d = c THEN NoReview
          ELSE [review[d] EXCEPT !.stale = @ \/ (review[d].pc = "submit" /\ review[d].of = review[c].of)]]
    /\ UNCHANGED <<cycles, teams, present>>

-----------------------------------------------------------------------------
\* TeamsService and UsersService, as far as reviews read them.

\* addMembers puts a user into a team, removeMember takes him out.
ChangeTeams(u, t) ==
    /\ \/ t \notin teams[u] /\ u \in present /\ teams' = [teams EXCEPT ![u] = @ \cup {t}]
       \/ t \in teams[u] /\ teams' = [teams EXCEPT ![u] = @ \ {t}]
    /\ review' = [c \in ReviewCalls |->
          IF review[c].pc \notin {"teams", "overlap"} THEN review[c]
          ELSE [review[c] EXCEPT
                  !.met = @ \/ \E e \in review[c].of : Share(teams', e.reviewer, e.reviewed),
                  !.moved = @ \cup {v \in {u} : \E e \in review[c].of : v \in {e.reviewer, e.reviewed}}]]
    /\ UNCHANGED <<cycles, present, entry>>

DeleteUser(u) ==
    /\ u \in present
    /\ present' = present \ {u}
    /\ UNCHANGED <<cycles, teams, entry, review>>

ReviewsNext ==
    \/ \E m \in Cycle : CreateReviewCycle(m)
    \/ \E c \in ReviewCalls :
          \/ GetLeadTeamIds(c) \/ FindOverlap(c) \/ InsertEntry(c) \/ WriteStatus(c)
          \/ \E e \in Entry :
                \/ CreateReviewEntry(c, e) \/ SubmitReviewEntry(c, e)
                \/ \E a \in Admin : ApproveReviewEntry(c, a, e)
    \/ \E u \in User : DeleteUser(u) \/ \E t \in Team : ChangeTeams(u, t)

ReviewsSpec == ReviewsInit /\ [][ReviewsNext]_reviewVars

-----------------------------------------------------------------------------
\* Properties

\* An approval stands: an entry that names its approver is APPROVED, except
\* where a submission that had read it DRAFT before another submitted it is
\* written last (submitReviewEntry reads the status, then writes it).
ApprovalStands ==
    \A e \in Entry :
        /\ entry[e].status = "APPROVED" => entry[e].approvedBy # Nobody
        /\ entry[e].approvedBy # Nobody => entry[e].status = "APPROVED" \/ entry[e].late

\* Whoever is about to review a user has shared a team with him at some time
\* since the request began; else both have changed teams while it was checked
\* (createReviewEntry reads the reviewer's teams, then the user's).
ReviewerSharedTeam ==
    \A c \in ReviewCalls : review[c].pc = "insert" =>
        review[c].met \/ \E e \in review[c].of : review[c].moved = {e.reviewer, e.reviewed}

\* Both: what the entries say of who wrote and who approved them
\* (createReviewEntry, submitReviewEntry, approveReviewEntry).
ReviewsStand == ApprovalStands /\ ReviewerSharedTeam
=============================================================================
