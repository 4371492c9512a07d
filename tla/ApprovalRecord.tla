--------------------------- MODULE ApprovalRecord ---------------------------
(***************************************************************************)
(* What the approval engine promises its callers, without its tables: one  *)
(* record per request, ABSENT, then PENDING, then decided by somebody else *)
(* than the requester.  A decision is written by a claim, which is staked  *)
(* while the record is PENDING; between the stake and the write the record *)
(* is not held, so the last claim staked on a PENDING record may replace a *)
(* decision written meanwhile.  Approvals implements this.                 *)
(***************************************************************************)
CONSTANTS Requests, Users, Claims, Requester, Nobody, NoClaim

VARIABLES record, claim

Verdict == {"APPROVED", "REJECTED"}

RInit ==
    /\ record = [r \in Requests |-> [status |-> "ABSENT", by |-> Nobody]]
    /\ claim = [c \in Claims |-> NoClaim]

Submit(r) ==
    /\ record[r].status = "ABSENT"
    /\ record' = [record EXCEPT ![r] = [status |-> "PENDING", by |-> Nobody]]
    /\ UNCHANGED claim

Stake(c, r, u, v) ==
    /\ claim[c] = NoClaim
    /\ record[r].status = "PENDING"
    /\ u # Requester[r]
    /\ claim' = [claim EXCEPT ![c] = [request |-> r, actor |-> u, verdict |-> v]]
    /\ UNCHANGED record

Resolve(c) ==
    /\ claim[c] # NoClaim
    /\ record' = [record EXCEPT ![claim[c].request] =
                      [status |-> claim[c].verdict, by |-> claim[c].actor]]
    /\ claim' = [claim EXCEPT ![c] = NoClaim]

Drop(c) ==
    /\ claim[c] # NoClaim
    /\ claim' = [claim EXCEPT ![c] = NoClaim]
    /\ UNCHANGED record

RNext ==
    \/ \E r \in Requests : Submit(r)
    \/ \E c \in Claims, r \in Requests, u \in Users, v \in Verdict : Stake(c, r, u, v)
    \/ \E c \in Claims : Resolve(c) \/ Drop(c)

RSpec == RInit /\ [][RNext]_<<record, claim>>
=============================================================================
