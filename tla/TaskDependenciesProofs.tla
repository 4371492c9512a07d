------------------------ MODULE TaskDependenciesProofs ------------------------
(***************************************************************************)
(* Theorems about TaskDependencies, for any set of tasks and any number of *)
(* concurrent calls.                                                       *)
(*                                                                         *)
(* The argument needs no induction over paths.  A walk keeps what it has   *)
(* visited closed under dependsOn, up to what is still on its stack        *)
(* (Walked); when the stack is empty the visited tasks are closed, hold    *)
(* the far end of the new row and not its near end, and adding a row that  *)
(* leads into such a set closes no cycle (ClosedInsert).                   *)
(***************************************************************************)
EXTENDS TaskDependencies, Reviews, Projects, FiniteSetTheorems, TLAPS

\* What a walk knows as long as no row is inserted beside it.
Walked ==
    \A c \in Calls : call[c].alone =>
        \A edge \in call[c].edge :
            /\ edge[1] \notin call[c].visited
            /\ edge[2] \in call[c].visited \cup call[c].stack
            /\ \A t \in call[c].visited, d \in Tasks :
                  <<t, d>> \in dependsOn => d \in call[c].visited \cup call[c].stack

\* A call inserts at most one row.
OneRow == \A c \in Calls : \A e, f \in call[c].edge : e = f

-----------------------------------------------------------------------------
LEMMA IdleTyped == Idle \in CallRecord
  BY DEF Idle, CallRecord

LEMMA InitTypeOK == Init => TypeOK
  BY IdleTyped DEF Init, TypeOK

LEMMA NextTypeOK == TypeOK /\ [Next]_vars => TypeOK'
<1> SUFFICES ASSUME TypeOK, [Next]_vars PROVE TypeOK'
  OBVIOUS
<1>1. ASSUME NEW c \in Calls, NEW t \in Tasks, NEW d \in Tasks, CreateDependency(c, t, d)
      PROVE  TypeOK'
  <2>1. [Idle EXCEPT !.edge = {<<t, d>>}, !.stack = {d}] \in CallRecord
    <3>1. {<<t, d>>} \in SUBSET (Tasks \X Tasks) /\ {d} \in SUBSET Tasks
      OBVIOUS
    <3>2. ASSUME NEW e \in SUBSET (Tasks \X Tasks), NEW s \in SUBSET Tasks
          PROVE  [Idle EXCEPT !.edge = e, !.stack = s] \in CallRecord
      BY DEF Idle, CallRecord
    <3> QED BY <3>1, <3>2
  <2> QED BY <1>1, <2>1 DEF CreateDependency, TypeOK
<1>2. ASSUME NEW c \in Calls, Walk(c) PROVE TypeOK'
  <2>1. call[c] \in CallRecord
    BY DEF TypeOK
  <2>2. PICK edge \in call[c].edge, t \in call[c].stack :
           /\ \/ t = edge[1] /\ Return(c)
              \/ call' = [call EXCEPT
                   ![c].visited = @ \cup {t},
                   ![c].stack = (@ \ {t}) \cup Pushed(t, call[c].visited \cup {t})]
           /\ UNCHANGED dependsOn
    BY <1>2 DEF Walk
  <2>3. t \in Tasks
    BY <2>1 DEF CallRecord
  <2>4. Pushed(t, call[c].visited \cup {t}) \subseteq Tasks
    BY DEF Pushed
  <2>5. [call[c] EXCEPT
           !.visited = @ \cup {t},
           !.stack = (@ \ {t}) \cup Pushed(t, call[c].visited \cup {t})] \in CallRecord
    BY <2>1, <2>3, <2>4 DEF CallRecord
  <2>6. CASE Return(c)
    BY <2>2, <2>6, IdleTyped DEF Return, TypeOK
  <2>7. CASE call' = [call EXCEPT
                  ![c].visited = @ \cup {t},
                  ![c].stack = (@ \ {t}) \cup Pushed(t, call[c].visited \cup {t})]
    <3>1. call' = [call EXCEPT ![c] = [call[c] EXCEPT
                  !.visited = @ \cup {t},
                  !.stack = (@ \ {t}) \cup Pushed(t, call[c].visited \cup {t})]]
      BY <2>7
    <3> QED BY <2>2, <2>5, <3>1 DEF TypeOK
  <2> QED BY <2>2, <2>6, <2>7
<1>3. ASSUME NEW c \in Calls, InsertDependency(c) PROVE TypeOK'
  <2>1. call[c].edge \subseteq Tasks \X Tasks
    BY DEF TypeOK, CallRecord
  <2>2. ASSUME NEW d \in Calls
        PROVE  [call[d] EXCEPT !.alone = FALSE] \in CallRecord
    <3>1. call[d] \in CallRecord
      BY DEF TypeOK
    <3> QED BY <3>1 DEF CallRecord
  <2>3. call' \in [Calls -> CallRecord]
    <3>1. CASE Return(c)
      BY <3>1, IdleTyped DEF Return, TypeOK
    <3>2. CASE call' = [d \in Calls |-> IF d = c \/ call[d].edge = {} THEN Idle
                                      ELSE [call[d] EXCEPT !.alone = FALSE]]
      BY <3>2, <2>2, IdleTyped
    <3> QED BY <1>3, <3>1, <3>2 DEF InsertDependency
  <2> QED BY <1>3, <2>1, <2>3 DEF InsertDependency, TypeOK
<1>4. ASSUME NEW edge, DeleteDependency(edge) PROVE TypeOK'
  BY <1>4 DEF DeleteDependency, TypeOK
<1>5. CASE UNCHANGED vars
  BY <1>5 DEF vars, TypeOK
<1> QED BY <1>1, <1>2, <1>3, <1>4, <1>5 DEF Next, CallStep

\* Dependencies join tasks, and a walk visits nothing but tasks.
THEOREM TypeCorrect == Spec => []TypeOK
  BY InitTypeOK, NextTypeOK, PTL DEF Spec

-----------------------------------------------------------------------------
\* Deleting rows closes no cycle.
LEMMA FewerRows ==
  ASSUME Acyclic, dependsOn' \subseteq dependsOn
  PROVE  Acyclic'
  BY DEF Acyclic

\* Adding a row from outside a closed set into it closes no cycle: in a set in
\* which each task waits for another, either the part inside the closed set or,
\* if there is none, the whole would have done so without the row.
LEMMA ClosedInsert ==
  ASSUME Acyclic, NEW a \in Tasks, NEW b \in Tasks, NEW V \in SUBSET Tasks,
         a \notin V, b \in V,
         \A t \in V, d \in Tasks : <<t, d>> \in dependsOn => d \in V,
         dependsOn' = dependsOn \cup {<<a, b>>}
  PROVE  Acyclic'
<1> SUFFICES ASSUME NEW S \in SUBSET Tasks, S # {},
                    \A t \in S : \E d \in S : <<t, d>> \in dependsOn'
             PROVE  FALSE
  BY DEF Acyclic
<1>1. CASE S \cap V = {}
  <2>1. \A t \in S : \E d \in S : <<t, d>> \in dependsOn
    BY <1>1
  <2> QED BY <2>1 DEF Acyclic
<1>2. CASE S \cap V # {}
  <2>1. ASSUME NEW t \in S \cap V PROVE \E d \in S \cap V : <<t, d>> \in dependsOn
    <3>1. PICK d \in S : <<t, d>> \in dependsOn'
      OBVIOUS
    <3>2. <<t, d>> \in dependsOn
      BY <3>1
    <3>3. d \in V
      BY <3>2
    <3> QED BY <3>2, <3>3
  <2>2. S \cap V \in SUBSET Tasks
    OBVIOUS
  <2> QED BY <1>2, <2>1, <2>2 DEF Acyclic
<1> QED BY <1>1, <1>2

-----------------------------------------------------------------------------
WInv == TypeOK /\ Walked /\ OneRow

LEMMA ReturnWalked ==
  ASSUME WInv, NEW c \in Calls, Return(c), dependsOn' = dependsOn
  PROVE  Walked' /\ OneRow'
<1>1. /\ \A d \in Calls \ {c} : call'[d] = call[d]
      /\ call'[c].edge = {}
  BY DEF Return, Idle, WInv, TypeOK
<1> QED BY <1>1 DEF WInv, Walked, OneRow

LEMMA WalkWalked ==
  ASSUME WInv, NEW c \in Calls, Walk(c)
  PROVE  Walked' /\ OneRow'
<1>1. PICK edge \in call[c].edge, t \in call[c].stack :
         /\ \/ t = edge[1] /\ Return(c)
            \/ /\ t # edge[1]
               /\ call' = [call EXCEPT
                    ![c].visited = @ \cup {t},
                    ![c].stack = (@ \ {t}) \cup Pushed(t, call[c].visited \cup {t})]
         /\ UNCHANGED dependsOn
  BY DEF Walk
<1>2. CASE Return(c)
  BY <1>1, <1>2, ReturnWalked
<1>3. CASE t # edge[1] /\ call' = [call EXCEPT
                ![c].visited = @ \cup {t},
                ![c].stack = (@ \ {t}) \cup Pushed(t, call[c].visited \cup {t})]
  <2>1. /\ \A d \in Calls \ {c} : call'[d] = call[d]
        /\ call'[c].edge = call[c].edge /\ call'[c].alone = call[c].alone
        /\ call'[c].visited = call[c].visited \cup {t}
        /\ call'[c].stack = (call[c].stack \ {t}) \cup Pushed(t, call[c].visited \cup {t})
    BY <1>3 DEF WInv, TypeOK, CallRecord
  <2>2. OneRow'
    BY <2>1 DEF WInv, OneRow
  <2>3. \A e \in call[c].edge : e = edge
    BY DEF WInv, OneRow
  <2>4. ASSUME call[c].alone
        PROVE  \A u \in call'[c].visited, d \in Tasks :
                  <<u, d>> \in dependsOn' => d \in call'[c].visited \cup call'[c].stack
    BY <1>1, <2>1, <2>4 DEF Pushed, WInv, Walked
  <2>5. ASSUME call[c].alone
        PROVE  /\ edge[1] \notin call'[c].visited
               /\ edge[2] \in call'[c].visited \cup call'[c].stack
    BY <1>3, <2>1, <2>5 DEF WInv, Walked
  <2>6. Walked'
    BY <1>1, <2>1, <2>3, <2>4, <2>5 DEF WInv, Walked
  <2> QED BY <2>2, <2>6
<1> QED BY <1>1, <1>2, <1>3

LEMMA NextWalked == WInv /\ [Next]_vars => WInv'
<1> SUFFICES ASSUME WInv, [Next]_vars PROVE Walked' /\ OneRow'
  BY NextTypeOK DEF WInv
<1>1. ASSUME NEW c \in Calls, NEW t \in Tasks, NEW d \in Tasks, CreateDependency(c, t, d)
      PROVE  Walked' /\ OneRow'
  <2>1. /\ \A o \in Calls \ {c} : call'[o] = call[o]
        /\ call'[c].edge = {<<t, d>>} /\ call'[c].stack = {d}
        /\ call'[c].visited = {}
        /\ UNCHANGED dependsOn
    BY <1>1 DEF CreateDependency, Idle, WInv, TypeOK
  <2> QED BY <2>1 DEF WInv, Walked, OneRow
<1>2. ASSUME NEW c \in Calls, InsertDependency(c)
      PROVE  Walked' /\ OneRow'
  <2> SUFFICES ASSUME dependsOn' = dependsOn \cup call[c].edge,
                      call' = [d \in Calls |-> IF d = c \/ call[d].edge = {} THEN Idle
                                               ELSE [call[d] EXCEPT !.alone = FALSE]]
               PROVE  Walked' /\ OneRow'
    BY <1>2, ReturnWalked DEF InsertDependency
  <2>1. ASSUME NEW d \in Calls
        PROVE  call'[d].edge = {} \/ (~call'[d].alone /\ call'[d].edge = call[d].edge)
    <3>1. call[d] \in CallRecord
      BY DEF WInv, TypeOK
    <3>2. call'[d] = Idle \/ call'[d] = [call[d] EXCEPT !.alone = FALSE]
      OBVIOUS
    <3> QED BY <3>1, <3>2 DEF Idle, CallRecord
  <2> QED BY <2>1 DEF WInv, Walked, OneRow
<1>3. ASSUME NEW edge, DeleteDependency(edge)
      PROVE  Walked' /\ OneRow'
  BY <1>3 DEF DeleteDependency, WInv, Walked, OneRow
<1>4. CASE UNCHANGED vars
  BY <1>4 DEF vars, WInv, Walked, OneRow
<1> QED BY <1>1, <1>2, <1>3, <1>4, WalkWalked DEF Next, CallStep

\* The step that could close a cycle is an insertion by a call that was alone,
\* and its walk has shown that the row closes none.
LEMMA AloneClosesNoCycle ==
  ASSUME WInv, Acyclic, NEW c \in Calls, InsertDependency(c), call[c].alone
  PROVE  Acyclic'
<1>1. call[c] \in CallRecord
  BY DEF WInv, TypeOK
<1>2. PICK edge \in call[c].edge : edge \in Tasks \X Tasks
  BY <1>1 DEF InsertDependency, CallRecord
<1>3. PICK a \in Tasks, b \in Tasks : edge = <<a, b>>
  BY <1>2
<1>4. call[c].edge = {<<a, b>>}
  BY <1>2, <1>3 DEF WInv, OneRow
<1>5. dependsOn' = dependsOn \cup {<<a, b>>}
  BY <1>4 DEF InsertDependency
<1>6. /\ a \notin call[c].visited /\ b \in call[c].visited
      /\ \A t \in call[c].visited, d \in Tasks :
            <<t, d>> \in dependsOn => d \in call[c].visited
  BY <1>2, <1>3 DEF WInv, Walked, InsertDependency
<1>7. call[c].visited \in SUBSET Tasks
  BY <1>1 DEF CallRecord
<1> QED BY <1>5, <1>6, <1>7, ClosedInsert

\* Dependencies become circular only by a call that overlapped another insertion.
THEOREM CyclesNeedOverlap == Spec => CycleOnlyByOverlap
<1>1. Init => WInv
  BY InitTypeOK DEF WInv, Init, Idle, Walked, OneRow
<1>2. WInv /\ [Next]_vars =>
         [Acyclic /\ ~Acyclic' =>
             \E c \in Calls : call[c] # Idle /\ ~call[c].alone /\ call'[c] = Idle]_vars
  <2> SUFFICES ASSUME WInv, Next, Acyclic, ~Acyclic'
               PROVE  \E c \in Calls : call[c] # Idle /\ ~call[c].alone /\ call'[c] = Idle
    OBVIOUS
  <2>1. PICK c \in Calls : InsertDependency(c)
    <3>1. ~(dependsOn' \subseteq dependsOn)
      BY FewerRows
    <3>2. \A c \in Calls : Walk(c) => dependsOn' = dependsOn
      BY DEF Walk
    <3> QED BY <3>1, <3>2 DEF Next, CallStep, CreateDependency, DeleteDependency
  <2>2. ~call[c].alone
    BY <2>1, AloneClosesNoCycle
  <2>3. call[c] # Idle
    BY <2>1 DEF InsertDependency, Idle
  <2>4. call'[c] = Idle
    <3>1. CASE Return(c)
      BY <3>1 DEF Return, WInv, TypeOK
    <3>2. CASE call' = [d \in Calls |-> IF d = c \/ call[d].edge = {} THEN Idle
                                      ELSE [call[d] EXCEPT !.alone = FALSE]]
      BY <3>2
    <3> QED BY <2>1, <3>1, <3>2 DEF InsertDependency
  <2> QED BY <2>2, <2>3, <2>4
<1> QED BY <1>1, <1>2, NextWalked, PTL DEF Spec, CycleOnlyByOverlap

-----------------------------------------------------------------------------
\* Reviews.  A submission that has seen no other write finds the draft it has read
\* (Draft); the two sets of teams a creation compares, read one after the other,
\* were once those of both at the same time, or both have changed (Compared).

\* What a request is about, and who makes it.
About ==
    \A c \in ReviewCalls : review[c].pc # "idle" =>
        \E e \in Entry :
            /\ review[c].of = {e}
            /\ review[c].pc \in {"teams", "overlap", "insert"} => review[c].actor = e.reviewer
            /\ review[c].pc = "approve" => review[c].actor \in Admin

\* Until a submission has seen the entry change, it is the draft it read.
Draft ==
    /\ \A e \in Entry :
          /\ entry[e].status = "NONE" => entry[e] = Absent
          /\ entry[e].status = "DRAFT" => entry[e].approvedBy = Nobody
    /\ \A c \in ReviewCalls, e \in Entry :
          review[c].pc = "submit" /\ ~review[c].stale /\ review[c].of = {e} =>
              entry[e].status = "DRAFT"

\* What the request has read of the teams is what they are, or it has seen them change.
Compared ==
    \A c \in ReviewCalls, e \in Entry :
        /\ review[c].of = {e} /\ review[c].pc \in {"teams", "overlap"} =>
              /\ Share(teams, e.reviewer, e.reviewed) => review[c].met
              /\ review[c].moved \subseteq {e.reviewer, e.reviewed}
        /\ review[c].of = {e} /\ review[c].pc = "overlap" =>
              /\ e.reviewer \in review[c].moved \/ review[c].teams = teams[e.reviewer]
              /\ \/ review[c].met
                 \/ e.reviewed \in review[c].moved
                 \/ ~Overlaps(review[c].teams, e.reviewed)

ReviewsInv == ReviewsTypeOK /\ About /\ Draft /\ ApprovalStands /\ Compared /\ ReviewerSharedTeam

LEMMA EntryParts == \A e \in Entry : /\ e.reviewer \in User /\ e.reviewed \in User
                                     /\ {e} \in {{}} \cup {{f} : f \in Entry}
BY DEF Entry, User

LEMMA NoReviewTyped == NoReview \in ReviewRecord
BY DEF NoReview, ReviewRecord

LEMMA ReviewsInitInv == ReviewsInit => ReviewsInv
<1> SUFFICES ASSUME ReviewsInit PROVE ReviewsInv
  OBVIOUS
<1> USE NoReviewTyped DEF ReviewsInit
<1>1. ReviewsTypeOK
  BY DEF ReviewsTypeOK, Absent
<1>2. About /\ Draft /\ ApprovalStands /\ Compared /\ ReviewerSharedTeam
  BY DEF About, Draft, ApprovalStands, Compared, ReviewerSharedTeam, NoReview, Absent
<1> QED BY <1>1, <1>2 DEF ReviewsInv

\* A request of its own changes nothing about the others.
LEMMA OthersUnchanged ==
    ASSUME NEW c \in ReviewCalls, NEW r, review \in [ReviewCalls -> ReviewRecord],
           review' = [review EXCEPT ![c] = r]
    PROVE  review'[c] = r /\ \A d \in ReviewCalls : d # c => review'[d] = review[d]
OBVIOUS

LEMMA ReviewsStepInv == ReviewsInv /\ [ReviewsNext]_reviewVars => ReviewsInv'
<1> SUFFICES ASSUME ReviewsInv, [ReviewsNext]_reviewVars PROVE ReviewsInv'
  OBVIOUS
<1> USE DEF ReviewsInv
<1>0. review \in [ReviewCalls -> ReviewRecord]
  BY DEF ReviewsTypeOK
\* A request that ends.
<1>a. ASSUME NEW c \in ReviewCalls, EndReview(c), UNCHANGED <<cycles, teams, present, entry>> PROVE ReviewsInv'
  <2>1. review'[c] = NoReview /\ \A d \in ReviewCalls : d # c => review'[d] = review[d]
    BY <1>a, <1>0, OthersUnchanged DEF EndReview
  <2>2. ReviewsTypeOK'
    BY <1>a, NoReviewTyped DEF ReviewsTypeOK, EndReview
  <2>3. NoReview.pc = "idle"
    BY DEF NoReview
  <2>4. About' /\ Draft' /\ ApprovalStands'
    BY <1>a, <2>1, <2>3 DEF About, Draft, ApprovalStands
  <2>5. Compared'
    BY <1>a, <2>1, <2>3 DEF Compared, Share, Overlaps
  <2>6. ReviewerSharedTeam'
    BY <1>a, <2>1, <2>3 DEF ReviewerSharedTeam
  <2> QED BY <2>2, <2>4, <2>5, <2>6
<1>1. ASSUME NEW m \in Cycle, CreateReviewCycle(m) PROVE ReviewsInv'
  BY <1>1 DEF CreateReviewCycle, ReviewsTypeOK, About, Draft, ApprovalStands, Compared, Share, Overlaps, ReviewerSharedTeam
<1>2. ASSUME NEW c \in ReviewCalls, GetLeadTeamIds(c) PROVE ReviewsInv'
  <2>1. CASE EndReview(c)
    BY <1>2, <2>1, <1>a DEF GetLeadTeamIds
  <2>2. CASE ~EndReview(c)
    <3> DEFINE r == [review[c] EXCEPT !.pc = "overlap", !.teams = teams[review[c].actor]]
    <3>1. review' = [review EXCEPT ![c] = r]
      BY <1>2, <2>2 DEF GetLeadTeamIds
    <3>2. review'[c] = r /\ \A d \in ReviewCalls : d # c => review'[d] = review[d]
      BY <3>1, <1>0, OthersUnchanged
    <3> PICK e \in Entry : review[c].of = {e} /\ review[c].actor = e.reviewer
      BY <1>2 DEF GetLeadTeamIds, About
    <3>3. review[c] \in ReviewRecord
      BY <1>0
    <3>4. /\ r \in ReviewRecord /\ r.pc = "overlap" /\ r.of = {e} /\ r.actor = e.reviewer
          /\ r.teams = teams[e.reviewer] /\ r.met = review[c].met /\ r.moved = review[c].moved
      BY <3>3, EntryParts DEF ReviewRecord, ReviewsTypeOK
    <3> HIDE DEF r
    <3>5. ReviewsTypeOK'
      BY <1>2, <3>1, <3>4 DEF GetLeadTeamIds, ReviewsTypeOK
    <3>6. About'
      BY <3>2, <3>4 DEF About
    <3>7. Draft' /\ ApprovalStands'
      BY <1>2, <3>2, <3>4 DEF GetLeadTeamIds, Draft, ApprovalStands
    <3>8. Compared'
      BY <1>2, <3>2, <3>4 DEF GetLeadTeamIds, Compared, Share, Overlaps
    <3>9. ReviewerSharedTeam'
      BY <3>2, <3>4 DEF ReviewerSharedTeam
    <3> QED BY <3>5, <3>6, <3>7, <3>8, <3>9
  <2> QED BY <2>1, <2>2
<1>3. ASSUME NEW c \in ReviewCalls, FindOverlap(c) PROVE ReviewsInv'
  <2> PICK e \in Entry : review[c].of = {e} /\ review[c].actor = e.reviewer
    BY <1>3 DEF FindOverlap, About
  <2>1. CASE EndReview(c)
    BY <1>3, <2>1, <1>a DEF FindOverlap
  <2>2. CASE ~EndReview(c)
    <3> DEFINE r == [review[c] EXCEPT !.pc = "insert"]
    <3>1. review' = [review EXCEPT ![c] = r] /\ Overlaps(review[c].teams, e.reviewed)
      BY <1>3, <2>2 DEF FindOverlap
    <3>2. review'[c] = r /\ \A d \in ReviewCalls : d # c => review'[d] = review[d]
      BY <3>1, <1>0, OthersUnchanged
    <3>3. review[c] \in ReviewRecord
      BY <1>0
    <3>4. /\ r \in ReviewRecord /\ r.pc = "insert" /\ r.of = {e} /\ r.actor = e.reviewer
          /\ r.met = review[c].met /\ r.moved = review[c].moved
      BY <3>3, EntryParts DEF ReviewRecord
    <3> HIDE DEF r
    <3>5. ReviewsTypeOK'
      BY <1>3, <3>1, <3>4 DEF FindOverlap, ReviewsTypeOK
    <3>6. About'
      BY <3>2, <3>4 DEF About
    <3>7. Draft' /\ ApprovalStands'
      BY <1>3, <3>2, <3>4 DEF FindOverlap, Draft, ApprovalStands
    <3>8. Compared'
      BY <1>3, <3>2, <3>4 DEF FindOverlap, Compared, Share, Overlaps
    <3>9. r.met \/ r.moved = {e.reviewer, e.reviewed}
      <4> SUFFICES ASSUME ~review[c].met PROVE review[c].moved = {e.reviewer, e.reviewed}
        BY <3>4
      <4>1. e.reviewed \in review[c].moved /\ review[c].moved \subseteq {e.reviewer, e.reviewed}
        BY <1>3, <3>1 DEF FindOverlap, Compared
      <4>2. ~Share(teams, e.reviewer, e.reviewed)
        BY <1>3 DEF FindOverlap, Compared
      <4>3. review[c].teams # teams[e.reviewer]
        BY <4>2, <3>1 DEF Share, Overlaps
      <4>4. e.reviewer \in review[c].moved
        BY <1>3, <4>3 DEF FindOverlap, Compared
      <4> QED BY <4>1, <4>4
    <3>10. ReviewerSharedTeam'
      BY <3>2, <3>4, <3>9 DEF ReviewerSharedTeam
    <3> QED BY <3>5, <3>6, <3>7, <3>8, <3>10
  <2> QED BY <2>1, <2>2
<1>4. ASSUME NEW c \in ReviewCalls, InsertEntry(c) PROVE ReviewsInv'
  <2>1. review'[c] = NoReview /\ \A d \in ReviewCalls : d # c => review'[d] = review[d]
    BY <1>4, <1>0, OthersUnchanged DEF InsertEntry, EndReview
  <2>2. NoReview.pc = "idle" /\ [Absent EXCEPT !.status = "DRAFT"].status = "DRAFT"
        /\ [Absent EXCEPT !.status = "DRAFT"].approvedBy = Nobody /\ Absent.status = "NONE"
        /\ [Absent EXCEPT !.status = "DRAFT"].late = FALSE
    BY DEF NoReview, Absent
  <2>3. [Absent EXCEPT !.status = "DRAFT"] \in [status: {"NONE", "DRAFT", "SUBMITTED", "APPROVED"},
                            approvedBy: Admin \cup {Nobody}, late: BOOLEAN]
    BY DEF Absent
  <2>4. \A f \in Entry : entry'[f] = entry[f] \/ (entry[f] = Absent /\ entry'[f] = [Absent EXCEPT !.status = "DRAFT"])
    BY <1>4 DEF InsertEntry
  <2>5. ReviewsTypeOK'
    BY <1>4, <2>3, NoReviewTyped DEF InsertEntry, EndReview, ReviewsTypeOK
  <2>6. About' /\ ReviewerSharedTeam'
    BY <2>1, <2>2 DEF About, ReviewerSharedTeam
  <2>7. Compared'
    BY <1>4, <2>1, <2>2 DEF InsertEntry, Compared, Share, Overlaps
  <2>8. Draft'
    BY <2>1, <2>2, <2>4 DEF Draft
  <2>9. ApprovalStands'
    BY <2>2, <2>4 DEF ApprovalStands
  <2> QED BY <2>5, <2>6, <2>7, <2>8, <2>9
<1>5. ASSUME NEW c \in ReviewCalls, WriteStatus(c) PROVE ReviewsInv'
  <2> PICK e \in Entry : review[c].of = {e} /\ (review[c].pc = "approve" => review[c].actor \in Admin)
    BY <1>5 DEF WriteStatus, About
  <2> DEFINE EntryRow == [status: {"NONE", "DRAFT", "SUBMITTED", "APPROVED"},
                     approvedBy: Admin \cup {Nobody}, late: BOOLEAN]
  <2>1. review[c] \in ReviewRecord /\ entry[e] \in EntryRow /\ review[c].stale \in BOOLEAN
    BY <1>0 DEF ReviewsTypeOK, ReviewRecord
  <2>2. Written(c, entry[e]) \in EntryRow
    BY <1>5, <2>1 DEF Written, WriteStatus
  <2>3. entry'[e] = Written(c, entry[e]) /\ \A f \in Entry : f # e => entry'[f] = entry[f]
    BY <1>5 DEF WriteStatus
  <2>4. \A d \in ReviewCalls : d # c =>
           /\ review'[d] \in ReviewRecord
           /\ review'[d].pc = review[d].pc /\ review'[d].of = review[d].of
           /\ review'[d].actor = review[d].actor /\ review'[d].teams = review[d].teams
           /\ review'[d].met = review[d].met /\ review'[d].moved = review[d].moved
           /\ review'[d].stale = (review[d].stale \/ (review[d].pc = "submit" /\ review[d].of = review[c].of))
    <3> TAKE d \in ReviewCalls
    <3> HAVE d # c
    <3>1. review[d] \in ReviewRecord
      BY <1>0
    <3>2. review'[d] = [review[d] EXCEPT !.stale = @ \/ (review[d].pc = "submit" /\ review[d].of = review[c].of)]
      BY <1>5 DEF WriteStatus
    <3>3. review[d].stale \in BOOLEAN
      BY <3>1 DEF ReviewRecord
    <3>4. (review[d].stale \/ (review[d].pc = "submit" /\ review[d].of = review[c].of)) \in BOOLEAN
      OBVIOUS
    <3> QED BY <3>1, <3>2, <3>3, <3>4 DEF ReviewRecord
  <2>5. review'[c] = NoReview /\ NoReview.pc = "idle"
    BY <1>5 DEF WriteStatus, NoReview
  <2>6. ReviewsTypeOK'
    <3>1. review' \in [ReviewCalls -> ReviewRecord]
      <4>1. \A d \in ReviewCalls : review'[d] \in ReviewRecord
        BY <2>4, <2>5, NoReviewTyped
      <4>2. review' = [d \in ReviewCalls |-> review'[d]]
        BY <1>5 DEF WriteStatus
      <4> QED BY <4>1, <4>2
    <3>2. entry' \in [Entry -> EntryRow]
      <4>1. \A f \in Entry : entry'[f] \in EntryRow
        BY <2>2, <2>3 DEF ReviewsTypeOK
      <4>2. entry' = [f \in Entry |-> entry'[f]]
        BY <1>5 DEF WriteStatus
      <4> QED BY <4>1, <4>2
    <3> QED BY <1>5, <3>1, <3>2 DEF WriteStatus, ReviewsTypeOK
  <2>7. About' /\ ReviewerSharedTeam'
    BY <2>4, <2>5 DEF About, ReviewerSharedTeam
  <2>8. Compared'
    BY <1>5, <2>4, <2>5 DEF WriteStatus, Compared, Share, Overlaps
  <2>9. /\ Written(c, entry[e]).status \in {"SUBMITTED", "APPROVED"}
        /\ review[c].pc = "submit" => /\ Written(c, entry[e]).status = "SUBMITTED"
                                      /\ Written(c, entry[e]).approvedBy = entry[e].approvedBy
                                      /\ Written(c, entry[e]).late = (entry[e].late \/ review[c].stale)
        /\ review[c].pc = "approve" => /\ Written(c, entry[e]).status = "APPROVED"
                                       /\ Written(c, entry[e]).approvedBy = review[c].actor
    BY <1>5, <2>1 DEF Written, WriteStatus
  <2>10. Draft'
    <3>1. \A f \in Entry : /\ entry'[f].status = "NONE" => entry'[f] = Absent
                           /\ entry'[f].status = "DRAFT" => entry'[f].approvedBy = Nobody
      BY <2>3, <2>9 DEF Draft
    <3>2. \A d \in ReviewCalls, f \in Entry :
             review'[d].pc = "submit" /\ ~review'[d].stale /\ review'[d].of = {f} =>
                 entry'[f].status = "DRAFT"
      <4> TAKE d \in ReviewCalls, f \in Entry
      <4> HAVE review'[d].pc = "submit" /\ ~review'[d].stale /\ review'[d].of = {f}
      <4>1. d # c
        BY <2>5
      <4>2. review[d].pc = "submit" /\ ~review[d].stale /\ review[d].of = {f} /\ review[d].of # review[c].of
        BY <2>4, <4>1
      <4>3. f # e
        BY <4>2
      <4> QED BY <4>2, <4>3, <2>3 DEF Draft
    <3> QED BY <3>1, <3>2 DEF Draft
  <2>11. ApprovalStands'
    <3> SUFFICES ASSUME NEW f \in Entry
                 PROVE /\ entry'[f].status = "APPROVED" => entry'[f].approvedBy # Nobody
                       /\ entry'[f].approvedBy # Nobody => entry'[f].status = "APPROVED" \/ entry'[f].late
      BY DEF ApprovalStands
    <3>1. CASE f # e
      BY <3>1, <2>3 DEF ApprovalStands
    <3>2. CASE f = e /\ review[c].pc = "approve"
      BY <3>2, <2>3, <2>9, ReviewsAssumption
    <3>3. CASE f = e /\ review[c].pc = "submit"
      <4>1. CASE review[c].stale
        BY <3>3, <4>1, <2>3, <2>9
      <4>2. CASE ~review[c].stale
        <5>1. entry[e].status = "DRAFT" /\ entry[e].approvedBy = Nobody
          BY <3>3, <4>2 DEF Draft
        <5> QED BY <5>1, <3>3, <2>3, <2>9
      <4> QED BY <4>1, <4>2
    <3> QED BY <1>5, <3>1, <3>2, <3>3 DEF WriteStatus
  <2> QED BY <2>6, <2>7, <2>8, <2>10, <2>11
\* A request that begins.
<1>b. ASSUME NEW c \in ReviewCalls, NEW e \in Entry, NEW r \in ReviewRecord, review' = [review EXCEPT ![c] = r],
             UNCHANGED <<cycles, teams, present, entry>>, r.of = {e},
             \/ /\ r.pc = "teams" /\ r.actor = e.reviewer /\ r.moved = {}
                /\ r.met = Share(teams, e.reviewer, e.reviewed)
             \/ r.pc = "submit" /\ entry[e].status = "DRAFT"
             \/ r.pc = "approve" /\ r.actor \in Admin
      PROVE  ReviewsInv'
  <2>1. review'[c] = r /\ \A d \in ReviewCalls : d # c => review'[d] = review[d]
    BY <1>b, <1>0, OthersUnchanged
  <2>2. ReviewsTypeOK'
    BY <1>b DEF ReviewsTypeOK
  <2>3. About'
    BY <1>b, <2>1 DEF About
  <2>4. Draft' /\ ApprovalStands'
    BY <1>b, <2>1 DEF Draft, ApprovalStands
  <2>5. Compared'
    <3> SUFFICES ASSUME NEW d \in ReviewCalls, NEW f \in Entry, review'[d].of = {f}
                 PROVE /\ review'[d].pc \in {"teams", "overlap"} =>
                            /\ Share(teams, f.reviewer, f.reviewed) => review'[d].met
                            /\ review'[d].moved \subseteq {f.reviewer, f.reviewed}
                       /\ review'[d].pc = "overlap" =>
                            /\ f.reviewer \in review'[d].moved \/ review'[d].teams = teams[f.reviewer]
                            /\ \/ review'[d].met
                               \/ f.reviewed \in review'[d].moved
                               \/ ~Overlaps(review'[d].teams, f.reviewed)
      BY <1>b DEF Compared, Share, Overlaps
    <3>1. CASE d # c
      BY <3>1, <2>1 DEF Compared
    <3>2. CASE d = c
      BY <3>2, <2>1, <1>b
    <3> QED BY <3>1, <3>2
  <2>6. ReviewerSharedTeam'
    BY <1>b, <2>1 DEF ReviewerSharedTeam
  <2> QED BY <2>2, <2>3, <2>4, <2>5, <2>6
<1>6. ASSUME NEW c \in ReviewCalls, NEW e \in Entry, CreateReviewEntry(c, e) PROVE ReviewsInv'
  <2> DEFINE r == [NoReview EXCEPT !.pc = "teams", !.of = {e}, !.actor = e.reviewer,
                                   !.met = Share(teams, e.reviewer, e.reviewed)]
  <2>1. /\ r \in ReviewRecord /\ r.of = {e} /\ r.pc = "teams" /\ r.actor = e.reviewer /\ r.moved = {}
        /\ r.met = Share(teams, e.reviewer, e.reviewed)
    BY EntryParts DEF NoReview, ReviewRecord, Share
  <2>2. review' = [review EXCEPT ![c] = r] /\ UNCHANGED <<cycles, teams, present, entry>>
    BY <1>6 DEF CreateReviewEntry
  <2> HIDE DEF r
  <2> QED BY <2>1, <2>2, <1>b
<1>7. ASSUME NEW c \in ReviewCalls, NEW e \in Entry, SubmitReviewEntry(c, e) PROVE ReviewsInv'
  <2> DEFINE r == [NoReview EXCEPT !.pc = "submit", !.of = {e}, !.actor = e.reviewer]
  <2>1. /\ r \in ReviewRecord /\ r.of = {e} /\ r.pc = "submit"
    BY EntryParts DEF NoReview, ReviewRecord
  <2>2. review' = [review EXCEPT ![c] = r] /\ UNCHANGED <<cycles, teams, present, entry>> /\ entry[e].status = "DRAFT"
    BY <1>7 DEF SubmitReviewEntry, MaySubmit
  <2> HIDE DEF r
  <2> QED BY <2>1, <2>2, <1>b
<1>8. ASSUME NEW c \in ReviewCalls, NEW e \in Entry, NEW a \in Admin, ApproveReviewEntry(c, a, e) PROVE ReviewsInv'
  <2> DEFINE r == [NoReview EXCEPT !.pc = "approve", !.of = {e}, !.actor = a]
  <2>1. /\ r \in ReviewRecord /\ r.of = {e} /\ r.pc = "approve" /\ r.actor \in Admin
    BY EntryParts DEF NoReview, ReviewRecord, User
  <2>2. review' = [review EXCEPT ![c] = r] /\ UNCHANGED <<cycles, teams, present, entry>>
    BY <1>8 DEF ApproveReviewEntry
  <2> HIDE DEF r
  <2> QED BY <2>1, <2>2, <1>b
<1>9. ASSUME NEW u \in User, NEW t \in Team, ChangeTeams(u, t) PROVE ReviewsInv'
  <2>1. teams' \in [User -> SUBSET Team] /\ \A v \in User : v # u => teams'[v] = teams[v]
    BY <1>9 DEF ChangeTeams, ReviewsTypeOK
  <2> DEFINE Asks(d) == review[d].pc \in {"teams", "overlap"}
             r(d) == [review[d] EXCEPT
                  !.met = @ \/ \E e \in review[d].of : Share(teams', e.reviewer, e.reviewed),
                  !.moved = @ \cup {v \in {u} : \E e \in review[d].of : v \in {e.reviewer, e.reviewed}}]
  <2>2. review' = [d \in ReviewCalls |-> IF Asks(d) THEN r(d) ELSE review[d]]
        /\ UNCHANGED <<cycles, present, entry>>
    BY <1>9 DEF ChangeTeams
  <2>3. \A d \in ReviewCalls :
           /\ r(d) \in ReviewRecord
           /\ r(d).pc = review[d].pc /\ r(d).of = review[d].of /\ r(d).stale = review[d].stale
           /\ r(d).actor = review[d].actor /\ r(d).teams = review[d].teams
           /\ r(d).met = (review[d].met \/ \E e \in review[d].of : Share(teams', e.reviewer, e.reviewed))
           /\ r(d).moved = review[d].moved \cup {v \in {u} : \E e \in review[d].of : v \in {e.reviewer, e.reviewed}}
    <3> TAKE d \in ReviewCalls
    <3>1. review[d] \in ReviewRecord
      BY <1>0
    <3> QED BY <3>1 DEF ReviewRecord
  <2> HIDE DEF r
  <2>4. \A d \in ReviewCalls :
           /\ review'[d].pc = review[d].pc /\ review'[d].of = review[d].of /\ review'[d].stale = review[d].stale
           /\ review'[d].actor = review[d].actor /\ review'[d].teams = review[d].teams
           /\ ~Asks(d) => review'[d] = review[d]
    BY <2>2, <2>3
  <2>5. ReviewsTypeOK'
    BY <2>1, <2>2, <2>3 DEF ReviewsTypeOK
  <2>6. About' /\ Draft' /\ ApprovalStands'
    BY <2>2, <2>4 DEF About, Draft, ApprovalStands
  <2>7. ReviewerSharedTeam'
    BY <2>4 DEF ReviewerSharedTeam
  <2>8. Compared'
    <3> SUFFICES ASSUME NEW d \in ReviewCalls, NEW e \in Entry, review[d].of = {e}, Asks(d)
                 PROVE /\ Share(teams', e.reviewer, e.reviewed) => review'[d].met
                       /\ review'[d].moved \subseteq {e.reviewer, e.reviewed}
                       /\ review'[d].pc = "overlap" =>
                            /\ e.reviewer \in review'[d].moved \/ review'[d].teams = teams'[e.reviewer]
                            /\ \/ review'[d].met
                               \/ e.reviewed \in review'[d].moved
                               \/ ~(review'[d].teams \cap teams'[e.reviewed] # {})
      BY <2>4 DEF Compared, Share, Overlaps
    <3>1. /\ review'[d].met = (review[d].met \/ Share(teams', e.reviewer, e.reviewed))
          /\ review'[d].moved = review[d].moved \cup {v \in {u} : v \in {e.reviewer, e.reviewed}}
      BY <2>2, <2>3
    <3>2. review[d].met => review'[d].met
      BY <3>1
    <3>3. \A v \in {e.reviewer, e.reviewed} : v \in review'[d].moved \/ teams'[v] = teams[v]
      BY <3>1, <2>1, EntryParts
    <3>4. /\ review[d].moved \subseteq {e.reviewer, e.reviewed}
          /\ review[d].pc = "overlap" =>
              /\ e.reviewer \in review[d].moved \/ review[d].teams = teams[e.reviewer]
              /\ \/ review[d].met
                 \/ e.reviewed \in review[d].moved
                 \/ ~(review[d].teams \cap teams[e.reviewed] # {})
      BY DEF Compared, Overlaps
    <3>5. review'[d].teams = review[d].teams /\ review'[d].pc = review[d].pc
      BY <2>4
    <3>6. review[d].moved \subseteq review'[d].moved /\ review'[d].moved \subseteq {e.reviewer, e.reviewed}
      BY <3>1, <3>4
    <3> QED BY <3>1, <3>2, <3>3, <3>4, <3>5, <3>6
  <2> QED BY <2>5, <2>6, <2>7, <2>8
<1>10. ASSUME NEW u \in User, DeleteUser(u) PROVE ReviewsInv'
  BY <1>10 DEF DeleteUser, ReviewsTypeOK, About, Draft, ApprovalStands, Compared, Share, Overlaps, ReviewerSharedTeam
<1>11. CASE UNCHANGED reviewVars
  BY <1>11 DEF reviewVars, ReviewsTypeOK, About, Draft, ApprovalStands, Compared, Share, Overlaps, ReviewerSharedTeam
<1> QED
  BY <1>1, <1>2, <1>3, <1>4, <1>5, <1>6, <1>7, <1>8, <1>9, <1>10, <1>11 DEF ReviewsNext

\* An approval stands, except where a submission that had read the entry before
\* is written late, and whoever reviews a user has shared a team with him, unless
\* both have changed teams meanwhile (createReviewEntry, submitReviewEntry,
\* approveReviewEntry).
THEOREM ReviewsKeepStanding == ReviewsSpec => []ReviewsStand
<1>1. ReviewsInv => ReviewsStand
  BY DEF ReviewsInv, ReviewsStand
<1> QED BY <1>1, ReviewsInitInv, ReviewsStepInv, PTL DEF ReviewsSpec

-----------------------------------------------------------------------------
\* Projects.  A request under way was let in, and its row is its project's, or is
\* still to be created by nobody else (Founded, Reserved); so what it writes are
\* rows of a project it was let into (OnlyOf, HeldApart).

\* Operations that store a row of their own.
Creations == {"create milestone", "create status", "create workflow"}

\* What a request d is about is there; it was let in; and what it creates is not
\* there yet.
Based(d) ==
    /\ d.of \in Project /\ d.letIn
    /\ \/ d.op \in {"update project", "delete project", "add members"} /\ d.item = None
       \/ /\ d.op = "create milestone"
          /\ d.item \in Milestone /\ milestone[d.item] = NoMilestone
       \/ /\ d.op \in {"update milestone", "delete milestone"}
          /\ d.item \in Milestone /\ milestone[d.item].project \in Project
       \/ /\ d.op \in {"create status", "create workflow"}
          /\ d.item \in TableOf(d) /\ row[d.item] = NoRow
       \/ /\ d.op \in {"update status", "delete status"}
          /\ d.item \in Status /\ row[d.item].project = d.of

Founded == \A c \in ProjectCalls : request[c] # NoRequest => Based(request[c])

\* Nobody else is about what a request creates.
Reserved ==
    \A c, d \in ProjectCalls : c # d /\ request[c].op \in Creations =>
        request[d].item # request[c].item

\* Whatever exists belongs to a project.
Housed ==
    /\ \A m \in Milestone : milestone[m] = NoMilestone \/ milestone[m].project \in Project
    /\ \A r \in Row : row[r] = NoRow \/ row[r].project \in Project

\* OneDefault, without counting.
AloneDefault ==
    \A p \in Project, table \in {Status, Workflow} : \A r, s \in RowsOf(p, table) :
        row[r].default /\ row[s].default => r = s

ProjectsInv == ProjectsTypeOK /\ Founded /\ Reserved /\ Housed /\ AloneDefault

LEMMA Apart == /\ NoMilestone.project \notin Project /\ NoRow.project \notin Project
               /\ NoRequest.item = None /\ NoRequest.op = "none" /\ NoRequest.pc = "idle"
               /\ None \notin Milestone /\ None \notin Row /\ \A r \in Row : r \notin Milestone
               /\ Status \subseteq Row /\ Workflow \subseteq Row
               /\ ~NoMilestone.deleted /\ ~NoRow.default
BY ProjectsAssumption DEF NoMilestone, NoRow, NoRequest, Row

LEMMA ProjectsInitInv == ProjectsInit => ProjectsInv
<1> SUFFICES ASSUME ProjectsInit PROVE ProjectsInv
  OBVIOUS
<1> USE Apart DEF ProjectsInit
<1>1. ProjectsTypeOK
  BY DEF ProjectsTypeOK, NoProject, NoMilestone, NoRow, NoRequest, RequestRecord
<1>2. Founded /\ Reserved /\ Housed /\ AloneDefault
  BY DEF Founded, Reserved, Housed, AloneDefault, RowsOf, Creations
<1> QED BY <1>1, <1>2 DEF ProjectsInv

LEMMA OthersWait ==
    ASSUME ProjectsInv, NEW c \in ProjectCalls, NEW r, request' = [request EXCEPT ![c] = r]
    PROVE  request'[c] = r /\ \A d \in ProjectCalls : d # c => request'[d] = request[d]
BY DEF ProjectsInv, ProjectsTypeOK

LEMMA CreationItem ==
    ASSUME ProjectsInv, NEW c \in ProjectCalls, request[c].op \in Creations
    PROVE  /\ request[c] # NoRequest /\ request[c].item # None
           /\ \/ request[c].item \in Milestone /\ milestone[request[c].item] = NoMilestone
              \/ request[c].item \in Row /\ row[request[c].item] = NoRow
<1>1. request[c] # NoRequest
  BY Apart DEF Creations
<1> QED BY <1>1, Apart DEF ProjectsInv, Founded, Based, Creations, TableOf

\* A request that ends, and what it may have written.
LEMMA Ends ==
    ASSUME ProjectsInv, NEW c \in ProjectCalls, request[c] # NoRequest,
           request' = [request EXCEPT ![c] = NoRequest],
           \A m \in Milestone :
              \/ milestone'[m] = milestone[m]
              \/ /\ milestone'[m].project \in Project
                 /\ \/ milestone[m].project \in Project
                    \/ request[c].op \in Creations /\ m = request[c].item,
           \A r \in Row :
              \/ row'[r] = row[r]
              \/ /\ row'[r].project \in Project
                 /\ \/ row'[r].project = row[r].project
                    \/ request[c].op \in Creations /\ r = request[c].item
    PROVE  Founded' /\ Reserved' /\ Housed'
<1>1. request'[c] = NoRequest /\ \A d \in ProjectCalls : d # c => request'[d] = request[d]
  BY OthersWait
<1>2. Reserved'
  <2> SUFFICES ASSUME NEW a \in ProjectCalls, NEW b \in ProjectCalls, a # b, request'[a].op \in Creations
               PROVE request'[b].item # request'[a].item
    BY DEF Reserved
  <2>1. a # c /\ request'[a] = request[a]
    BY <1>1, Apart DEF Creations
  <2>2. CASE b = c
    <3>1. request[a].item # None
      BY <2>1, CreationItem
    <3> QED BY <2>1, <2>2, <3>1, <1>1, Apart
  <2>3. CASE b # c
    BY <2>1, <2>3, <1>1 DEF ProjectsInv, Reserved
  <2> QED BY <2>2, <2>3
<1>3. Housed'
  BY DEF ProjectsInv, Housed
<1>4. ASSUME NEW d \in ProjectCalls, d # c, request[d].op \in Creations PROVE request[d].item # request[c].item
  BY <1>4 DEF ProjectsInv, Reserved
<1>5. ASSUME NEW d \in ProjectCalls, d # c, request[c].op \in Creations PROVE request[d].item # request[c].item
  BY <1>5 DEF ProjectsInv, Reserved
<1>6. Founded'
  <2> SUFFICES ASSUME NEW d \in ProjectCalls, request'[d] # NoRequest
               PROVE Based(request[d])'
    BY DEF Founded
  <2>1. d # c /\ request'[d] = request[d] /\ request[d] # NoRequest
    BY <1>1
  <2> DEFINE e == request[d]
  <2>2. e.of \in Project /\ e.letIn
    BY <2>1 DEF ProjectsInv, Founded, Based
  <2>3. CASE e.op \in {"update project", "delete project", "add members"} /\ e.item = None
    BY <2>1, <2>2, <2>3 DEF Based
  <2>4. CASE e.op = "create milestone" /\ e.item \in Milestone /\ milestone[e.item] = NoMilestone
    <3>1. e.item # request[c].item
      BY <2>1, <2>4, <1>4 DEF Creations
    <3>2. milestone'[e.item] = NoMilestone
      BY <2>4, <3>1, Apart
    <3> QED BY <2>1, <2>2, <2>4, <3>2 DEF Based
  <2>5. CASE e.op \in {"update milestone", "delete milestone"} /\ e.item \in Milestone /\ milestone[e.item].project \in Project
    BY <2>1, <2>2, <2>5 DEF Based
  <2>6. CASE e.op \in {"create status", "create workflow"} /\ e.item \in TableOf(e) /\ row[e.item] = NoRow
    <3>0. e.item \in Row
      BY <2>6, Apart DEF TableOf
    <3>1. e.item # request[c].item
      BY <2>1, <2>6, <1>4 DEF Creations
    <3>2. row'[e.item] = NoRow
      BY <2>6, <3>0, <3>1, Apart
    <3> QED BY <2>1, <2>2, <2>6, <3>2 DEF Based, TableOf
  <2>7. CASE e.op \in {"update status", "delete status"} /\ e.item \in Status /\ row[e.item].project = e.of
    <3>1. row'[e.item].project = e.of
      BY <2>7, <2>1, <1>5, Apart
    <3> QED BY <2>1, <2>2, <2>7, <3>1 DEF Based
  <2> QED BY <2>1, <2>3, <2>4, <2>5, <2>6, <2>7 DEF ProjectsInv, Founded, Based
<1> QED BY <1>2, <1>3, <1>6

\* A request that goes on, or begins, and writes nothing.
LEMMA Goes ==
    ASSUME ProjectsInv, NEW c \in ProjectCalls, NEW r \in RequestRecord,
           request' = [request EXCEPT ![c] = r],
           UNCHANGED <<project, member, milestone, row, uses>>,
           \/ r = NoRequest
           \/ /\ request[c] # NoRequest
              /\ r.of = request[c].of /\ r.op = request[c].op /\ r.item = request[c].item /\ r.letIn
           \/ Based(r) /\ (r.op \in Creations => \A d \in ProjectCalls : request[d].item # r.item)
    PROVE  ProjectsInv' /\ DeletedIsLeft
<1>1. request'[c] = r /\ \A d \in ProjectCalls : d # c => request'[d] = request[d]
  BY OthersWait
<1>2. ProjectsTypeOK'
  BY DEF ProjectsInv, ProjectsTypeOK
<1>3. Housed' /\ AloneDefault'
  <2>1. Housed /\ AloneDefault /\ UNCHANGED <<milestone, row>>
    BY DEF ProjectsInv
  <2> QED BY ONLY <2>1 DEF Housed, AloneDefault, RowsOf
<1>4. Founded'
  <2>1. \A d \in ProjectCalls : d # c => request'[d] = request[d]
    BY <1>1
  <2>2. Founded /\ UNCHANGED <<milestone, row>> /\ request'[c] = r
    BY <1>1 DEF ProjectsInv
  <2>3. r = NoRequest \/ Based(r)
    <3>1. CASE /\ request[c] # NoRequest
               /\ r.of = request[c].of /\ r.op = request[c].op /\ r.item = request[c].item /\ r.letIn
      <4>1. Based(request[c])
        BY <3>1 DEF ProjectsInv, Founded
      <4>2. TableOf(r) = TableOf(request[c])
        BY <3>1 DEF TableOf
      <4> QED BY ONLY <3>1, <4>1, <4>2 DEF Based
    <3> QED BY <3>1
  <2>4. ASSUME NEW x PROVE Based(x)' = Based(x)
    BY <2>2 DEF Based, TableOf
  <2>5. \A d \in ProjectCalls : d # c /\ request[d] # NoRequest => Based(request[d])
    BY <2>2 DEF Founded
  <2>6. ASSUME NEW d \in ProjectCalls, request'[d] # NoRequest PROVE Based(request[d])'
    <3>1. PICK x : x = request'[d]
      OBVIOUS
    <3>2. Based(x)
      BY <2>1, <2>2, <2>3, <2>5, <2>6, <3>1
    <3>3. Based(x)'
      BY <2>4, <3>2
    <3> QED BY ONLY <3>1, <3>3 DEF Based, TableOf
  <2> QED BY <2>6 DEF Founded
<1>5. Reserved'
  <2> SUFFICES ASSUME NEW a \in ProjectCalls, NEW b \in ProjectCalls, a # b, request'[a].op \in Creations
               PROVE request'[b].item # request'[a].item
    BY DEF Reserved
  <2>1. CASE a # c /\ b # c
    <3>1. request'[a] = request[a] /\ request'[b] = request[b] /\ Reserved
      BY <2>1, <1>1 DEF ProjectsInv
    <3> QED BY ONLY <3>1, a \in ProjectCalls, b \in ProjectCalls, a # b, request'[a].op \in Creations DEF Reserved
  <2>2. CASE r = NoRequest \/ (request[c] # NoRequest /\ r.op = request[c].op /\ r.item = request[c].item)
    <3>1. CASE r # NoRequest
      <4>1. request'[a].op = request[a].op /\ request'[a].item = request[a].item /\ request'[b].item = request[b].item
        BY <1>1, <2>2, <3>1
      <4> QED BY <4>1 DEF ProjectsInv, Reserved
    <3>2. CASE r = NoRequest
      <4>1. a # c
        BY <3>2, <1>1, Apart DEF Creations
      <4>2. request[a].op \in Creations
        BY <4>1, <1>1
      <4>3. request[a].item # None
        BY <4>2, CreationItem
      <4> QED BY <4>1, <4>3, <3>2, <2>1, <1>1, Apart
    <3> QED BY <3>1, <3>2
  <2>3. CASE a = c /\ r.op \in Creations /\ \A d \in ProjectCalls : request[d].item # r.item
    BY <2>3, <1>1
  <2>4. CASE /\ b = c /\ a # c /\ Based(r)
             /\ r.op \in Creations => \A d \in ProjectCalls : request[d].item # r.item
    <3>1. request'[a] = request[a]
      BY <2>4, <1>1
    <3>2. \/ request[a].item \in Milestone /\ milestone[request[a].item] = NoMilestone
          \/ request[a].item \in Row /\ row[request[a].item] = NoRow
      BY <3>1, CreationItem
    <3>3. request'[b] = r
      BY <2>4, <1>1
    <3>4. CASE r.op \in Creations
      BY <2>4, <3>1, <3>3, <3>4
    <3>5. CASE r.op \notin Creations
      <4>1. \/ r.item = None
            \/ r.item \in Milestone /\ milestone[r.item].project \in Project
            \/ r.item \in Row /\ row[r.item].project \in Project
        BY <2>4, <3>5, Apart DEF Based, Creations
      <4>2. request[a].item # r.item
        BY <3>2, <4>1, Apart
      <4> QED BY <3>1, <3>3, <4>2
    <3> QED BY <3>4, <3>5
  <2> QED BY <1>1, <2>1, <2>2, <2>3, <2>4 DEF Creations, Based
<1>6. DeletedIsLeft
  BY DEF DeletedIsLeft, Holdings, RowsOf
<1> QED BY <1>2, <1>3, <1>4, <1>5, <1>6 DEF ProjectsInv

\* What a statement may do to the project tables: rows of one project only.
OnlyOf(p) ==
    \A q \in Project \ {p} :
        /\ project'[q] = project[q] /\ member'[q] = member[q]
        /\ \A m \in Milestone : milestone'[m].project = q <=> milestone[m].project = q
        /\ \A r \in Row : (row'[r].project = q <=> row[r].project = q)
                         /\ (row[r].project = q => row'[r] = row[r])

LEMMA HeldApart ==
    ASSUME NEW p, NEW q \in Project \ {p}, OnlyOf(p)
    PROVE  Holdings(q)' = Holdings(q)
<1>1. RowsOf(q, Row)' = RowsOf(q, Row)
  BY DEF OnlyOf, RowsOf
<1>2. \A r \in RowsOf(q, Row) : row'[r] = row[r]
  BY DEF OnlyOf, RowsOf
<1>3. [r \in RowsOf(q, Row) |-> row[r]]' = [r \in RowsOf(q, Row) |-> row[r]]
  BY <1>1, <1>2
<1>4. {m \in Milestone : milestone'[m].project = q} = {m \in Milestone : milestone[m].project = q}
  BY DEF OnlyOf
<1> QED BY <1>3, <1>4 DEF Holdings, OnlyOf

\* A request that ends writes what is its project's.
LEMMA Leaves ==
    ASSUME ProjectsInv, NEW c \in ProjectCalls, request[c] # NoRequest, request'[c] = NoRequest,
           OnlyOf(request[c].of),
           \A m \in Milestone : milestone'[m] = milestone[m] \/ m = request[c].item
    PROVE  DeletedIsLeft
<1>1. request[c].letIn /\ request[c].of \in Project
  BY DEF ProjectsInv, Founded, Based
<1>2. \A p \in Project : Holdings(p)' # Holdings(p) => p = request[c].of
  BY HeldApart
<1> QED BY <1>1, <1>2 DEF DeletedIsLeft

LEMMA WriteEnds ==
    ASSUME ProjectsInv, NEW c \in ProjectCalls, request[c].pc # "idle",
           request' = [request EXCEPT ![c] = NoRequest]
    PROVE  /\ request[c] # NoRequest /\ Based(request[c]) /\ request[c] \in RequestRecord
           /\ request'[c] = NoRequest /\ request' \in [ProjectCalls -> RequestRecord]
<1>1. request[c] # NoRequest
  BY Apart
<1>2. NoRequest \in RequestRecord
  BY DEF NoRequest, RequestRecord
<1> QED BY <1>1, <1>2 DEF ProjectsInv, ProjectsTypeOK, Founded

\* The statements about projects, members and milestones.
LEMMA StepProject ==
    ASSUME ProjectsInv, NEW c \in ProjectCalls,
           UpdateProject(c) \/ DeleteProject(c) \/ AddProjectMembers(c)
    PROVE  ProjectsInv' /\ DeletedIsLeft
<1> DEFINE d == request[c]
<1>1. d.pc = "write" /\ request' = [request EXCEPT ![c] = NoRequest]
      /\ d.op \in {"update project", "delete project", "add members"}
  BY DEF UpdateProject, DeleteProject, AddProjectMembers, Writes
<1>2. /\ d # NoRequest /\ Based(d) /\ d \in RequestRecord
      /\ request'[c] = NoRequest /\ request' \in [ProjectCalls -> RequestRecord]
  BY <1>1, WriteEnds
<1>3. d.of \in Project
  BY <1>2 DEF Based
<1>4. UNCHANGED <<milestone, row, uses>>
  BY DEF UpdateProject, DeleteProject, AddProjectMembers
<1>5. Founded' /\ Reserved' /\ Housed'
  BY <1>1, <1>2, <1>4, Ends
<1>6. AloneDefault'
  BY <1>4 DEF ProjectsInv, AloneDefault, RowsOf
<1>7. \A q \in Project \ {d.of} : project'[q] = project[q] /\ member'[q] = member[q]
  BY DEF UpdateProject, DeleteProject, AddProjectMembers, ProjectsInv, ProjectsTypeOK
<1>8. OnlyOf(d.of)
  BY <1>4, <1>7 DEF OnlyOf
<1>9. DeletedIsLeft
  BY <1>2, <1>4, <1>8, Leaves
<1>10. ProjectsTypeOK'
  <2> DEFINE R == [status: {None, "ACTIVE", "ARCHIVED"}, deleted: BOOLEAN]
             M == [Caller -> {None, "OWNER", "MEMBER"}]
  <2>0. project \in [Project -> R] /\ member \in [Project -> M]
    BY DEF ProjectsInv, ProjectsTypeOK
  <2>1. project' \in [Project -> R]
    <3>1. CASE UpdateProject(c)
      <4> PICK s \in {"ACTIVE", "ARCHIVED"} : project' = [project EXCEPT ![d.of].status = s]
        BY <3>1 DEF UpdateProject
      <4>1. project[d.of] \in R
        BY <1>3, <2>0
      <4>2. [project[d.of] EXCEPT !.status = s] \in R
        BY <4>1
      <4>3. project' = [project EXCEPT ![d.of] = [project[d.of] EXCEPT !.status = s]]
        OBVIOUS
      <4> HIDE DEF R
      <4> QED BY <2>0, <1>3, <4>2, <4>3
    <3>2. CASE DeleteProject(c)
      <4>1. [status |-> "ARCHIVED", deleted |-> TRUE] \in R
        OBVIOUS
      <4> HIDE DEF R
      <4> QED BY <3>2, <2>0, <1>3, <4>1 DEF DeleteProject
    <3>3. CASE AddProjectMembers(c)
      BY <3>3, <2>0 DEF AddProjectMembers
    <3> QED BY <3>1, <3>2, <3>3
  <2>2. member' \in [Project -> M]
    <3>1. CASE AddProjectMembers(c)
      <4> PICK new \in M : member' = [member EXCEPT ![d.of] =
                        [u \in Caller |-> IF @[u] = None THEN new[u] ELSE @[u]]]
        BY <3>1 DEF AddProjectMembers
      <4>1. member[d.of] \in M
        BY <1>3, <2>0
      <4>2. [u \in Caller |-> IF member[d.of][u] = None THEN new[u] ELSE member[d.of][u]] \in M
        BY <4>1
      <4> HIDE DEF M
      <4> QED BY <2>0, <1>3, <4>2
    <3>2. CASE UpdateProject(c) \/ DeleteProject(c)
      BY <3>2, <2>0 DEF UpdateProject, DeleteProject
    <3> QED BY <3>1, <3>2
  <2> HIDE DEF R, M
  <2> QED BY <2>1, <2>2, <1>2, <1>4 DEF ProjectsInv, ProjectsTypeOK, R, M
<1> QED BY <1>5, <1>6, <1>9, <1>10 DEF ProjectsInv

LEMMA StepMilestone ==
    ASSUME ProjectsInv, NEW c \in ProjectCalls,
           CreateMilestone(c) \/ UpdateMilestone(c) \/ DeleteMilestone(c)
    PROVE  ProjectsInv' /\ DeletedIsLeft
<1> DEFINE d == request[c]
<1>1. d.pc = "write" /\ request' = [request EXCEPT ![c] = NoRequest]
      /\ d.op \in {"create milestone", "update milestone", "delete milestone"}
  BY DEF CreateMilestone, UpdateMilestone, DeleteMilestone, Writes
<1>2. /\ d # NoRequest /\ Based(d) /\ d \in RequestRecord
      /\ request'[c] = NoRequest /\ request' \in [ProjectCalls -> RequestRecord]
  BY <1>1, WriteEnds
<1>3. /\ d.of \in Project /\ d.item \in Milestone
      /\ IF d.op = "create milestone" THEN milestone[d.item] = NoMilestone
         ELSE milestone[d.item].project \in Project
  BY <1>1, <1>2 DEF Based
<1>4. UNCHANGED <<project, member, row, uses>>
  BY DEF CreateMilestone, UpdateMilestone, DeleteMilestone
<1>5. /\ \A m \in Milestone : m # d.item => milestone'[m] = milestone[m]
      /\ IF d.op = "create milestone" THEN milestone'[d.item].project = d.of
         ELSE milestone'[d.item].project = milestone[d.item].project
      /\ milestone' \in [Milestone -> [project: Project \cup {None}, deleted: BOOLEAN,
                                    status: {None, "PLANNED", "COMPLETED", "CANCELLED"}]]
  <2> DEFINE R == [project: Project \cup {None}, deleted: BOOLEAN,
                   status: {None, "PLANNED", "COMPLETED", "CANCELLED"}]
  <2>0. milestone \in [Milestone -> R] /\ milestone[d.item] \in R
    BY <1>3 DEF ProjectsInv, ProjectsTypeOK
  <2>1. PICK x \in R : /\ milestone' = [milestone EXCEPT ![d.item] = x]
                       /\ IF d.op = "create milestone" THEN x.project = d.of
                          ELSE x.project = milestone[d.item].project
    <3>1. CASE CreateMilestone(c)
      <4> PICK s \in {"PLANNED", "COMPLETED"} :
             milestone' = [milestone EXCEPT ![d.item] = [project |-> d.of, status |-> s, deleted |-> FALSE]]
        BY <3>1 DEF CreateMilestone
      <4>1. [project |-> d.of, status |-> s, deleted |-> FALSE] \in R
        BY <1>3
      <4>2. d.op = "create milestone" /\ [project |-> d.of, status |-> s, deleted |-> FALSE].project = d.of
        BY <3>1 DEF CreateMilestone, Writes
      <4> QED BY <4>1, <4>2
    <3>2. CASE UpdateMilestone(c)
      <4> PICK s \in {"PLANNED", "COMPLETED", "CANCELLED"} :
             milestone' = [milestone EXCEPT ![d.item].status = s]
        BY <3>2 DEF UpdateMilestone
      <4>1. [milestone[d.item] EXCEPT !.status = s] \in R
            /\ [milestone[d.item] EXCEPT !.status = s].project = milestone[d.item].project
        BY <2>0
      <4>2. d.op = "update milestone"
        BY <3>2 DEF UpdateMilestone, Writes
      <4> QED BY <4>1, <4>2
    <3>3. CASE DeleteMilestone(c)
      <4>1. milestone' = [milestone EXCEPT ![d.item].status = "CANCELLED", ![d.item].deleted = TRUE]
            /\ d.op = "delete milestone"
        BY <3>3 DEF DeleteMilestone, Writes
      <4>2. milestone' = [milestone EXCEPT ![d.item] = [milestone[d.item] EXCEPT !.status = "CANCELLED", !.deleted = TRUE]]
        BY <4>1, <2>0, <1>3
      <4>3. [milestone[d.item] EXCEPT !.status = "CANCELLED", !.deleted = TRUE] \in R
            /\ [milestone[d.item] EXCEPT !.status = "CANCELLED", !.deleted = TRUE].project = milestone[d.item].project
        BY <2>0
      <4> QED BY <4>1, <4>2, <4>3
    <3> QED BY <3>1, <3>2, <3>3
  <2> HIDE DEF R
  <2>2. milestone' \in [Milestone -> R] /\ milestone'[d.item] = x
        /\ \A m \in Milestone : m # d.item => milestone'[m] = milestone[m]
    BY <2>0, <2>1, <1>3
  <2> QED BY <2>1, <2>2 DEF R
<1>6. Founded' /\ Reserved' /\ Housed'
  <2>1. \A m \in Milestone :
              \/ milestone'[m] = milestone[m]
              \/ /\ milestone'[m].project \in Project
                 /\ \/ milestone[m].project \in Project
                    \/ d.op \in Creations /\ m = d.item
    BY <1>3, <1>5 DEF Creations
  <2> QED BY <2>1, <1>1, <1>2, <1>4, Ends
<1>7. AloneDefault'
  BY <1>4 DEF ProjectsInv, AloneDefault, RowsOf
<1>8. OnlyOf(d.of)
  <2>1. \A q \in Project \ {d.of}, m \in Milestone : milestone'[m].project = q <=> milestone[m].project = q
    BY <1>3, <1>5, Apart
  <2> QED BY <2>1, <1>4 DEF OnlyOf
<1>9. DeletedIsLeft
  BY <1>2, <1>5, <1>8, Leaves
<1> QED BY <1>2, <1>4, <1>5, <1>6, <1>7, <1>9 DEF ProjectsInv, ProjectsTypeOK

\* The statements about statuses and workflows.
LEMMA StepRow ==
    ASSUME ProjectsInv, NEW c \in ProjectCalls,
           UpdateStatus(c) \/ DeleteStatus(c) \/ \E op \in {"create status", "create workflow"} : CreateRow(c, op)
    PROVE  ProjectsInv' /\ DeletedIsLeft
<1> DEFINE d == request[c]
           T == TableOf(d)
           RowRecord == [project: Project \cup {None}, default: BOOLEAN, deleted: BOOLEAN]
<1>1. d.pc \in {"locked", "write"} /\ request' = [request EXCEPT ![c] = NoRequest]
      /\ d.op \in {"create status", "create workflow", "update status", "delete status"}
      /\ UNCHANGED <<project, member, milestone>>
  <2>1. CASE UpdateStatus(c)
    BY <2>1 DEF UpdateStatus, Stores
  <2>2. CASE DeleteStatus(c)
    BY <2>2 DEF DeleteStatus, Stores
  <2>3. ASSUME NEW op \in {"create status", "create workflow"}, CreateRow(c, op)
        PROVE /\ d.pc \in {"locked", "write"} /\ request' = [request EXCEPT ![c] = NoRequest]
              /\ d.op \in {"create status", "create workflow"}
              /\ UNCHANGED <<project, member, milestone>>
    BY <2>3 DEF CreateRow, Stores
  <2> QED BY <2>1, <2>2, <2>3
<1>2. /\ d # NoRequest /\ Based(d) /\ d \in RequestRecord
      /\ request'[c] = NoRequest /\ request' \in [ProjectCalls -> RequestRecord]
  BY <1>1, WriteEnds
<1>3. /\ d.of \in Project /\ d.item \in Row /\ d.item \in T /\ T \in {Status, Workflow}
      /\ d.op \in {"create status", "create workflow"} => row[d.item] = NoRow
      /\ d.op \in {"update status", "delete status"} => row[d.item].project = d.of
  BY <1>1, <1>2, Apart DEF Based, TableOf
<1>4. row \in [Row -> RowRecord] /\ T \subseteq Row
  BY <1>3, Apart DEF ProjectsInv, ProjectsTypeOK
<1>5. PICK O : /\ O = Others(c, row) /\ O \in [Row -> RowRecord]
               /\ \A r \in Row :
                    /\ O[r].project = row[r].project
                    /\ O[r].default => row[r].default
                    /\ O[r].default /\ d.default = "set" /\ r \in T => row[r].project # d.of
                    /\ row[r].project # d.of => O[r] = row[r]
  <2> DEFINE hit(r) == d.default = "set" /\ r \in T /\ row[r].project = d.of
  <2>1. DOMAIN row = Row /\ \A r \in Row : row[r] \in RowRecord
    BY <1>4
  <2>2. Others(c, row) = [r \in Row |-> IF hit(r) THEN [row[r] EXCEPT !.default = FALSE] ELSE row[r]]
    BY <2>1 DEF Others
  <2>3. \A r \in Row : /\ [row[r] EXCEPT !.default = FALSE] \in RowRecord
                       /\ [row[r] EXCEPT !.default = FALSE].project = row[r].project
                       /\ [row[r] EXCEPT !.default = FALSE].default = FALSE
    BY <2>1
  <2>4. \A r \in Row : Others(c, row)[r] = IF hit(r) THEN [row[r] EXCEPT !.default = FALSE] ELSE row[r]
    BY <2>2
  <2> HIDE DEF RowRecord, T, hit
  <2>5. Others(c, row) \in [Row -> RowRecord]
    BY <2>1, <2>2, <2>3
  <2> USE DEF hit
  <2>6. \A r \in Row : /\ Others(c, row)[r].project = row[r].project
                       /\ Others(c, row)[r].default => row[r].default
                       /\ Others(c, row)[r].default => ~hit(r)
                       /\ ~hit(r) => Others(c, row)[r] = row[r]
    BY <2>3, <2>4
  <2> QED BY <2>5, <2>6
\* What the statement makes of a row x, beside the others.
<1>6. \/ UNCHANGED <<row, uses>>
      \/ \E x \in RowRecord :
            /\ x.project = d.of
            /\ x.default => row[d.item].default \/ (d.default = "set" /\ d.op # "delete status")
            /\ row' = [IF d.op = "delete status" THEN row ELSE O EXCEPT ![d.item] = x]
            /\ uses' \in [Workflow -> SUBSET Status]
  <2>0. uses \in [Workflow -> SUBSET Status]
    BY DEF ProjectsInv, ProjectsTypeOK
  <2>1. CASE UpdateStatus(c)
    <3> DEFINE n == IF d.default = "keep" THEN O[d.item].default ELSE d.default = "set"
               x == [O[d.item] EXCEPT !.default = n]
    <3>1. n \in BOOLEAN /\ (n => d.default = "set" \/ row[d.item].default)
      BY <1>3, <1>5
    <3>2. row' = [O EXCEPT ![d.item].default = n] /\ UNCHANGED uses /\ d.op = "update status"
      BY <2>1, <1>5 DEF UpdateStatus, Stores
    <3>3. row' = [O EXCEPT ![d.item] = x]
      BY <3>2
    <3> HIDE DEF n
    <3>4. x \in RowRecord /\ x.project = O[d.item].project /\ x.default = n
      <4>1. PICK o \in RowRecord : o = O[d.item]
        BY <1>3, <1>5
      <4>2. x = [o EXCEPT !.default = n]
        BY <4>1
      <4> HIDE DEF x
      <4> QED BY <3>1, <4>1, <4>2
    <3>5. x.project = d.of
      BY <3>2, <3>4, <1>3, <1>5
    <3> HIDE DEF x
    <3> QED BY <2>0, <3>1, <3>2, <3>3, <3>4, <3>5
  <2>2. CASE DeleteStatus(c)
    <3> DEFINE x == [row[d.item] EXCEPT !.deleted = TRUE]
    <3>1. UNCHANGED uses /\ d.op = "delete status"
      BY <2>2 DEF DeleteStatus, Stores
    <3>2. UNCHANGED row \/ row' = [row EXCEPT ![d.item] = x]
      BY <2>2 DEF DeleteStatus
    <3>3. x \in RowRecord /\ x.project = row[d.item].project /\ x.default = row[d.item].default
      BY <1>3, <1>4
    <3>4. x.project = d.of
      BY <3>1, <3>3, <1>3
    <3> HIDE DEF x
    <3> QED BY <2>0, <3>1, <3>2, <3>3, <3>4
  <2>3. ASSUME NEW op \in {"create status", "create workflow"}, CreateRow(c, op), ~UNCHANGED <<row, uses>>
        PROVE  \E x \in RowRecord :
            /\ x.project = d.of
            /\ x.default => row[d.item].default \/ (d.default = "set" /\ d.op # "delete status")
            /\ row' = [IF d.op = "delete status" THEN row ELSE O EXCEPT ![d.item] = x]
            /\ uses' \in [Workflow -> SUBSET Status]
    <3> DEFINE x == [project |-> d.of, default |-> d.default = "set", deleted |-> FALSE]
    <3>1. row' = [O EXCEPT ![d.item] = x] /\ d.op = op
          /\ uses' = [w \in Workflow |-> IF w = d.item THEN d.names ELSE uses[w]]
      BY <2>3, <1>5 DEF CreateRow, Stores
    <3>2. x \in RowRecord /\ x.project = d.of /\ x.default = (d.default = "set")
      BY <1>3
    <3> HIDE DEF x
    <3>3. uses' \in [Workflow -> SUBSET Status]
      BY <2>0, <3>1, <1>2 DEF RequestRecord
    <3> QED BY <3>1, <3>2, <3>3
  <2> QED BY <2>1, <2>2, <2>3
<1>61. CASE UNCHANGED <<row, uses>>
  <2>1. Founded' /\ Reserved' /\ Housed'
    BY <1>61, <1>1, <1>2, Ends
  <2>2. OnlyOf(d.of)
    BY <1>61, <1>1 DEF OnlyOf
  <2>3. DeletedIsLeft
    BY <1>1, <1>2, <2>2, Leaves
  <2>4. AloneDefault'
    BY <1>61 DEF ProjectsInv, AloneDefault, RowsOf
  <2> QED BY <1>1, <1>2, <1>61, <2>1, <2>3, <2>4 DEF ProjectsInv, ProjectsTypeOK
<1> SUFFICES ASSUME ~UNCHANGED <<row, uses>> PROVE ProjectsInv' /\ DeletedIsLeft
  BY <1>61
<1>62. PICK x \in RowRecord :
            /\ x.project = d.of
            /\ x.default => row[d.item].default \/ (d.default = "set" /\ d.op # "delete status")
            /\ row' = [IF d.op = "delete status" THEN row ELSE O EXCEPT ![d.item] = x]
            /\ uses' \in [Workflow -> SUBSET Status]
  BY <1>6
<1> HIDE DEF T, RowRecord
<1>63. /\ row' \in [Row -> RowRecord]
       /\ row'[d.item] = x
       /\ \A r \in Row \ {d.item} :
            /\ row'[r].project = row[r].project
            /\ row'[r].default => row[r].default
            /\ row'[r].default /\ d.default = "set" /\ r \in T /\ d.op # "delete status" => row[r].project # d.of
            /\ row[r].project # d.of => row'[r] = row[r]
  <2>1. CASE d.op = "delete status"
    BY <2>1, <1>3, <1>4, <1>62
  <2>2. CASE d.op # "delete status"
    BY <2>2, <1>3, <1>5, <1>62
  <2> QED BY <2>1, <2>2
<1>7. Founded' /\ Reserved' /\ Housed'
  <2>1. \A r \in Row :
              \/ row'[r] = row[r]
              \/ /\ row'[r].project \in Project
                 /\ \/ row'[r].project = row[r].project
                    \/ d.op \in Creations /\ r = d.item
    <3> TAKE r \in Row
    <3>1. CASE r = d.item
      BY <3>1, <1>1, <1>3, <1>62, <1>63 DEF Creations
    <3>2. CASE r # d.item
      <4>1. row'[r].project = row[r].project /\ (row[r].project # d.of => row'[r] = row[r])
        BY <3>2, <1>63
      <4> QED BY <4>1, <1>3
    <3> QED BY <3>1, <3>2
  <2> QED BY <2>1, <1>1, <1>2, Ends
<1>8. AloneDefault'
  <2> SUFFICES ASSUME NEW p \in Project, NEW table \in {Status, Workflow},
                      NEW r \in RowsOf(p, table)', NEW s \in RowsOf(p, table)',
                      row'[r].default, row'[s].default, r # s
               PROVE  FALSE
    BY DEF AloneDefault
  <2>00. r \in table /\ s \in table /\ row'[r].project = p /\ row'[s].project = p
    BY DEF RowsOf
  <2> USE <2>00
  <2>0. r \in Row /\ s \in Row
    BY Apart
  <2>01. \A q \in Project, a \in table, b \in table :
           row[a].project = q /\ row[b].project = q /\ row[a].default /\ row[b].default => a = b
    BY DEF ProjectsInv, AloneDefault, RowsOf
  <2>1. CASE r # d.item /\ s # d.item
    <3>1. row[r].project = p /\ row[s].project = p /\ row[r].default /\ row[s].default
      BY <2>0, <2>1, <1>63
    <3> QED BY <2>01, <3>1
  <2>2. ASSUME NEW a \in table, NEW b \in table, a \in Row, b \in Row, a = d.item, b # a,
               row'[a].project = p, row'[b].project = p, row'[a].default, row'[b].default
        PROVE  FALSE
    <3>1. p = d.of /\ row'[a] = x
      BY <2>2, <1>62, <1>63
    <3>2. table = T
      <4>1. \A U, V \in {Status, Workflow} : \A z : z \in U /\ z \in V => U = V
        BY ProjectsAssumption
      <4> QED BY <2>2, <1>3, <4>1
    <3>3. row[b].default /\ row[b].project = d.of
      BY <2>2, <3>1, <1>63
    <3>4. CASE d.default = "set" /\ d.op # "delete status"
      BY <2>2, <3>2, <3>3, <3>4, <1>63
    <3>5. CASE row[d.item].default
      <4>1. row[d.item].project = d.of
        BY <3>5, <1>1, <1>3, Apart
      <4> QED BY <4>1, <2>01, <1>3, <3>3, <3>5, <2>2
    <3> QED BY <2>2, <3>1, <3>4, <3>5, <1>62
  <2> QED BY <2>0, <2>1, <2>2
<1>9. OnlyOf(d.of)
  <2>1. \A q \in Project \ {d.of}, r \in Row :
            (row'[r].project = q <=> row[r].project = q) /\ (row[r].project = q => row'[r] = row[r])
    <3> TAKE q \in Project \ {d.of}, r \in Row
    <3>1. CASE r = d.item
      BY <3>1, <1>1, <1>3, <1>62, <1>63, Apart
    <3>2. CASE r # d.item
      BY <3>2, <1>63
    <3> QED BY <3>1, <3>2
  <2> QED BY <2>1, <1>1 DEF OnlyOf
<1>10. DeletedIsLeft
  BY <1>1, <1>2, <1>9, Leaves
<1> QED BY <1>1, <1>2, <1>62, <1>63, <1>7, <1>8, <1>10 DEF ProjectsInv, ProjectsTypeOK, RowRecord

LEMMA Framed ==
    ASSUME ProjectsInv, UNCHANGED <<milestone, row, uses, request>>
    PROVE  Founded' /\ Reserved' /\ Housed' /\ AloneDefault'
<1>1. Founded /\ Reserved /\ Housed /\ AloneDefault
  BY DEF ProjectsInv
<1>2. Founded'
  <2> SUFFICES ASSUME NEW c \in ProjectCalls, request'[c] # NoRequest PROVE Based(request[c])'
    BY DEF Founded
  <2>1. Based(request[c])
    BY <1>1 DEF Founded
  <2> QED BY ONLY <2>1, UNCHANGED milestone, UNCHANGED row, UNCHANGED request DEF Based, TableOf
<1>3. Reserved'
  BY ONLY <1>1, UNCHANGED request DEF Reserved
<1>4. Housed' /\ AloneDefault'
  BY ONLY <1>1, UNCHANGED row, UNCHANGED milestone DEF Housed, AloneDefault, RowsOf
<1> QED BY <1>2, <1>3, <1>4

LEMMA ProjectsStepInv == ProjectsInv /\ [ProjectsNext]_projectVars => ProjectsInv' /\ [DeletedIsLeft]_projectVars
<1> SUFFICES ASSUME ProjectsInv, [ProjectsNext]_projectVars
             PROVE  ProjectsInv' /\ [DeletedIsLeft]_projectVars
  OBVIOUS
<1>0. NoRequest \in RequestRecord /\ \A c \in ProjectCalls : request[c] \in RequestRecord
  BY DEF NoRequest, RequestRecord, ProjectsInv, ProjectsTypeOK
<1>1. ASSUME NEW u \in Caller, NEW p \in Project, NEW s \in {"ACTIVE", "ARCHIVED"}, CreateProject(u, p, s)
      PROVE  ProjectsInv' /\ DeletedIsLeft
  <2>1. UNCHANGED <<milestone, row, uses, request>>
    BY <1>1 DEF CreateProject
  <2>2. ProjectsTypeOK'
    <3> DEFINE M == [Caller -> {None, "OWNER", "MEMBER"}]
    <3>1. member \in [Project -> M] /\ member[p] \in M /\ [member[p] EXCEPT ![u] = "OWNER"] \in M
      BY DEF ProjectsInv, ProjectsTypeOK
    <3>2. member' = [member EXCEPT ![p] = [member[p] EXCEPT ![u] = "OWNER"]]
      BY <1>1 DEF CreateProject
    <3> HIDE DEF M
    <3>3. member' \in [Project -> M]
      BY <3>1, <3>2
    <3>4. project' \in [Project -> [status: {None, "ACTIVE", "ARCHIVED"}, deleted: BOOLEAN]]
      BY <1>1 DEF CreateProject, ProjectsInv, ProjectsTypeOK
    <3> QED BY <2>1, <3>3, <3>4 DEF ProjectsInv, ProjectsTypeOK, M
  <2>3. Founded' /\ Reserved' /\ Housed' /\ AloneDefault'
    BY <2>1, Framed
  <2>4. OnlyOf(p)
    BY <1>1, <2>1 DEF OnlyOf, CreateProject, ProjectsInv, ProjectsTypeOK
  <2>5. ~project[p].deleted
    BY <1>1 DEF CreateProject, NoProject
  <2>6. DeletedIsLeft
    BY <2>1, <2>4, <2>5, HeldApart DEF DeletedIsLeft
  <2> QED BY <2>2, <2>3, <2>6 DEF ProjectsInv
\* A request that ends without a write.
<1>a. ASSUME NEW c \in ProjectCalls, request' = [request EXCEPT ![c] = NoRequest],
             UNCHANGED <<project, member, milestone, row, uses>>
      PROVE  ProjectsInv' /\ DeletedIsLeft
  BY <1>a, <1>0, Goes
<1>2. ASSUME NEW c \in ProjectCalls, CheckAccess(c) PROVE ProjectsInv' /\ DeletedIsLeft
  <2>1. CASE Refuse(c)
    BY <2>1, <1>a DEF Refuse
  <2>2. CASE ~Refuse(c)
    <3> DEFINE d == request[c]
               r == [d EXCEPT !.letIn = d.letIn /\ Live(d.of),
                              !.pc = IF d.op = "create workflow" THEN "statuses" ELSE "write"]
    <3>1. d # NoRequest /\ d \in RequestRecord /\ d.pc = "access"
      BY <1>2, <1>0, Apart DEF CheckAccess
    <3>2. d.letIn
      BY <3>1 DEF ProjectsInv, Founded, Based
    <3>3. Live(d.of) /\ UNCHANGED <<project, member, milestone, row, uses>>
          /\ request' = [request EXCEPT ![c].letIn = d.letIn /\ Live(d.of),
                          ![c].pc = IF d.op = "create workflow" THEN "statuses" ELSE "write"]
      BY <1>2, <2>2 DEF CheckAccess, ManageAccess
    <3>4. request' = [request EXCEPT ![c] = r]
      BY <3>3 DEF ProjectsInv, ProjectsTypeOK
    <3>5. r \in RequestRecord /\ r.of = d.of /\ r.op = d.op /\ r.item = d.item /\ r.letIn
      <4>1. (d.letIn /\ Live(d.of)) = TRUE
        BY <3>2, <3>3
      <4>2. (IF d.op = "create workflow" THEN "statuses" ELSE "write") \in {"statuses", "write"}
        OBVIOUS
      <4> QED BY <3>1, <4>1, <4>2 DEF RequestRecord
    <3> HIDE DEF r
    <3> QED BY <3>1, <3>3, <3>4, <3>5, Goes
  <2> QED BY <2>1, <2>2
\* A request that takes the locks, or goes on to write.
<1>b. ASSUME NEW c \in ProjectCalls, NEW pc \in {"write", "locked"}, request[c].pc # "idle",
             request' = [request EXCEPT ![c].pc = pc], UNCHANGED <<project, member, milestone, row, uses>>
      PROVE  ProjectsInv' /\ DeletedIsLeft
  <2> DEFINE d == request[c]  r == [d EXCEPT !.pc = pc]
  <2>1. d # NoRequest /\ d \in RequestRecord
    BY <1>b, <1>0, Apart
  <2>2. d.letIn
    BY <2>1 DEF ProjectsInv, Founded, Based
  <2>3. request' = [request EXCEPT ![c] = r]
    BY <1>b
  <2>4. r \in RequestRecord /\ r.of = d.of /\ r.op = d.op /\ r.item = d.item /\ r.letIn = d.letIn
    BY <2>1 DEF RequestRecord
  <2> HIDE DEF r
  <2> QED BY <1>b, <2>1, <2>2, <2>3, <2>4, Goes
<1>3. ASSUME NEW c \in ProjectCalls, FindStatuses(c) PROVE ProjectsInv' /\ DeletedIsLeft
  BY <1>3, <1>a, <1>b DEF FindStatuses, Refuse
<1>4. ASSUME NEW c \in ProjectCalls, ClearDefaults(c) PROVE ProjectsInv' /\ DeletedIsLeft
  BY <1>4, <1>b DEF ClearDefaults
<1>5. ASSUME NEW c \in ProjectCalls, Deadlock(c) PROVE ProjectsInv' /\ DeletedIsLeft
  BY <1>5, <1>a DEF Deadlock, Refuse
<1>6. ASSUME NEW c \in ProjectCalls, Proceed(c) PROVE ProjectsInv' /\ DeletedIsLeft
  BY <1>2, <1>3, <1>4, <1>5, <1>6, StepProject, StepMilestone, StepRow DEF Proceed
\* A request that begins.
<1>7. ASSUME NEW c \in ProjectCalls, NEW u \in Caller, NEW p \in Project, NEW op, NEW i,
             NEW default \in {"set", "unset", "keep"}, NEW names \in SUBSET Status,
             Begin(c, u, p, op, i, default, names),
             op \in Creations => \A d \in ProjectCalls : request[d].item # i,
             \/ op \in {"update project", "delete project", "add members"} /\ i = None
             \/ op = "create milestone" /\ i \in Milestone /\ milestone[i] = NoMilestone
             \/ /\ op \in {"update milestone", "delete milestone"} /\ i \in Milestone
                /\ milestone[i].project \in Project /\ ~milestone[i].deleted
             \/ op = "create status" /\ i \in Status /\ row[i] = NoRow
             \/ op = "create workflow" /\ i \in Workflow /\ row[i] = NoRow
             \/ op \in {"update status", "delete status"} /\ i \in Status /\ row[i].project = p
      PROVE  ProjectsInv' /\ DeletedIsLeft
  <2> DEFINE letIn == i \in Milestone => ~milestone[i].deleted
             r == [pc |-> "access", op |-> op, by |-> u, of |-> p, item |-> i, default |-> default,
                   names |-> names, letIn |-> letIn]
  <2>1. letIn = TRUE
    BY <1>7, Apart
  <2>2. i \in Milestone \cup Row \cup {None} /\ (i \in Row => i \notin Milestone)
    BY <1>7, Apart
  <2>3. request' = [request EXCEPT ![c] = r] /\ UNCHANGED <<project, member, milestone, row, uses>>
    BY <1>7 DEF Begin
  <2>4. r.of = p /\ r.op = op /\ r.item = i /\ r.letIn = TRUE
    BY <2>1
  <2>5. r \in RequestRecord
    BY <1>7, <2>1, <2>2 DEF RequestRecord
  <2> HIDE DEF r
  <2>6. Based(r)
    BY <1>7, <2>4 DEF Based, TableOf
  <2> QED BY <1>7, <2>3, <2>4, <2>5, <2>6, Goes
<1>8. ASSUME NEW c \in ProjectCalls, NEW u \in Caller, Request(c, u) PROVE ProjectsInv' /\ DeletedIsLeft
  <2>0. {} \in SUBSET Status
    OBVIOUS
  <2>1. ASSUME NEW p \in Project, NEW op \in {"update project", "delete project", "add members"},
               Begin(c, u, p, op, None, "keep", {})
        PROVE  ProjectsInv' /\ DeletedIsLeft
    BY <2>0, <2>1, <1>7 DEF Creations
  <2>2. ASSUME NEW p \in Project, NEW m \in Milestone, Fresh(m), Begin(c, u, p, "create milestone", m, "keep", {})
        PROVE  ProjectsInv' /\ DeletedIsLeft
    BY <2>0, <2>2, <1>7 DEF Fresh
  <2>3. ASSUME NEW p \in Project, NEW r \in Row, NEW default \in {"set", "unset"}, Fresh(r),
               r \in Status, Begin(c, u, p, "create status", r, default, {})
        PROVE  ProjectsInv' /\ DeletedIsLeft
    <3>1. row[r] = NoRow /\ \A d \in ProjectCalls : request[d].item # r
      BY <2>3, Apart DEF Fresh
    <3>2. default \in {"set", "unset", "keep"}
      OBVIOUS
    <3> QED BY <2>0, <2>3, <3>1, <3>2, <1>7
  <2>4. ASSUME NEW p \in Project, NEW r \in Row, NEW default \in {"set", "unset"}, Fresh(r),
               r \in Workflow, NEW names \in SUBSET Status, Begin(c, u, p, "create workflow", r, default, names)
        PROVE  ProjectsInv' /\ DeletedIsLeft
    <3>1. row[r] = NoRow /\ \A d \in ProjectCalls : request[d].item # r
      BY <2>4, Apart DEF Fresh
    <3>2. default \in {"set", "unset", "keep"}
      OBVIOUS
    <3> QED BY <2>4, <3>1, <3>2, <1>7
  <2>5. ASSUME NEW m \in Milestone, NEW op \in {"update milestone", "delete milestone"}, Exists(m),
               Begin(c, u, milestone[m].project, op, m, "keep", {})
        PROVE  ProjectsInv' /\ DeletedIsLeft
    <3>1. milestone[m].project \in Project /\ ~milestone[m].deleted
      BY <2>5 DEF Exists, ProjectsInv, Housed
    <3> QED BY <2>0, <2>5, <3>1, <1>7 DEF Creations
  <2>6. ASSUME NEW s \in Status, NEW op \in {"update status", "delete status"},
               NEW default \in {"set", "unset", "keep"}, Exists(s),
               Begin(c, u, row[s].project, op, s, default, {})
        PROVE  ProjectsInv' /\ DeletedIsLeft
    <3>1. row[s].project \in Project
      BY <2>6, Apart DEF Exists, ProjectsInv, Housed
    <3> DEFINE r == [pc |-> "access", op |-> op, by |-> u, of |-> row[s].project, item |-> s,
                     default |-> default, names |-> {}, letIn |-> s \in Milestone => ~milestone[s].deleted]
    <3>2. (s \in Milestone => ~milestone[s].deleted) = TRUE /\ s \in Row
      BY Apart
    <3>3. request' = [request EXCEPT ![c] = r] /\ UNCHANGED <<project, member, milestone, row, uses>>
      BY <2>6 DEF Begin
    <3>4. r.of = row[s].project /\ r.op = op /\ r.item = s /\ r.letIn = TRUE
      BY <3>2
    <3>5. r \in RequestRecord
      BY <3>1, <3>2 DEF RequestRecord
    <3> HIDE DEF r
    <3>6. Based(r) /\ r.op \notin Creations
      BY <3>1, <3>4 DEF Based, Creations
    <3> QED BY <3>3, <3>5, <3>6, Goes
  <2>7. ASSUME NEW p \in Project, NEW r \in Row, NEW default \in {"set", "unset"}, Fresh(r),
               \/ r \in Status /\ Begin(c, u, p, "create status", r, default, {})
               \/ /\ r \in Workflow
                  /\ \E names \in SUBSET Status \ {{}} : Begin(c, u, p, "create workflow", r, default, names)
        PROVE  ProjectsInv' /\ DeletedIsLeft
    BY <2>3, <2>4, <2>7
  <2>8. ASSUME NEW s \in Status, Exists(s),
               \/ Begin(c, u, row[s].project, "delete status", s, "keep", {})
               \/ \E default \in {"set", "unset", "keep"} :
                   Begin(c, u, row[s].project, "update status", s, default, {})
        PROVE  ProjectsInv' /\ DeletedIsLeft
    BY <2>6, <2>8
  <2> QED BY <1>8, <2>1, <2>2, <2>5, <2>7, <2>8 DEF Request
<1>9. CASE UNCHANGED projectVars
  <2>1. ProjectsTypeOK'
    BY <1>9 DEF projectVars, ProjectsInv, ProjectsTypeOK
  <2> QED BY <1>9, <2>1, Framed DEF projectVars, ProjectsInv
<1> QED
  BY <1>1, <1>6, <1>8, <1>9 DEF ProjectsNext

LEMMA AtMostOne == AloneDefault => OneDefault
<1> SUFFICES ASSUME AloneDefault, NEW p \in Project, NEW table \in {Status, Workflow}
             PROVE  Cardinality({r \in RowsOf(p, table) : row[r].default}) <= 1
  BY DEF OneDefault
<1> DEFINE S == {r \in RowsOf(p, table) : row[r].default}
<1>1. \A r, s \in S : r = s
  BY DEF AloneDefault
<1>2. CASE S = {}
  BY <1>2, FS_EmptySet
<1>3. CASE S # {}
  <2>1. PICK r \in S : S = {r}
    BY <1>1, <1>3
  <2>2. Cardinality({r}) = 1
    BY FS_Singleton
  <2> QED BY <2>1, <2>2
<1> QED BY <1>2, <1>3

\* What is deleted changes only by a request that found it before, and a project
\* has one default status and one default workflow at most
\* (ensureProjectManageAccess and the first query of each service; createStatus,
\* updateStatus, createWorkflow).
THEOREM ProjectsStayInOrder == ProjectsSpec => ProjectInOrder
<1>1. ProjectsInv /\ ProjectsInv' /\ [ProjectsNext]_projectVars =>
         [DeletedIsLeft /\ OneDefault']_projectVars
  <2>1. (AloneDefault => OneDefault)'
    BY AtMostOne, PTL
  <2> QED BY <2>1, ProjectsStepInv DEF ProjectsInv
<1> QED BY <1>1, ProjectsInitInv, ProjectsStepInv, PTL DEF ProjectsSpec, ProjectInOrder
=============================================================================
