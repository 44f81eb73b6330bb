------------------------- MODULE BountySafetyProofs -------------------------
(***************************************************************************)
(* Safety of Bounty, for any number of rows and users: the life cycles of  *)
(* challenges, disputes and slots, and what every balance is made of.      *)
(***************************************************************************)
EXTENDS BountyProofs, SumProofs

-----------------------------------------------------------------------------
(* Life cycles.                                                            *)

ChallengeKept(c) ==
    /\ challenge'[c].project = challenge[c].project
    /\ challenge'[c].user = challenge[c].user
    /\ challenge'[c].reward = challenge[c].reward

\* What one transaction can do to a challenge.
ChallengeMoved(c) ==
    /\ ChallengeKept(c)
    /\ \/ /\ challenge'[c].status = challenge[c].status
          /\ challenge'[c].rejectedAt = challenge[c].rejectedAt
       \/ /\ challenge[c].status = "accepted" /\ challenge'[c].status = "submitted"
       \/ /\ challenge[c].status \in {"accepted", "submitted"}
          /\ challenge'[c].status \in {"withdrawn", "cancelled"}
          /\ ~HasDispute(c, {"open"})
          /\ UNCHANGED dispute
       \/ /\ challenge[c].status = "submitted" /\ challenge'[c].status = "rejected"
          /\ UNCHANGED dispute
       \/ /\ challenge[c].status = "submitted" /\ challenge'[c].status = "approved"
       \/ /\ challenge[c].status = "rejected" /\ challenge'[c].status = "approved"
          /\ challenge'[c].overturned
          /\ \E d \in Disputes :
               /\ dispute[d].challenge = c /\ dispute[d].status = "open"
               /\ dispute[d].openedBy = challenge[c].user
               /\ dispute'[d].status = "resolved_paid"

\* A challenge row that is left alone.
LEMMA ChallengeUnchanged ==
  ASSUME TypeOK, NEW c \in Challenges, UNCHANGED challenge
  PROVE  ChallengeMoved(c)
  BY DEF ChallengeMoved, ChallengeKept

\* Whatever the operation, a challenge moves along its life cycle.
LEMMA ChallengeHistory ==
  ASSUME TypeOK, RowsLinked, [Next]_vars, NEW c \in Challenges
  PROVE  ChallengeMoved(c) \/ \E u \in Users, p \in Projects : Accept(u, p, c)
<1> DEFINE Accepted == \E u \in Users, p \in Projects : Accept(u, p, c)
<1>0. SUFFICES ASSUME ~Accepted PROVE ChallengeMoved(c)
  OBVIOUS
<1>1. ASSUME NEW u \in Users, NEW p \in Projects, NEW e \in Challenges, Accept(u, p, e)
      PROVE  ChallengeMoved(c)
  <2>1. e # c
    BY <1>0, <1>1
  <2>2. challenge'[c] = challenge[c]
    BY <1>1, <2>1 DEF Accept, TypeOK
  <2> QED BY <2>2 DEF ChallengeMoved, ChallengeKept
<1>2. ASSUME NEW e \in Challenges, SubmitCommit(e) PROVE ChallengeMoved(c)
  BY <1>2 DEF SubmitCommit, ChallengeMoved, ChallengeKept, TypeOK, ChallengeRow, RowsLinked
<1>3. ASSUME NEW u \in Users, NEW e \in Challenges, Cancel(u, e) PROVE ChallengeMoved(c)
  BY <1>3 DEF Cancel, ChallengeMoved, ChallengeKept, TypeOK, ChallengeRow
<1>4. ASSUME NEW u \in Users, NEW e \in Challenges, Withdraw(u, e) PROVE ChallengeMoved(c)
  BY <1>4 DEF Withdraw, ChallengeMoved, ChallengeKept, TypeOK, ChallengeRow
<1>5. ASSUME NEW u \in Users, NEW e \in Challenges, ReviewReject(u, e) PROVE ChallengeMoved(c)
  BY <1>5 DEF ReviewReject, ChallengeMoved, ChallengeKept, TypeOK, ChallengeRow
<1>6. ASSUME NEW u \in Users, NEW e \in Challenges, ReviewApprove(u, e) PROVE ChallengeMoved(c)
  BY <1>6 DEF ReviewApprove, ChallengeMoved, ChallengeKept, TypeOK, ChallengeRow
<1>7. ASSUME NEW u \in Users, NEW e \in Challenges, RateOwner(u, e) PROVE ChallengeMoved(c)
  BY <1>7 DEF RateOwner, ChallengeMoved, ChallengeKept, TypeOK, ChallengeRow
<1>8. ASSUME NEW u \in Users, NEW e \in Challenges, Tip(u, e) PROVE ChallengeMoved(c)
  <2>1. PICK q \in TipQuotas : challenge' = [challenge EXCEPT ![e].tip = @ + q]
    BY <1>8 DEF Tip
  <2> QED BY <2>1 DEF ChallengeMoved, ChallengeKept, TypeOK, ChallengeRow
<1>9. ASSUME NEW u \in Users, NEW d \in Disputes, ResolvePay(u, d) PROVE ChallengeMoved(c)
  <2> DEFINE e == dispute[d].challenge
             b == challenge[e].status = "rejected"
  <2>1. /\ e \in Challenges /\ challenge[e].status \in {"submitted", "rejected"}
        /\ dispute[d].status = "open" /\ dispute[d].openedBy = challenge[e].user
        /\ dispute'[d].status = "resolved_paid"
    BY <1>9 DEF RowsLinked, ResolvePay, Adjudicates, TypeOK, DisputeRow
  <2>2. challenge' = [challenge EXCEPT ![e].status = "approved", ![e].overturned = b]
    BY <1>9 DEF ResolvePay
  <2>3. /\ ChallengeKept(c)
        /\ c # e => /\ challenge'[c].status = challenge[c].status
                    /\ challenge'[c].rejectedAt = challenge[c].rejectedAt
        /\ c = e => challenge'[c].status = "approved" /\ challenge'[c].overturned = b
    <3> HIDE DEF b, e
    <3> QED BY <2>1, <2>2 DEF TypeOK, ChallengeRow, ChallengeKept
  <2>4. CASE c # e
    BY <2>3, <2>4 DEF ChallengeMoved
  <2>5. CASE c = e /\ challenge[c].status = "submitted"
    BY <2>3, <2>5 DEF ChallengeMoved
  <2>6. CASE c = e /\ challenge[c].status = "rejected"
    <3>1. challenge'[c].overturned
      BY <2>3, <2>6
    <3> QED BY <2>1, <2>3, <2>6, <3>1 DEF ChallengeMoved
  <2> QED BY <2>1, <2>4, <2>5, <2>6
<1>10. ASSUME UNCHANGED challenge PROVE ChallengeMoved(c)
  BY <1>10, ChallengeUnchanged
<1>11. ASSUME NEW u \in Users, NEW p \in Projects,
              \/ CreateDraft(u, p) \/ UpdateDraft(u, p) \/ DeleteDraft(u, p)
              \/ Publish(u, p) \/ Close(u, p)
              \/ \E b \in BOOLEAN : SetPaused(u, p, b)
              \/ \E b \in BOOLEAN : SetArchived(u, p, b)
       PROVE  ChallengeMoved(c)
  BY <1>10, <1>11 DEF CreateDraft, UpdateDraft, DeleteDraft, Publish, Close, SetPaused, SetArchived
<1>12. ASSUME NEW u \in Users, NEW e \in Challenges,
              \/ \E evidence \in Evidence : SubmitCheck(u, e, evidence)
              \/ \E d \in Disputes : OpenDispute(u, e, d)
       PROVE  ChallengeMoved(c)
  BY <1>10, <1>12 DEF SubmitCheck, OpenDispute
<1>13. ASSUME NEW u \in Users, \/ \E d \in Disputes : ResolveDeny(u, d)
                              \/ \E s \in AccountStatus : SetAccount(u, s)
       PROVE  ChallengeMoved(c)
  BY <1>10, <1>13 DEF ResolveDeny, SetAccount
<1>14. ASSUME Tick \/ UNCHANGED vars \/ \E e \in Challenges : SubmitRollback(e)
       PROVE  ChallengeMoved(c)
  BY <1>10, <1>14 DEF Tick, vars, SubmitRollback
<1> QED BY <1>1, <1>2, <1>3, <1>4, <1>5, <1>6, <1>7, <1>8, <1>9, <1>11, <1>12, <1>13, <1>14
        DEF Next, ProjectStep, ChallengeStep, DisputeStep

-----------------------------------------------------------------------------
\* What one transaction can do to a dispute.
DisputeMoved(d) ==
    /\ dispute'[d].challenge = dispute[d].challenge
    /\ dispute'[d].openedBy = dispute[d].openedBy
    /\ \/ /\ dispute'[d].status = dispute[d].status
          /\ dispute'[d].resolvedBy = dispute[d].resolvedBy
       \/ /\ dispute[d].status = "open" /\ dispute'[d].status = "resolved_paid"
          /\ challenge[dispute[d].challenge].status \in {"submitted", "rejected"}
          /\ challenge'[dispute[d].challenge].status = "approved"
       \/ /\ dispute[d].status = "open" /\ dispute'[d].status = "resolved_denied"
          /\ ~Party(dispute'[d].resolvedBy, dispute[d].challenge)
          /\ UNCHANGED <<challenge, project>>

\* Once opened, a dispute is only ever resolved, for one side or the other.
LEMMA DisputeHistory ==
  ASSUME TypeOK, RowsLinked, [Next]_vars, NEW d \in Disputes
  PROVE  DisputeMoved(d) \/ \E u \in Users, c \in Challenges : OpenDispute(u, c, d)
<1> DEFINE Opened == \E u \in Users, c \in Challenges : OpenDispute(u, c, d)
<1>0. SUFFICES ASSUME ~Opened PROVE DisputeMoved(d)
  OBVIOUS
<1>1. ASSUME NEW u \in Users, NEW c \in Challenges, NEW e \in Disputes, OpenDispute(u, c, e)
      PROVE  DisputeMoved(d)
  <2>1. e # d
    BY <1>0, <1>1
  <2>2. dispute'[d] = dispute[d]
    BY <1>1, <2>1 DEF OpenDispute, TypeOK
  <2> QED BY <2>2 DEF DisputeMoved
<1>2. ASSUME NEW u \in Users, NEW c \in Challenges, ReviewApprove(u, c) PROVE DisputeMoved(d)
  <2>1. challenge[c].status = "submitted" /\ challenge'[c].status = "approved"
    BY <1>2 DEF ReviewApprove, TypeOK, ChallengeRow
  <2>2. dispute'[d] = IF dispute[d].challenge = c /\ dispute[d].status = "open"
           THEN [dispute[d] EXCEPT !.status = "resolved_paid", !.resolvedBy = u]
           ELSE dispute[d]
    BY <1>2 DEF ReviewApprove
  <2> QED BY <2>1, <2>2 DEF DisputeMoved, TypeOK, DisputeRow
<1>3. ASSUME NEW u \in Users, NEW e \in Disputes, ResolveDeny(u, e) PROVE DisputeMoved(d)
  BY <1>3 DEF ResolveDeny, Adjudicates, DisputeMoved, TypeOK, DisputeRow
<1>4. ASSUME NEW u \in Users, NEW e \in Disputes, ResolvePay(u, e) PROVE DisputeMoved(d)
  <2> DEFINE c == dispute[e].challenge
  <2>1. /\ c \in Challenges /\ challenge[c].status \in {"submitted", "rejected"}
        /\ challenge'[c].status = "approved" /\ dispute[e].status = "open"
    BY <1>4 DEF ResolvePay, Adjudicates, RowsLinked, TypeOK, ChallengeRow
  <2>2. dispute' = [dispute EXCEPT ![e].status = "resolved_paid", ![e].resolvedBy = u]
    BY <1>4 DEF ResolvePay
  <2> QED BY <2>1, <2>2 DEF DisputeMoved, TypeOK, DisputeRow
<1>5. ASSUME UNCHANGED dispute PROVE DisputeMoved(d)
  BY <1>5 DEF DisputeMoved
<1>6. ASSUME NEW u \in Users, NEW p \in Projects, ProjectStep(u, p) PROVE UNCHANGED dispute
  BY <1>6 DEF ProjectStep, CreateDraft, UpdateDraft, DeleteDraft, Publish, Close, SetPaused,
       SetArchived, Accept
<1>7. ASSUME NEW u \in Users, NEW c \in Challenges,
             \/ \E evidence \in Evidence : SubmitCheck(u, c, evidence)
             \/ Cancel(u, c) \/ Withdraw(u, c) \/ ReviewReject(u, c)
             \/ RateOwner(u, c) \/ Tip(u, c)
      PROVE  UNCHANGED dispute
  BY <1>7 DEF SubmitCheck, Cancel, Withdraw, ReviewReject, RateOwner, Tip
<1>8. ASSUME \/ Tick \/ UNCHANGED vars
             \/ \E c \in Challenges : SubmitCommit(c) \/ SubmitRollback(c)
             \/ \E u \in Users, s \in AccountStatus : SetAccount(u, s)
      PROVE  UNCHANGED dispute
  BY <1>8 DEF Tick, vars, SubmitCommit, SubmitRollback, SetAccount
<1> QED BY <1>1, <1>2, <1>3, <1>4, <1>5, <1>6, <1>7, <1>8 DEF Next, ChallengeStep, DisputeStep

-----------------------------------------------------------------------------
\* What one transaction can do to a project that has been published.
ProjectMoved(p) ==
    /\ project'[p].owner = project[p].owner /\ project'[p].slots = project[p].slots
    /\ project'[p].status # "closed" => project[p].status # "closed"
    /\ project'[p].status = "closed" =>
         project[p].status = "closed" \/ \E u \in Users : Close(u, p)

\* A published project keeps its owner and slots, and only Close closes it.
LEMMA ProjectHistory ==
  ASSUME TypeOK, RowsLinked, EscrowCoversUnpaidSlots, [Next]_vars, NEW p \in Projects,
         project[p].status \notin {"none", "draft"}
  PROVE  ProjectMoved(p)
<1>1. ASSUME NEW u \in Users, NEW q \in Projects,
             CreateDraft(u, q) \/ UpdateDraft(u, q) \/ DeleteDraft(u, q) \/ Publish(u, q)
      PROVE  ProjectMoved(p)
  <2>1. p # q
    BY <1>1 DEF CreateDraft, UpdateDraft, DeleteDraft, Publish
  <2>2. project'[p] = project[p]
    BY <1>1, <2>1 DEF CreateDraft, UpdateDraft, DeleteDraft, Publish, TypeOK
  <2> QED BY <2>2 DEF ProjectMoved
<1>2. ASSUME NEW u \in Users, NEW q \in Projects, NEW b \in BOOLEAN,
             SetPaused(u, q, b) \/ SetArchived(u, q, b)
      PROVE  ProjectMoved(p)
  <2>1. CASE SetPaused(u, q, b)
    BY <2>1 DEF SetPaused, ProjectMoved, TypeOK, ProjectRow
  <2>2. CASE SetArchived(u, q, b)
    BY <2>2 DEF SetArchived, ProjectMoved, TypeOK, ProjectRow
  <2> QED BY <1>2, <2>1, <2>2
<1>3. ASSUME NEW u \in Users, NEW q \in Projects, Close(u, q) PROVE ProjectMoved(p)
  <2>1. CASE q = p
    <3>1. /\ project'[p].owner = project[p].owner /\ project'[p].slots = project[p].slots
          /\ project'[p].status = "closed"
      BY <1>3, <2>1 DEF Close, TypeOK, ProjectRow
    <3> QED BY <1>3, <2>1, <3>1 DEF ProjectMoved
  <2>2. CASE q # p
    <3>1. project'[p] = project[p]
      BY <1>3, <2>2 DEF Close, TypeOK
    <3> QED BY <3>1 DEF ProjectMoved
  <2> QED BY <2>1, <2>2
<1>4. ASSUME NEW c \in Challenges, NEW q \in Nat, NEW kind,
             challenge[c].project \in Projects, Pay(challenge[c].project, c, q, kind)
      PROVE  ProjectMoved(p)
  <2> DEFINE x == challenge[c].project
  <2>1. /\ project'[p].owner = project[p].owner /\ project'[p].slots = project[p].slots
        /\ project'[p].status = IF p = x /\ project[x].escrow = q
                                THEN "completed" ELSE project[p].status
    BY <1>4, PayKeepsTerms
  <2>2. project[x].escrow > 0
    BY <1>4 DEF Pay, TypeOK, ProjectRow
  <2>3. project[x].status # "closed"
    BY <1>4, <2>2 DEF EscrowCoversUnpaidSlots, Open
  <2> QED BY <2>1, <2>3 DEF ProjectMoved
<1>5. ASSUME NEW u \in Users, NEW c \in Challenges, ReviewApprove(u, c) PROVE ProjectMoved(p)
  BY <1>4, <1>5 DEF ReviewApprove, RowsLinked, TypeOK, ChallengeRow
<1>6. ASSUME NEW u \in Users, NEW d \in Disputes, ResolvePay(u, d) PROVE ProjectMoved(p)
  BY <1>4, <1>6 DEF ResolvePay, Adjudicates, RowsLinked, TypeOK, DisputeRow
<1>7. ASSUME UNCHANGED project PROVE ProjectMoved(p)
  BY <1>7 DEF ProjectMoved
<1>8. ASSUME NEW u \in Users, NEW c \in Challenges,
             \/ \E q \in Projects : Accept(u, q, c)
             \/ \E evidence \in Evidence : SubmitCheck(u, c, evidence)
             \/ \E d \in Disputes : OpenDispute(u, c, d)
             \/ Cancel(u, c) \/ Withdraw(u, c) \/ ReviewReject(u, c)
             \/ RateOwner(u, c) \/ Tip(u, c)
      PROVE  UNCHANGED project
  BY <1>8 DEF Accept, SubmitCheck, OpenDispute, Cancel, Withdraw, ReviewReject, RateOwner, Tip
<1>9. ASSUME \/ Tick \/ UNCHANGED vars
             \/ \E c \in Challenges : SubmitCommit(c) \/ SubmitRollback(c)
             \/ \E u \in Users, s \in AccountStatus : SetAccount(u, s)
             \/ \E u \in Users, d \in Disputes : ResolveDeny(u, d)
      PROVE  UNCHANGED project
  BY <1>9 DEF Tick, vars, SubmitCommit, SubmitRollback, SetAccount, ResolveDeny
<1> QED BY <1>1, <1>2, <1>3, <1>5, <1>6, <1>7, <1>8, <1>9
        DEF Next, ProjectStep, ChallengeStep, DisputeStep

-----------------------------------------------------------------------------
(* Settlement of closed projects.                                          *)

\* A closed project leaves nobody waiting.
LEMMA NextClosed ==
  ASSUME TypeOK, RowsLinked, EscrowCoversUnpaidSlots, ClosedIsSettled, [Next]_vars
  PROVE  ClosedIsSettled'
<1>0. RowsLinked'
  BY NextRowsLinked
<1>1. SUFFICES ASSUME NEW c \in Challenges, challenge'[c].status # "none",
                      project'[challenge'[c].project].status = "closed"
               PROVE  /\ challenge'[c].status \notin {"accepted", "submitted"}
                      /\ ~HasDispute(c, {"open"})'
  BY <1>0 DEF ClosedIsSettled, RowsLinked
<1>2. ASSUME NEW u \in Users, NEW p \in Projects, Accept(u, p, c) PROVE FALSE
  BY <1>1, <1>2 DEF Accept, TypeOK, NoChallenge
<1> DEFINE p == challenge[c].project
<1>3. ChallengeMoved(c) /\ challenge[c].status # "none" /\ challenge'[c].project = p
  BY <1>1, <1>2, ChallengeHistory DEF ChallengeMoved, ChallengeKept
<1>4. p \in Projects /\ project[p].status \notin {"none", "draft"}
  BY <1>3 DEF RowsLinked
<1>5. ProjectMoved(p)
  BY <1>4, ProjectHistory
<1>6. CASE project[p].status = "closed"
  <2>1. challenge[c].status \notin {"accepted", "submitted"} /\ ~HasDispute(c, {"open"})
    BY <1>3, <1>6 DEF ClosedIsSettled
  <2>2. ASSUME NEW d \in Disputes, dispute'[d].challenge = c, dispute'[d].status = "open"
        PROVE  FALSE
    <3>1. CASE DisputeMoved(d)
      BY <2>1, <2>2, <3>1 DEF DisputeMoved, HasDispute
    <3>2. ASSUME NEW u \in Users, NEW e \in Challenges, OpenDispute(u, e, d) PROVE FALSE
      BY <1>6, <2>2, <3>2 DEF OpenDispute, TypeOK
    <3> QED BY <3>1, <3>2, DisputeHistory
  <2> QED BY <1>3, <2>1, <2>2 DEF ChallengeMoved, HasDispute
<1>7. CASE project[p].status # "closed"
  <2>1. PICK u \in Users : Close(u, p)
    BY <1>1, <1>3, <1>5, <1>7 DEF ProjectMoved
  <2> QED BY <2>1 DEF Close, Of, HasDispute
<1> QED BY <1>6, <1>7

-----------------------------------------------------------------------------
(* Disputes.                                                               *)

\* Every operation keeps disputes fair: the keys of a case guard the opening of another.
LEMMA NextDisputes ==
  ASSUME TypeOK, RowsLinked, EscrowCoversUnpaidSlots, DisputesAreFair, [Next]_vars
  PROVE  DisputesAreFair'
<1>1. ASSUME NEW d \in Disputes, NEW e \in Disputes, d # e, dispute'[d].status # "none",
             dispute'[d].challenge = dispute'[e].challenge
      PROVE  /\ ~(dispute'[d].status = "open" /\ dispute'[e].status = "open")
             /\ dispute'[d].openedBy # dispute'[e].openedBy
  <2>1. CASE DisputeMoved(d) /\ DisputeMoved(e)
    BY <1>1, <2>1 DEF DisputeMoved, DisputesAreFair
  <2>2. ASSUME NEW u \in Users, NEW c \in Challenges,
               OpenDispute(u, c, d) \/ OpenDispute(u, c, e)
        PROVE  /\ ~(dispute'[d].status = "open" /\ dispute'[e].status = "open")
               /\ dispute'[d].openedBy # dispute'[e].openedBy
    <3>1. CASE OpenDispute(u, c, d)
      <4>1. dispute'[d].challenge = c /\ dispute'[d].openedBy = u /\ dispute'[e] = dispute[e]
        BY <1>1, <3>1 DEF OpenDispute, TypeOK
      <4> QED BY <1>1, <3>1, <4>1 DEF OpenDispute, HasDispute
    <3>2. CASE OpenDispute(u, c, e)
      <4>1. dispute'[e].challenge = c /\ dispute'[e].openedBy = u /\ dispute'[d] = dispute[d]
        BY <1>1, <3>2 DEF OpenDispute, TypeOK
      <4> QED BY <1>1, <3>2, <4>1 DEF OpenDispute, HasDispute
    <3> QED BY <2>2, <3>1, <3>2
  <2> QED BY <2>1, <2>2, DisputeHistory
<1>2. ASSUME NEW d \in Disputes, dispute'[d].status = "open"
      PROVE  challenge'[dispute'[d].challenge].status
                 \in {"accepted", "submitted", "approved", "rejected"}
  <2>1. CASE DisputeMoved(d)
    <3> DEFINE c == dispute[d].challenge
    <3>1. dispute[d].status = "open" /\ dispute'[d].challenge = c /\ c \in Challenges
      BY <1>2, <2>1 DEF DisputeMoved, RowsLinked
    <3>2. challenge[c].status \in {"accepted", "submitted", "approved", "rejected"}
      BY <3>1 DEF DisputesAreFair
    <3>3. ChallengeMoved(c)
      BY <3>1, <3>2, ChallengeHistory DEF Accept
    <3> QED BY <3>1, <3>2, <3>3 DEF ChallengeMoved, HasDispute
  <2>2. ASSUME NEW u \in Users, NEW c \in Challenges, OpenDispute(u, c, d)
        PROVE  challenge'[dispute'[d].challenge].status
                 \in {"accepted", "submitted", "approved", "rejected"}
    <3>1. dispute'[d].challenge = c /\ challenge' = challenge
      BY <2>2 DEF OpenDispute, TypeOK
    <3>2. challenge[c].status \in ChallengeStatus
      BY DEF TypeOK, ChallengeRow
    <3> QED BY <2>2, <3>1, <3>2 DEF OpenDispute, ChallengeStatus
  <2> QED BY <2>1, <2>2, DisputeHistory
<1>3. ASSUME NEW d \in Disputes, dispute'[d].status = "resolved_denied"
      PROVE  ~Party(dispute[d].resolvedBy, dispute[d].challenge)'
  <2>1. DisputeMoved(d)
    BY <1>3, DisputeHistory DEF OpenDispute, TypeOK
  <2> DEFINE c == dispute[d].challenge
             p == challenge[c].project
  <2>2. /\ c \in Challenges /\ challenge[c].status # "none" /\ dispute'[d].challenge = c
        /\ p \in Projects /\ project[p].status \notin {"none", "draft"}
    BY <1>3, <2>1 DEF DisputeMoved, RowsLinked
  <2>3. ChallengeKept(c) /\ project'[p].owner = project[p].owner
    BY <2>2, ChallengeHistory, ProjectHistory DEF ChallengeMoved, Accept, ProjectMoved
  <2>4. ~Party(dispute'[d].resolvedBy, c)
    BY <1>3, <2>1 DEF DisputeMoved, DisputesAreFair
  <2> QED BY <2>2, <2>3, <2>4 DEF Party, ChallengeKept
<1> QED BY <1>1, <1>2, <1>3 DEF DisputesAreFair

-----------------------------------------------------------------------------
(* Attempts of one contributor.                                            *)

TwoCases(c) == \E d, e \in Disputes : d # e /\ dispute[d].challenge = c
                                            /\ dispute[e].challenge = c

\* Why somebody may work on a project after an earlier attempt: it was given up,
\* or its rejection is final, or a case on it was denied.
RetriesJustified ==
    \A c, e \in Challenges :
      /\ c # e
      /\ challenge[c].status \in {"accepted", "submitted"}
      /\ challenge[c].project = challenge[e].project
      /\ challenge[c].user = challenge[e].user
      => /\ challenge[e].status \notin {"accepted", "submitted"}
         /\ challenge[e].status = "approved" => TwoCases(e)
         /\ challenge[e].status = "rejected" =>
              \/ HasDispute(e, {"resolved_denied"})
              \/ ~InAppealWindow(e) /\ ~HasDispute(e, {"open"})

\* The number of cases on a challenge tells whether there are two.
LEMMA TwoCasesCounted ==
  ASSUME NEW c \in Challenges PROVE TwoCases(c) <=> Cardinality(Cases(c)) > 1
<1>1. IsFiniteSet(Cases(c)) /\ Cardinality(Cases(c)) \in Nat
  BY RowsAssumption, FS_Subset, FS_CardinalityType DEF Cases
<1>2. ASSUME TwoCases(c) PROVE Cardinality(Cases(c)) > 1
  <2>1. PICK d, e \in Disputes : d # e /\ dispute[d].challenge = c /\ dispute[e].challenge = c
    BY <1>2 DEF TwoCases
  <2>2. IsFiniteSet({d}) /\ Cardinality({d}) = 1
    BY FS_Singleton
  <2>3. Cardinality({d} \cup {e}) = 2
    <3>1. e \notin {d}
      BY <2>1
    <3> QED BY <2>2, <3>1, FS_AddElement
  <2>4. {d} \cup {e} \in SUBSET Cases(c)
    BY <2>1 DEF Cases
  <2>5. Cardinality({d} \cup {e}) <= Cardinality(Cases(c))
    BY <1>1, <2>4, FS_Subset
  <2> QED BY <1>1, <2>3, <2>5
<1>3. ASSUME ~TwoCases(c) PROVE ~(Cardinality(Cases(c)) > 1)
  <2>1. CASE Cases(c) = {}
    BY <2>1, FS_EmptySet
  <2>2. ASSUME NEW d \in Cases(c) PROVE ~(Cardinality(Cases(c)) > 1)
    <3>1. Cases(c) = {d}
      BY <1>3, <2>2 DEF TwoCases, Cases
    <3>2. Cardinality({d}) = 1
      BY FS_Singleton
    <3> QED BY <3>1, <3>2
  <2> QED BY <2>1, <2>2
<1> QED BY <1>2, <1>3

\* Time never runs backwards.
LEMMA NowGrows == ASSUME TypeOK, [Next]_vars PROVE now \in Nat /\ now' \in Nat /\ now <= now'
<1>0. now \in Nat
  BY TimeAssumption DEF TypeOK
<1>1. CASE Tick
  BY <1>0, <1>1 DEF Tick
<1>2. ASSUME UNCHANGED now PROVE now <= now' /\ now' \in Nat
  BY <1>0, <1>2
<1>3. ASSUME NEW u \in Users, NEW p \in Projects, ProjectStep(u, p) PROVE UNCHANGED now
  BY <1>3 DEF ProjectStep, CreateDraft, UpdateDraft, DeleteDraft, Publish, Close, SetPaused,
       SetArchived, Accept
<1>4. ASSUME NEW u \in Users, NEW c \in Challenges, ChallengeStep(u, c) PROVE UNCHANGED now
  BY <1>4 DEF ChallengeStep, SubmitCheck, Cancel, Withdraw, ReviewReject, ReviewApprove,
       RateOwner, Tip, OpenDispute
<1>5. ASSUME NEW u \in Users, NEW d \in Disputes, DisputeStep(u, d) PROVE UNCHANGED now
  BY <1>5 DEF DisputeStep, ResolveDeny, ResolvePay
<1>6. ASSUME \/ UNCHANGED vars
             \/ \E c \in Challenges : SubmitCommit(c) \/ SubmitRollback(c)
             \/ \E u \in Users, s \in AccountStatus : SetAccount(u, s)
      PROVE  UNCHANGED now
  BY <1>6 DEF vars, SubmitCommit, SubmitRollback, SetAccount
<1> QED BY <1>0, <1>1, <1>2, <1>3, <1>4, <1>5, <1>6 DEF Next

\* A second attempt stays justified by a first one that is over.
LEMMA NextRetries ==
  ASSUME TypeOK, RowsLinked, DisputesAreFair, RetriesJustified, [Next]_vars
  PROVE  RetriesJustified'
<1> DEFINE Live(x) == challenge[x].status \in {"accepted", "submitted"}
           Goal(x) ==
             /\ challenge'[x].status \notin {"accepted", "submitted"}
             /\ challenge'[x].status = "approved" => TwoCases(x)'
             /\ challenge'[x].status = "rejected" =>
                  \/ HasDispute(x, {"resolved_denied"})'
                  \/ ~InAppealWindow(x)' /\ ~HasDispute(x, {"open"})'
<1>1. SUFFICES ASSUME NEW c \in Challenges, NEW e \in Challenges, c # e,
                      challenge'[c].status \in {"accepted", "submitted"},
                      challenge'[c].project = challenge'[e].project,
                      challenge'[c].user = challenge'[e].user
               PROVE  Goal(e)
  BY DEF RetriesJustified
\* The new attempt is the one that is accepted now.
<1>2. ASSUME NEW u \in Users, NEW p \in Projects, Accept(u, p, c) PROVE Goal(e)
  <2>1. /\ challenge'[e] = challenge[e] /\ challenge'[c].project = p /\ challenge'[c].user = u
        /\ UNCHANGED <<dispute, now>>
    BY <1>1, <1>2 DEF Accept, TypeOK, NoChallenge
  <2>2. /\ challenge[e].status \notin {"accepted", "submitted", "approved"}
        /\ ~RetryPending(e)
    BY <1>1, <1>2, <2>1 DEF Accept, Of
  <2> QED BY <2>1, <2>2 DEF RetryPending, HasDispute, InAppealWindow
\* Nobody accepts the other one beside a live attempt.
<1>3. ASSUME NEW u \in Users, NEW p \in Projects, Accept(u, p, e) PROVE FALSE
  <2>1. challenge'[c] = challenge[c] /\ challenge'[e].project = p /\ challenge'[e].user = u
    BY <1>1, <1>3 DEF Accept, TypeOK, NoChallenge
  <2> QED BY <1>1, <1>3, <2>1 DEF Accept, Of
<1>4. ASSUME ChallengeMoved(c), ChallengeMoved(e) PROVE Goal(e)
  <2>1. Live(c) /\ challenge[c].project = challenge[e].project
                /\ challenge[c].user = challenge[e].user
    BY <1>1, <1>4 DEF ChallengeMoved, ChallengeKept
  <2>2. /\ challenge[e].status \notin {"accepted", "submitted"}
        /\ challenge[e].status = "approved" => TwoCases(e)
        /\ challenge[e].status = "rejected" =>
              \/ HasDispute(e, {"resolved_denied"})
              \/ ~InAppealWindow(e) /\ ~HasDispute(e, {"open"})
    BY <1>1, <2>1 DEF RetriesJustified
  <2>3. ASSUME NEW d \in Disputes, dispute[d].status # "none"
        PROVE  DisputeMoved(d)
    BY <2>3, DisputeHistory DEF OpenDispute
  <2>4. \A d \in Disputes : dispute[d].challenge = e =>
          /\ dispute[d].status # "none" /\ dispute'[d].challenge = e
          /\ dispute[d].status = "resolved_denied" => dispute'[d].status = "resolved_denied"
    BY <2>3, RowsAssumption DEF DisputeMoved, RowsLinked, NoDispute
  <2>5. CASE challenge[e].status = "approved"
    <3>1. challenge'[e].status = "approved"
      BY <1>4, <2>5 DEF ChallengeMoved
    <3>2. TwoCases(e)'
      BY <2>2, <2>4, <2>5 DEF TwoCases
    <3> QED BY <3>1, <3>2
  <2>6. CASE challenge[e].status = "rejected" /\ challenge'[e].status = "approved"
    <3>1. PICK d \in Disputes : dispute[d].challenge = e /\ dispute[d].status = "open"
      BY <1>4, <2>6 DEF ChallengeMoved
    <3>2. PICK f \in Disputes : dispute[f].challenge = e /\ dispute[f].status = "resolved_denied"
      BY <2>2, <2>6, <3>1 DEF HasDispute
    <3>3. d # f /\ dispute'[d].challenge = e /\ dispute'[f].challenge = e
      BY <2>4, <3>1, <3>2
    <3> QED BY <2>6, <3>3 DEF TwoCases
  <2>7. CASE challenge[e].status = "rejected" /\ challenge'[e].status = "rejected"
    <3>1. challenge'[e].rejectedAt = challenge[e].rejectedAt /\ challenge[e].rejectedAt \in Nat
      BY <1>4, <2>7 DEF ChallengeMoved, TypeOK, ChallengeRow
    <3>2. CASE HasDispute(e, {"resolved_denied"})
      BY <2>4, <2>7, <3>2 DEF HasDispute
    <3>3. CASE ~InAppealWindow(e) /\ ~HasDispute(e, {"open"})
      <4>1. ~InAppealWindow(e)'
        BY <3>1, <3>3, NowGrows, TimeAssumption DEF InAppealWindow
      <4>2. ASSUME NEW d \in Disputes, dispute'[d].challenge = e, dispute'[d].status = "open"
            PROVE  FALSE
        <5>1. CASE DisputeMoved(d)
          BY <3>3, <4>2, <5>1 DEF DisputeMoved, HasDispute
        <5>2. ASSUME NEW u \in Users, NEW x \in Challenges, OpenDispute(u, x, d) PROVE FALSE
          BY <2>7, <3>3, <4>2, <5>2 DEF OpenDispute, TypeOK
        <5> QED BY <5>1, <5>2, DisputeHistory
      <4> QED BY <2>7, <4>1, <4>2 DEF HasDispute
    <3> QED BY <2>2, <2>7, <3>2, <3>3
  <2> QED BY <1>4, <2>2, <2>5, <2>6, <2>7 DEF ChallengeMoved
<1> QED BY <1>2, <1>3, <1>4, ChallengeHistory

\* Justified attempts leave at most one of them live.
LEMMA RetriesGiveOneLive == ASSUME RetriesJustified PROVE OneLiveAttempt
  BY TwoCasesCounted DEF RetriesJustified, OneLiveAttempt

-----------------------------------------------------------------------------
(* Reward slots.                                                           *)

\* The challenges that SlotsNotOverbooked counts.
Booked(p) == {c \in Occupied(p) : ~TwoCases(c)}

\* The challenges counted are those that occupy a slot and have one case at most.
LEMMA BookedCounted ==
  ASSUME NEW p PROVE Booked(p) = {c \in Occupied(p) : Cardinality(Cases(c)) <= 1}
<1>1. \A c \in Challenges : Cardinality(Cases(c)) \in Nat
  BY RowsAssumption, FS_Subset, FS_CardinalityType DEF Cases
<1>2. \A c \in Challenges : ~TwoCases(c) <=> Cardinality(Cases(c)) <= 1
  BY <1>1, TwoCasesCounted
<1> QED BY <1>2 DEF Booked, Occupied, Of

\* The challenges that occupy a slot are finitely many.
LEMMA OccupiedFinite ==
  ASSUME NEW p
  PROVE  IsFiniteSet(Occupied(p)) /\ Cardinality(Occupied(p)) \in Nat
  BY RowsAssumption, FS_Subset, FS_CardinalityType DEF Occupied, Of

\* The rows of a case never leave their challenge, and a decided case stays decided.
LEMMA CasesStay ==
  ASSUME TypeOK, RowsLinked, [Next]_vars, NEW d \in Disputes, dispute[d].challenge \in Challenges
  PROVE  /\ dispute'[d].challenge = dispute[d].challenge
         /\ dispute[d].status # "none"
         /\ dispute[d].status \in {"resolved_paid", "resolved_denied"} =>
              dispute'[d].status = dispute[d].status
<1>1. dispute[d].status # "none"
  BY RowsAssumption DEF RowsLinked, NoDispute
<1>2. DisputeMoved(d)
  BY <1>1, DisputeHistory DEF OpenDispute
<1> QED BY <1>1, <1>2 DEF DisputeMoved

\* Apart from an acceptance no step gives a challenge a slot that it had not, unless
\* it is the second case on it.
LEMMA OccupationShrinks ==
  ASSUME TypeOK, RowsLinked, [Next]_vars, NEW c \in Challenges, ChallengeMoved(c),
         Occupies(c)', ~TwoCases(c)'
  PROVE  Occupies(c) /\ ~TwoCases(c)
<1>1. ~TwoCases(c)
  BY CasesStay DEF TwoCases
<1>a. SUFFICES Occupies(c)
  BY <1>1
<1>2. CASE challenge'[c].status \in {"accepted", "submitted", "approved"}
  BY <1>2 DEF ChallengeMoved, Occupies, HasDispute
<1>3. CASE Appealable(c)'
  <2>1. challenge'[c].status = "rejected"
    BY <1>3 DEF Appealable
  <2>2. CASE challenge[c].status = "submitted"
    BY <2>2 DEF Occupies
  <2>3. CASE challenge[c].status # "submitted"
    <3>1. /\ challenge[c].status = "rejected" /\ challenge'[c].rejectedAt = challenge[c].rejectedAt
          /\ challenge[c].rejectedAt \in Nat
      BY <2>1, <2>3 DEF ChallengeMoved, TypeOK, ChallengeRow
    <3>2. InAppealWindow(c)
      BY <1>3, <3>1, NowGrows, TimeAssumption DEF Appealable, InAppealWindow
    <3>3. ~HasDispute(c, {"resolved_paid", "resolved_denied"})
      BY <1>3, CasesStay DEF Appealable, HasDispute
    <3> QED BY <3>1, <3>2, <3>3 DEF Occupies, Appealable
  <2> QED BY <2>2, <2>3
<1>4. CASE HasDispute(c, {"open"})'
  <2>1. PICK d \in Disputes : dispute'[d].challenge = c /\ dispute'[d].status = "open"
    BY <1>4 DEF HasDispute
  <2>2. CASE DisputeMoved(d)
    BY <2>1, <2>2 DEF DisputeMoved, Occupies, HasDispute
  <2>3. ASSUME NEW u \in Users, NEW x \in Challenges, OpenDispute(u, x, d) PROVE Occupies(c)
    <3>1. x = c /\ dispute[d].status = "none"
      BY <2>1, <2>3 DEF OpenDispute, TypeOK
    <3>2. /\ challenge[c].status \in {"accepted", "submitted", "approved", "rejected"}
          /\ challenge[c].status = "rejected" => InAppealWindow(c)
      BY <2>3, <3>1 DEF OpenDispute, TypeOK, ChallengeRow, ChallengeStatus
    <3>3. ~HasDispute(c, {"resolved_paid", "resolved_denied"})
      <4>1. ASSUME NEW f \in Disputes, dispute[f].challenge = c, dispute[f].status # "none"
            PROVE  FALSE
        <5>1. f # d /\ dispute'[f].challenge = c
          BY <3>1, <4>1, CasesStay
        <5> QED BY <2>1, <5>1 DEF TwoCases
      <4> QED BY <4>1 DEF HasDispute
    <3> QED BY <3>2, <3>3 DEF Occupies, Appealable
  <2> QED BY <2>2, <2>3, DisputeHistory
<1> QED BY <1>1, <1>2, <1>3, <1>4 DEF Occupies

\* No project has more slots taken than it has.
BookedFits == \A p \in Projects : Cardinality(Booked(p)) <= project[p].slots

\* The counting invariant gives the property.
LEMMA FitsNotOverbooked == ASSUME BookedFits PROVE SlotsNotOverbooked
  BY BookedCounted DEF BookedFits, SlotsNotOverbooked

\* No operation books more slots than a project has.
LEMMA NextSlots ==
  ASSUME TypeOK, RowsLinked, EscrowCoversUnpaidSlots, BookedFits, [Next]_vars
  PROVE  BookedFits'
<1>0. TypeOK'
  BY NextTypeOK
<1>1. SUFFICES ASSUME NEW p \in Projects PROVE Cardinality(Booked(p)') <= project'[p].slots
  BY DEF BookedFits
<1>2. Cardinality(Booked(p)) <= project[p].slots
  BY DEF BookedFits
<1>3. /\ IsFiniteSet(Occupied(p)) /\ Cardinality(Occupied(p)) \in Nat
      /\ project[p].slots \in Nat /\ project'[p].slots \in Nat
  BY <1>0, OccupiedFinite DEF TypeOK, ProjectRow
\* A project without challenges.
<1>4. CASE project[p].status \in {"none", "draft"}
  <2>1. Booked(p)' = {}
    <3>1. SUFFICES ASSUME NEW c \in Challenges, challenge'[c].project = p PROVE FALSE
      BY DEF Booked, Occupied, Of
    <3>2. challenge[c].project # p
      BY <1>4, RowsAssumption DEF RowsLinked, NoChallenge
    <3>3. ASSUME NEW u \in Users, NEW q \in Projects, Accept(u, q, c) PROVE FALSE
      BY <1>4, <3>1, <3>3 DEF Accept, TypeOK, NoChallenge
    <3> QED BY <3>1, <3>2, <3>3, ChallengeHistory DEF ChallengeMoved, ChallengeKept
  <2> QED BY <1>3, <2>1, FS_EmptySet
<1>5. CASE project[p].status \notin {"none", "draft"}
  <2>0. project'[p].slots = project[p].slots
    BY <1>5, ProjectHistory DEF ProjectMoved
  <2>1. ASSUME NEW u \in Users, NEW c \in Challenges, Accept(u, p, c)
        PROVE  Cardinality(Booked(p)') <= project'[p].slots
    <3>1. Cardinality(Occupied(p)) < project[p].slots
      BY <2>1 DEF Accept
    <3>2. Booked(p)' \in SUBSET (Occupied(p) \cup {c})
      <4>1. \A x \in Challenges \ {c} : challenge'[x] = challenge[x]
        BY <2>1 DEF Accept, TypeOK
      <4>2. UNCHANGED <<dispute, now>>
        BY <2>1 DEF Accept
      <4> QED BY <4>1, <4>2 DEF Booked, Occupied, Of, Occupies, Appealable, InAppealWindow, HasDispute
    <3>3. /\ IsFiniteSet(Occupied(p) \cup {c})
          /\ Cardinality(Occupied(p) \cup {c}) <= Cardinality(Occupied(p)) + 1
      BY <1>3, FS_AddElement
    <3>4. Cardinality(Booked(p)') <= Cardinality(Occupied(p) \cup {c})
      BY <3>2, <3>3, FS_Subset
    <3>5. Cardinality(Booked(p)') \in Nat /\ Cardinality(Occupied(p) \cup {c}) \in Nat
      BY <3>2, <3>3, FS_Subset, FS_CardinalityType
    <3> QED BY <1>3, <2>0, <3>1, <3>3, <3>4, <3>5
  <2>2. ASSUME ~ \E u \in Users, c \in Challenges : Accept(u, p, c)
        PROVE  Cardinality(Booked(p)') <= project'[p].slots
    <3>1. Booked(p)' \in SUBSET Booked(p)
      <4>1. SUFFICES ASSUME NEW c \in Challenges, challenge'[c].project = p, Occupies(c)',
                            ~TwoCases(c)'
                     PROVE  challenge[c].project = p /\ Occupies(c) /\ ~TwoCases(c)
        BY DEF Booked, Occupied, Of
      <4>2. ASSUME NEW u \in Users, NEW q \in Projects, Accept(u, q, c) PROVE FALSE
        BY <2>2, <4>1, <4>2 DEF Accept, TypeOK, NoChallenge
      <4>3. ChallengeMoved(c)
        BY <4>2, ChallengeHistory
      <4> QED BY <4>1, <4>3, OccupationShrinks DEF ChallengeMoved, ChallengeKept
    <3>2. IsFiniteSet(Booked(p)) /\ Cardinality(Booked(p)) \in Nat
      BY <1>3, FS_Subset, FS_CardinalityType DEF Booked
    <3>3. Cardinality(Booked(p)') <= Cardinality(Booked(p)) /\ Cardinality(Booked(p)') \in Nat
      BY <3>1, <3>2, FS_Subset, FS_CardinalityType
    <3> QED BY <1>2, <1>3, <2>0, <3>2, <3>3
  <2> QED BY <2>1, <2>2
<1> QED BY <1>4, <1>5

-----------------------------------------------------------------------------
(* Money: the ledger and the sum of all quota.                             *)

Settled(c) == challenge[c].status = "approved"

\* A step that moves no money and approves nothing.
NoMoneyMoved ==
    /\ UNCHANGED <<wallet, ledger, payouts>>
    /\ \A p \in Projects :
         /\ project'[p].escrow = project[p].escrow /\ project'[p].fee = project[p].fee
         /\ project'[p].status \in {"none", "draft"} => project[p].status \in {"none", "draft"}
    /\ \A c \in Challenges : Settled(c)' <=> Settled(c)

\* Money moves only when a project is published or closed, a challenge is paid by
\* a review or a dispute, or the sponsor gives a tip.
LEMMA MoneyHistory ==
  ASSUME TypeOK, RowsLinked, EscrowCoversUnpaidSlots, LedgerReconciles, [Next]_vars,
         ~ \E u \in Users, p \in Projects : Publish(u, p) \/ Close(u, p),
         ~ \E u \in Users, c \in Challenges : ReviewApprove(u, c) \/ Tip(u, c),
         ~ \E u \in Users, d \in Disputes : ResolvePay(u, d)
  PROVE  NoMoneyMoved
<1>1. ASSUME NEW u \in Users, NEW p \in Projects,
             CreateDraft(u, p) \/ UpdateDraft(u, p) \/ DeleteDraft(u, p)
      PROVE  NoMoneyMoved
  <2>1. project[p].escrow = 0 /\ project[p].fee = 0 /\ project[p].status \in {"none", "draft"}
    BY <1>1 DEF CreateDraft, UpdateDraft, DeleteDraft, EscrowCoversUnpaidSlots, Open,
         LedgerReconciles
  <2>2. CASE CreateDraft(u, p)
    BY <2>1, <2>2 DEF CreateDraft, NoMoneyMoved, NoProject, Settled, TypeOK, ProjectRow
  <2>3. CASE UpdateDraft(u, p)
    BY <2>1, <2>3 DEF UpdateDraft, NoMoneyMoved, Settled, TypeOK, ProjectRow
  <2>4. CASE DeleteDraft(u, p)
    BY <2>1, <2>4 DEF DeleteDraft, NoMoneyMoved, NoProject, Settled, TypeOK, ProjectRow
  <2> QED BY <1>1, <2>2, <2>3, <2>4
<1>2. ASSUME NEW u \in Users, NEW p \in Projects, NEW b \in BOOLEAN, SetPaused(u, p, b)
      PROVE  NoMoneyMoved
  BY <1>2 DEF SetPaused, NoMoneyMoved, Settled, TypeOK, ProjectRow
<1>3. ASSUME NEW u \in Users, NEW p \in Projects, NEW b \in BOOLEAN, SetArchived(u, p, b)
      PROVE  NoMoneyMoved
  BY <1>3 DEF SetArchived, NoMoneyMoved, Settled, TypeOK, ProjectRow
<1>4. ASSUME NEW u \in Users, NEW p \in Projects, NEW c \in Challenges, Accept(u, p, c)
      PROVE  NoMoneyMoved
  BY <1>4 DEF Accept, NoMoneyMoved, NoChallenge, Settled, TypeOK
<1>5. ASSUME NEW c \in Challenges, SubmitCommit(c) PROVE NoMoneyMoved
  BY <1>5 DEF SubmitCommit, NoMoneyMoved, Settled, TypeOK, ChallengeRow, RowsLinked
<1>6. ASSUME NEW u \in Users, NEW c \in Challenges, Cancel(u, c) PROVE NoMoneyMoved
  BY <1>6 DEF Cancel, NoMoneyMoved, Settled, TypeOK, ChallengeRow
<1>7. ASSUME NEW u \in Users, NEW c \in Challenges, Withdraw(u, c) PROVE NoMoneyMoved
  BY <1>7 DEF Withdraw, NoMoneyMoved, Settled, TypeOK, ChallengeRow
<1>8. ASSUME NEW u \in Users, NEW c \in Challenges, ReviewReject(u, c) PROVE NoMoneyMoved
  BY <1>8 DEF ReviewReject, NoMoneyMoved, Settled, TypeOK, ChallengeRow
<1>9. ASSUME NEW u \in Users, NEW c \in Challenges, RateOwner(u, c) PROVE NoMoneyMoved
  BY <1>9 DEF RateOwner, NoMoneyMoved, Settled, TypeOK, ChallengeRow
<1>10. ASSUME UNCHANGED <<wallet, ledger, payouts, project, challenge>> PROVE NoMoneyMoved
  BY <1>10 DEF NoMoneyMoved, Settled
<1>11. ASSUME NEW u \in Users, NEW c \in Challenges,
              \/ \E evidence \in Evidence : SubmitCheck(u, c, evidence)
              \/ \E d \in Disputes : OpenDispute(u, c, d)
       PROVE  NoMoneyMoved
  BY <1>10, <1>11 DEF SubmitCheck, OpenDispute
<1>12. ASSUME \/ Tick \/ UNCHANGED vars
              \/ \E c \in Challenges : SubmitRollback(c)
              \/ \E u \in Users, s \in AccountStatus : SetAccount(u, s)
              \/ \E u \in Users, d \in Disputes : ResolveDeny(u, d)
       PROVE  NoMoneyMoved
  BY <1>10, <1>12 DEF Tick, vars, SubmitRollback, SetAccount, ResolveDeny
<1> QED BY <1>1, <1>2, <1>3, <1>4, <1>5, <1>6, <1>7, <1>8, <1>9, <1>11, <1>12
        DEF Next, ProjectStep, ChallengeStep, DisputeStep

\* What a payout writes: the contributor's wallet, one ledger row, the payout key.
LEMMA PayWrites ==
  ASSUME TypeOK, NEW p \in Projects, NEW c \in Challenges, NEW q \in Nat,
         NEW kind \in LedgerKind, Pay(p, c, q, kind)
  PROVE  /\ wallet' = AddQuota(wallet, challenge[c].user, q)
         /\ \A x \in Projects, k \in LedgerKind :
              ledger'[x][k] = ledger[x][k] + IF x = p /\ k = kind THEN q ELSE 0
         /\ payouts[c] = 0 /\ payouts'[c] = 1
         /\ \A x \in Challenges \ {c} : payouts'[x] = payouts[x]
<1>1. ledger' = [ledger EXCEPT ![p][kind] = @ + q] /\ ledger \in [Projects -> [LedgerKind -> Nat]]
  BY DEF Pay, TypeOK
<1>2. \A x \in Projects, k \in LedgerKind :
        ledger'[x][k] = ledger[x][k] + IF x = p /\ k = kind THEN q ELSE 0
  BY <1>1
<1>3. payouts' = [payouts EXCEPT ![c] = @ + 1] /\ payouts[c] = 0
      /\ payouts \in [Challenges -> Nat] /\ wallet' = AddQuota(wallet, challenge[c].user, q)
  BY DEF Pay, TypeOK
<1> QED BY <1>2, <1>3

\* Both ways to pay a challenge, in one step that also approves it.
LEMMA PayReconciles ==
  ASSUME TypeOK, RowsLinked, LedgerReconciles, NEW c \in Challenges,
         NEW kind \in {"reward_transfer", "dispute_reward_transfer"},
         challenge[c].status \in {"submitted", "rejected"},
         Pay(challenge[c].project, c, challenge[c].reward, kind),
         \A x \in Challenges :
            challenge'[x].status = IF x = c THEN "approved" ELSE challenge[x].status
  PROVE  LedgerReconciles'
<1> DEFINE p == challenge[c].project
           q == challenge[c].reward
<1>1. p \in Projects /\ q \in Nat /\ kind \in LedgerKind /\ Pay(p, c, q, kind)
  BY DEF RowsLinked, TypeOK, ChallengeRow, LedgerKind
<1>2. project[p].status \notin {"none", "draft"}
  BY DEF RowsLinked
<1> HIDE DEF p, q
<1>3. \A x \in Projects :
        /\ project[x].escrow \in Nat
        /\ project'[x].fee = project[x].fee
        /\ project'[x].escrow = IF x = p THEN project[p].escrow - q ELSE project[x].escrow
        /\ project'[x].status \in {"none", "draft"} => project[x].status \in {"none", "draft"}
  BY <1>1, <1>2, PayKeepsTerms DEF TypeOK, ProjectRow
<1>4. \A x \in Projects, k \in LedgerKind :
        /\ ledger'[x][k] = ledger[x][k] + IF x = p /\ k = kind THEN q ELSE 0
        /\ ledger[x][k] \in Nat
  BY <1>1, PayWrites DEF TypeOK
<1>5. ASSUME NEW x \in Projects
      PROVE  /\ project'[x].escrow =
                  ledger'[x]["escrow_fund"] - ledger'[x]["escrow_refund"]
                  - ledger'[x]["reward_transfer"] - ledger'[x]["dispute_reward_transfer"]
             /\ ledger'[x]["platform_fee"] = project'[x].fee
             /\ project'[x].status \in {"none", "draft"} => project'[x].fee = 0
  <2>1. /\ project[x].escrow =
              ledger[x]["escrow_fund"] - ledger[x]["escrow_refund"]
              - ledger[x]["reward_transfer"] - ledger[x]["dispute_reward_transfer"]
        /\ ledger[x]["platform_fee"] = project[x].fee
        /\ project[x].status \in {"none", "draft"} => project[x].fee = 0
    BY DEF LedgerReconciles
  <2>2. \A k \in {"escrow_fund", "escrow_refund", "reward_transfer",
                  "dispute_reward_transfer", "platform_fee"} :
          /\ ledger'[x][k] = ledger[x][k] + IF x = p /\ k = kind THEN q ELSE 0
          /\ ledger[x][k] \in Nat
    BY <1>4 DEF LedgerKind
  <2>3. CASE kind = "reward_transfer"
    BY <1>1, <1>3, <2>1, <2>2, <2>3
  <2>4. CASE kind = "dispute_reward_transfer"
    BY <1>1, <1>3, <2>1, <2>2, <2>4
  <2> QED BY <2>3, <2>4
<1>6. \A x \in Challenges : payouts'[x] = IF challenge'[x].status = "approved" THEN 1 ELSE 0
  <2>1. payouts'[c] = 1 /\ \A x \in Challenges \ {c} : payouts'[x] = payouts[x]
    BY <1>1, PayWrites
  <2> QED BY <2>1 DEF LedgerReconciles
<1> QED BY <1>5, <1>6 DEF LedgerReconciles

\* Every operation that moves money writes the entries that explain it.
LEMMA NextLedger ==
  ASSUME TypeOK, RowsLinked, EscrowCoversUnpaidSlots, LedgerReconciles, [Next]_vars
  PROVE  LedgerReconciles'
<1>1. ASSUME NEW u \in Users, NEW p \in Projects, Publish(u, p) PROVE LedgerReconciles'
  <2>1. PICK bps \in FeeRates :
          LET fee == FeePerSlot(project[p].reward, bps)
              net == project[p].reward - fee
          IN  /\ fee < project[p].reward
              /\ project' = [project EXCEPT
                    ![p].status = "published", ![p].net = net,
                    ![p].escrow = net * project[p].slots,
                    ![p].fee = fee * project[p].slots]
              /\ ledger' = [ledger EXCEPT
                    ![p]["escrow_fund"] = @ + net * project[p].slots,
                    ![p]["platform_fee"] = @ + fee * project[p].slots]
    BY <1>1 DEF Publish
  <2> DEFINE net == project[p].reward - FeePerSlot(project[p].reward, bps)
             e == net * project[p].slots
             f == FeePerSlot(project[p].reward, bps) * project[p].slots
  <2>2. FeePerSlot(project[p].reward, bps) \in Nat /\ project[p].slots \in Nat
        /\ project[p].reward \in Nat
    BY FeeIsNat DEF TypeOK, ProjectRow
  <2>3. net \in Nat
    BY <2>1, <2>2
  <2>4. e \in Nat /\ f \in Nat
    <3> HIDE DEF net
    <3> QED BY <2>2, <2>3, NatProduct
  <2>5. /\ project' = [project EXCEPT ![p] = [project[p] EXCEPT
               !.status = "published", !.net = net, !.escrow = e, !.fee = f]]
        /\ ledger' = [ledger EXCEPT ![p] = [ledger[p] EXCEPT
               !["escrow_fund"] = @ + e, !["platform_fee"] = @ + f]]
        /\ UNCHANGED <<challenge, payouts>> /\ project[p].status = "draft"
    BY <1>1, <2>1 DEF Publish, TypeOK, LedgerKind
  <2> HIDE DEF e, f, net
  <2>6. /\ project'[p].escrow = e /\ project'[p].fee = f /\ project'[p].status = "published"
        /\ ledger'[p]["escrow_fund"] = ledger[p]["escrow_fund"] + e
        /\ ledger'[p]["platform_fee"] = ledger[p]["platform_fee"] + f
        /\ \A k \in LedgerKind \ {"escrow_fund", "platform_fee"} : ledger'[p][k] = ledger[p][k]
        /\ \A x \in Projects \ {p} : project'[x] = project[x] /\ ledger'[x] = ledger[x]
    BY <2>5 DEF TypeOK, ProjectRow, LedgerKind
  <2>7. project[p].escrow = 0 /\ project[p].fee = 0 /\ \A k \in LedgerKind : ledger[p][k] \in Nat
    BY <2>5 DEF EscrowCoversUnpaidSlots, Open, LedgerReconciles, TypeOK
  <2>8. /\ e = ledger'[p]["escrow_fund"] - ledger'[p]["escrow_refund"]
               - ledger'[p]["reward_transfer"] - ledger'[p]["dispute_reward_transfer"]
        /\ ledger'[p]["platform_fee"] = f
    <3>1. \A k \in {"escrow_refund", "reward_transfer", "dispute_reward_transfer"} :
            ledger'[p][k] = ledger[p][k] /\ ledger[p][k] \in Nat
      BY <2>6, <2>7 DEF LedgerKind
    <3>2. ledger[p]["escrow_fund"] \in Nat /\ ledger[p]["platform_fee"] \in Nat
      BY <2>7 DEF LedgerKind
    <3>3. /\ 0 = ledger[p]["escrow_fund"] - ledger[p]["escrow_refund"]
                - ledger[p]["reward_transfer"] - ledger[p]["dispute_reward_transfer"]
          /\ ledger[p]["platform_fee"] = 0
      BY <2>7 DEF LedgerReconciles
    <3>4. /\ ledger'[p]["escrow_refund"] = ledger[p]["escrow_refund"]
          /\ ledger'[p]["reward_transfer"] = ledger[p]["reward_transfer"]
          /\ ledger'[p]["dispute_reward_transfer"] = ledger[p]["dispute_reward_transfer"]
          /\ ledger[p]["escrow_refund"] \in Nat /\ ledger[p]["reward_transfer"] \in Nat
          /\ ledger[p]["dispute_reward_transfer"] \in Nat
      BY <3>1
    <3>5. /\ ledger'[p]["escrow_fund"] = ledger[p]["escrow_fund"] + e
          /\ ledger'[p]["platform_fee"] = ledger[p]["platform_fee"] + f
      BY <2>6
    <3> QED BY <2>4, <3>2, <3>3, <3>4, <3>5
  <2>9. ASSUME NEW x \in Projects
        PROVE  /\ project'[x].escrow =
                    ledger'[x]["escrow_fund"] - ledger'[x]["escrow_refund"]
                    - ledger'[x]["reward_transfer"] - ledger'[x]["dispute_reward_transfer"]
               /\ ledger'[x]["platform_fee"] = project'[x].fee
               /\ project'[x].status \in {"none", "draft"} => project'[x].fee = 0
    <3>1. CASE x = p
      BY <2>6, <2>8, <3>1
    <3>2. CASE x # p
      BY <2>6, <3>2 DEF LedgerReconciles
    <3> QED BY <3>1, <3>2
  <2> QED BY <2>5, <2>9 DEF LedgerReconciles
<1>2. ASSUME NEW u \in Users, NEW p \in Projects, Close(u, p) PROVE LedgerReconciles'
  <2> DEFINE e == project[p].escrow
  <2>1. /\ project' = [project EXCEPT ![p].status = "closed", ![p].escrow = 0]
        /\ ledger' = [ledger EXCEPT ![p]["escrow_refund"] = @ + e]
        /\ UNCHANGED <<challenge, payouts>>
    BY <1>2 DEF Close
  <2>2. /\ project'[p].escrow = 0 /\ project'[p].fee = project[p].fee
        /\ project'[p].status = "closed"
        /\ ledger'[p]["escrow_refund"] = ledger[p]["escrow_refund"] + e
        /\ \A k \in LedgerKind \ {"escrow_refund"} : ledger'[p][k] = ledger[p][k]
        /\ \A x \in Projects \ {p} : project'[x] = project[x] /\ ledger'[x] = ledger[x]
    BY <2>1 DEF TypeOK, ProjectRow, LedgerKind
  <2>3. e \in Nat /\ \A k \in LedgerKind : ledger[p][k] \in Nat
    BY DEF TypeOK, ProjectRow
  <2>4. 0 = ledger'[p]["escrow_fund"] - ledger'[p]["escrow_refund"]
               - ledger'[p]["reward_transfer"] - ledger'[p]["dispute_reward_transfer"]
    BY <2>2, <2>3 DEF LedgerReconciles, LedgerKind
  <2> QED BY <2>1, <2>2, <2>4 DEF LedgerReconciles, LedgerKind
<1>3. ASSUME NEW u \in Users, NEW c \in Challenges, ReviewApprove(u, c) PROVE LedgerReconciles'
  BY <1>3, PayReconciles DEF ReviewApprove, TypeOK, ChallengeRow
<1>4. ASSUME NEW u \in Users, NEW d \in Disputes, ResolvePay(u, d) PROVE LedgerReconciles'
  <2> DEFINE c == dispute[d].challenge
  <2>1. c \in Challenges /\ challenge[c].status \in {"submitted", "rejected"}
    BY <1>4 DEF ResolvePay, Adjudicates, RowsLinked
  <2>2. Pay(challenge[c].project, c, challenge[c].reward, "dispute_reward_transfer")
    BY <1>4 DEF ResolvePay
  <2>3. \A x \in Challenges :
            challenge'[x].status = IF x = c THEN "approved" ELSE challenge[x].status
    BY <1>4, <2>1 DEF ResolvePay, TypeOK, ChallengeRow
  <2> HIDE DEF c
  <2> QED BY <2>1, <2>2, <2>3, PayReconciles
<1>5. ASSUME NEW u \in Users, NEW c \in Challenges, Tip(u, c) PROVE LedgerReconciles'
  <2> DEFINE p == challenge[c].project
  <2>1. PICK q \in TipQuotas :
          /\ ledger' = [ledger EXCEPT ![p]["tip_transfer"] = @ + q]
          /\ challenge' = [challenge EXCEPT ![c].tip = @ + q]
    BY <1>5 DEF Tip
  <2>2. UNCHANGED <<project, payouts>>
    BY <1>5 DEF Tip
  <2>3. \A x \in Projects, k \in LedgerKind \ {"tip_transfer"} : ledger'[x][k] = ledger[x][k]
    BY <2>1 DEF TypeOK, LedgerKind
  <2>4. \A x \in Challenges : challenge'[x].status = challenge[x].status
    BY <2>1 DEF TypeOK, ChallengeRow
  <2> QED BY <2>2, <2>3, <2>4 DEF LedgerReconciles, LedgerKind
<1>6. ASSUME NoMoneyMoved PROVE LedgerReconciles'
  BY <1>6 DEF NoMoneyMoved, LedgerReconciles, Settled
<1> QED BY <1>1, <1>2, <1>3, <1>4, <1>5, <1>6, MoneyHistory

-----------------------------------------------------------------------------
\* A credit or debit changes the sum of all wallets by its amount.
LEMMA QuotaSum ==
  ASSUME NEW w \in [Users -> Int], NEW u \in Users, NEW q \in Int
  PROVE  /\ AddQuota(w, u, q) \in [Users -> Int]
         /\ SumFunction(w) \in Int
         /\ SumFunction(AddQuota(w, u, q)) = SumFunction(w) + q
<1> DEFINE h == AddQuota(w, u, q)
<1>1. h \in [Users -> Int] /\ h[u] = w[u] + q /\ w[u] \in Int /\ \A y \in Users \ {u} : h[y] = w[y]
  BY DEF AddQuota
<1>2. SumFunction(w) \in Int
  BY RowsAssumption, SumInt DEF SumFunction
<1> HIDE DEF h
<1>3. SumFunction(h) = SumFunction(w) + h[u] - w[u]
  BY <1>1, RowsAssumption, SumChange
<1> QED BY <1>1, <1>2, <1>3 DEF h

\* What all projects hold.
Escrows == [p \in Projects |-> project[p].escrow]

\* One project's escrow changes the sum of all of them by its own change.
LEMMA EscrowSum ==
  ASSUME TypeOK, TypeOK', NEW p \in Projects,
         \A x \in Projects \ {p} : project'[x].escrow = project[x].escrow
  PROVE  /\ SumFunction(Escrows) \in Int
         /\ SumFunction(Escrows') = SumFunction(Escrows) + project'[p].escrow - project[p].escrow
<1> DEFINE f == [x \in Projects |-> project[x].escrow]
           h == [x \in Projects |-> project'[x].escrow]
<1>1. /\ f \in [Projects -> Int] /\ h \in [Projects -> Int]
      /\ f[p] = project[p].escrow /\ h[p] = project'[p].escrow
      /\ \A x \in Projects \ {p} : h[x] = f[x]
  BY DEF TypeOK, ProjectRow
<1>2. Escrows = f /\ Escrows' = h
  BY DEF Escrows
<1> HIDE DEF f, h
<1>3. SumFunction(h) = SumFunction(f) + h[p] - f[p]
  BY <1>1, RowsAssumption, SumChange
<1>4. SumFunction(f) \in Int
  BY <1>1, RowsAssumption, SumInt DEF SumFunction
<1> QED BY <1>1, <1>2, <1>3, <1>4

\* A step that leaves the escrows alone keeps their sum.
LEMMA EscrowsKept ==
  ASSUME \A x \in Projects : project'[x].escrow = project[x].escrow
  PROVE  Escrows' = Escrows
  BY DEF Escrows

\* The same invariant over the named function.
LEMMA QuotaKept == NoQuotaLost <=> SumFunction(wallet) + SumFunction(Escrows)
                                     = SumFunction(InitialQuota)
  BY DEF NoQuotaLost, Escrows

\* A payment from an escrow to a contributor.
LEMMA PayKeepsQuota ==
  ASSUME TypeOK, TypeOK', NoQuotaLost, NEW p \in Projects, NEW c, NEW q \in Nat, NEW kind,
         challenge[c].user \in Users, Pay(p, c, q, kind)
  PROVE  NoQuotaLost'
<1>0. wallet \in [Users -> Int] /\ project[p].escrow \in Nat
  BY WalletAssumption DEF TypeOK, ProjectRow
<1>1. SumFunction(wallet') = SumFunction(wallet) + q /\ SumFunction(wallet) \in Int
  BY <1>0, QuotaSum DEF Pay
<1>2. \A x \in Projects :
        project'[x].escrow = IF x = p THEN project[p].escrow - q ELSE project[x].escrow
  BY PayKeepsTerms
<1>3. /\ SumFunction(Escrows) \in Int
      /\ SumFunction(Escrows') = SumFunction(Escrows) + project'[p].escrow - project[p].escrow
  BY <1>2, EscrowSum
<1>4. SumFunction(wallet') + SumFunction(Escrows') = SumFunction(InitialQuota)
  BY <1>0, <1>1, <1>2, <1>3, QuotaKept
<1> QED BY <1>4 DEF NoQuotaLost, Escrows

\* Every operation keeps the sum of wallets and escrows.
LEMMA NextQuota ==
  ASSUME TypeOK, RowsLinked, EscrowCoversUnpaidSlots, LedgerReconciles, NoQuotaLost, [Next]_vars
  PROVE  NoQuotaLost'
<1>0. TypeOK' /\ wallet \in [Users -> Int]
  BY NextTypeOK, WalletAssumption DEF TypeOK
<1>1. SumFunction(wallet) + SumFunction(Escrows) = SumFunction(InitialQuota)
  BY QuotaKept
<1>2. SUFFICES SumFunction(wallet') + SumFunction(Escrows') = SumFunction(InitialQuota)
  BY DEF NoQuotaLost, Escrows
<1>3. ASSUME NEW u \in Users, NEW p \in Projects, Publish(u, p)
      PROVE  SumFunction(wallet') + SumFunction(Escrows') = SumFunction(InitialQuota)
  <2> DEFINE reward == project[p].reward
             slots  == project[p].slots
             fee(bps) == FeePerSlot(reward, bps)
             w == AddQuota(wallet, u, -(reward * slots))
  <2>1. PICK bps \in FeeRates :
         /\ fee(bps) < reward
         /\ \/ fee(bps) = 0 /\ wallet' = w
            \/ fee(bps) > 0 /\ \E root \in Roots : wallet' = AddQuota(w, root, fee(bps) * slots)
         /\ project' = [project EXCEPT
                ![p].status = "published", ![p].net = reward - fee(bps),
                ![p].escrow = (reward - fee(bps)) * slots,
                ![p].fee = fee(bps) * slots]
    BY <1>3 DEF Publish
  <2>2. reward \in Nat /\ slots \in Nat /\ fee(bps) \in Nat
    BY FeeIsNat DEF TypeOK, ProjectRow
  <2> DEFINE f == fee(bps)
             total == reward * slots
             paid == f * slots
             e == (reward - f) * slots
  <2>3. total \in Nat /\ paid \in Nat /\ e \in Int /\ total = paid + e
    <3> HIDE DEF reward, slots, fee
    <3>1. reward \in Nat /\ slots \in Nat /\ f \in Nat
      BY <2>2
    <3> HIDE DEF f
    <3> QED BY <3>1, SMT
  <2>4. /\ project'[p].escrow = e /\ \A x \in Projects \ {p} : project'[x].escrow = project[x].escrow
    <3>1. project' = [project EXCEPT ![p] = [project[p] EXCEPT
            !.status = "published", !.net = reward - f, !.escrow = e, !.fee = paid]]
      BY <2>1
    <3> HIDE DEF e, paid, f, reward
    <3> QED BY <3>1 DEF TypeOK, ProjectRow
  <2>5. project[p].escrow = 0
    BY <1>3 DEF Publish, EscrowCoversUnpaidSlots, Open
  <2>6. /\ SumFunction(Escrows) \in Int
        /\ SumFunction(Escrows') = SumFunction(Escrows) + project'[p].escrow - project[p].escrow
    BY <1>0, <2>4, EscrowSum
  <2>7. /\ w \in [Users -> Int] /\ SumFunction(w) = SumFunction(wallet) - total
        /\ SumFunction(wallet) \in Int
    <3>1. /\ w \in [Users -> Int] /\ SumFunction(w) = SumFunction(wallet) + (-total)
          /\ SumFunction(wallet) \in Int
      <4> HIDE DEF reward, slots
      <4> QED BY <1>0, <2>3, QuotaSum
    <3> HIDE DEF w, total
    <3> QED BY <2>3, <3>1
  <2>8. SumFunction(wallet') = SumFunction(wallet) - total + paid
    <3> HIDE DEF w, total, reward, slots, fee
    <3>1. CASE fee(bps) = 0 /\ wallet' = w
      <4>1. paid = 0
        BY <2>2, <3>1 
      <4> HIDE DEF paid
      <4> QED BY <2>3, <2>7, <3>1, <4>1
    <3>2. ASSUME NEW root \in Roots, wallet' = AddQuota(w, root, fee(bps) * slots)
          PROVE  SumFunction(wallet') = SumFunction(wallet) - total + paid
      <4>1. root \in Users
        BY RowsAssumption
      <4>2. SumFunction(wallet') = SumFunction(w) + paid
        BY <2>3, <2>7, <3>2, <4>1, QuotaSum
      <4> HIDE DEF paid
      <4> QED BY <2>3, <2>7, <4>2
    <3> QED BY <2>1, <3>1, <3>2
  <2> HIDE DEF total, paid, e
  <2> QED BY <1>1, <2>3, <2>4, <2>5, <2>6, <2>7, <2>8
<1>4. ASSUME NEW u \in Users, NEW p \in Projects, Close(u, p)
      PROVE  SumFunction(wallet') + SumFunction(Escrows') = SumFunction(InitialQuota)
  <2>0. project[p].escrow \in Nat
    BY DEF TypeOK, ProjectRow
  <2>1. SumFunction(wallet') = SumFunction(wallet) + project[p].escrow /\ SumFunction(wallet) \in Int
    BY <1>0, <1>4, <2>0, QuotaSum DEF Close
  <2>2. project'[p].escrow = 0 /\ \A x \in Projects \ {p} : project'[x].escrow = project[x].escrow
    BY <1>4 DEF Close, TypeOK, ProjectRow
  <2>3. /\ SumFunction(Escrows) \in Int
        /\ SumFunction(Escrows') = SumFunction(Escrows) + project'[p].escrow - project[p].escrow
    BY <1>0, <2>2, EscrowSum
  <2> QED BY <1>1, <2>0, <2>1, <2>2, <2>3
<1>5. ASSUME NoQuotaLost'
      PROVE  SumFunction(wallet') + SumFunction(Escrows') = SumFunction(InitialQuota)
  BY <1>5 DEF NoQuotaLost, Escrows
<1>6. ASSUME NEW u \in Users, NEW c \in Challenges, ReviewApprove(u, c) PROVE NoQuotaLost'
  <2>1. /\ challenge[c].project \in Projects /\ challenge[c].user \in Users
        /\ challenge[c].reward \in Nat
    BY <1>6 DEF ReviewApprove, RowsLinked, TypeOK, ChallengeRow
  <2> QED BY <1>0, <1>6, <2>1, PayKeepsQuota DEF ReviewApprove
<1>7. ASSUME NEW u \in Users, NEW d \in Disputes, ResolvePay(u, d) PROVE NoQuotaLost'
  <2> DEFINE c == dispute[d].challenge
  <2>1. c \in Challenges /\ challenge[c].status # "none" /\ dispute[d].reward \in Nat
    BY <1>7 DEF ResolvePay, Adjudicates, RowsLinked, TypeOK, DisputeRow
  <2>2. challenge[c].project \in Projects /\ challenge[c].user \in Users
    BY <2>1 DEF RowsLinked
  <2> QED BY <1>0, <1>7, <2>1, <2>2, PayKeepsQuota DEF ResolvePay
<1>8. ASSUME NEW u \in Users, NEW c \in Challenges, Tip(u, c)
      PROVE  SumFunction(wallet') + SumFunction(Escrows') = SumFunction(InitialQuota)
  <2> DEFINE v == challenge[c].user
  <2>1. PICK q \in TipQuotas : wallet' = AddQuota(AddQuota(wallet, u, -q), v, q)
    BY <1>8 DEF Tip
  <2>2. q \in Nat /\ -q \in Int /\ v \in Users
    BY <1>8, QuotaAssumption DEF Tip, RowsLinked
  <2> DEFINE w == AddQuota(wallet, u, -q)
  <2>3. w \in [Users -> Int] /\ SumFunction(w) = SumFunction(wallet) + (-q)
        /\ SumFunction(wallet) \in Int
    BY <1>0, <2>2, QuotaSum
  <2>4. SumFunction(wallet') = SumFunction(w) + q
    <3> HIDE DEF w
    <3> QED BY <2>1, <2>2, <2>3, QuotaSum DEF w
  <2>5. SumFunction(wallet') = SumFunction(wallet)
    <3> HIDE DEF w
    <3> QED BY <2>2, <2>3, <2>4
  <2>6. Escrows' = Escrows
    BY <1>8 DEF Tip, Escrows
  <2> QED BY <1>1, <2>5, <2>6
<1>9. ASSUME NoMoneyMoved
      PROVE  SumFunction(wallet') + SumFunction(Escrows') = SumFunction(InitialQuota)
  <2>1. wallet' = wallet /\ Escrows' = Escrows
    BY <1>9, EscrowsKept DEF NoMoneyMoved
  <2> QED BY <1>1, <2>1
<1> QED BY <1>3, <1>4, <1>5, <1>6, <1>7, <1>8, <1>9, MoneyHistory

\* At the start all quota is in the wallets.
LEMMA InitQuota == Init => NoQuotaLost
<1>1. SUFFICES ASSUME Init PROVE NoQuotaLost
  OBVIOUS
<1> DEFINE f == [p \in Projects |-> project[p].escrow]
<1>2. DOMAIN f = Projects /\ \A p \in Projects : f[p] = 0
  BY <1>1 DEF Init, NoProject
<1> HIDE DEF f
<1>3. SumFunction(f) = 0
  BY <1>2, RowsAssumption, SumOfZeros
<1>4. InitialQuota \in [Users -> Int]
  BY WalletAssumption
<1>5. SumFunction(InitialQuota) \in Int
  BY <1>4, RowsAssumption, SumInt DEF SumFunction
<1>6. SumFunction(wallet) + SumFunction(f) = SumFunction(InitialQuota)
  BY <1>1, <1>3, <1>5 DEF Init
<1> QED BY <1>6 DEF NoQuotaLost, f

-----------------------------------------------------------------------------
(* The inductive invariant.                                                *)

BountyInv ==
    /\ TypeOK /\ RowsLinked /\ EscrowCoversUnpaidSlots
    /\ LedgerReconciles /\ NoQuotaLost
    /\ ClosedIsSettled /\ DisputesAreFair /\ RetriesJustified /\ BookedFits

\* A new database satisfies the invariant.
LEMMA InitBountyInv == Init => BountyInv
<1>1. SUFFICES ASSUME Init PROVE BountyInv
  OBVIOUS
<1>2. /\ \A p \in Projects : project[p] = NoProject /\ ledger[p] = [k \in LedgerKind |-> 0]
      /\ \A c \in Challenges : challenge[c] = NoChallenge /\ payouts[c] = 0
      /\ \A d \in Disputes : dispute[d] = NoDispute
  BY <1>1 DEF Init
<1>3. TypeOK /\ RowsLinked /\ NoQuotaLost
  BY <1>1, InitTypeOK, InitRowsLinked, InitQuota
<1>4. EscrowCoversUnpaidSlots
  BY <1>2 DEF EscrowCoversUnpaidSlots, NoProject, Open
<1>5. LedgerReconciles
  BY <1>2 DEF LedgerReconciles, LedgerKind, NoProject, NoChallenge
<1>6. ClosedIsSettled /\ RetriesJustified
  BY <1>2 DEF ClosedIsSettled, RetriesJustified, NoChallenge
<1>7. DisputesAreFair
  BY <1>2 DEF DisputesAreFair, NoDispute
<1>8. BookedFits
  <2>1. ASSUME NEW p \in Projects PROVE Booked(p) = {}
    BY <1>2, RowsAssumption DEF Booked, Occupied, Of, NoChallenge
  <2>2. ASSUME NEW p \in Projects PROVE Cardinality(Booked(p)) <= project[p].slots
    BY <1>2, <2>1, FS_EmptySet DEF NoProject
  <2> QED BY <2>2 DEF BookedFits
<1> QED BY <1>3, <1>4, <1>5, <1>6, <1>7, <1>8 DEF BountyInv

\* Every operation keeps the invariant.
LEMMA NextBountyInv == BountyInv /\ [Next]_vars => BountyInv'
<1>1. SUFFICES ASSUME BountyInv, [Next]_vars PROVE BountyInv'
  OBVIOUS
<1>2. TypeOK' /\ RowsLinked' /\ EscrowCoversUnpaidSlots'
  BY <1>1, NextTypeOK, NextRowsLinked, NextEscrow DEF BountyInv
<1>3. LedgerReconciles' /\ NoQuotaLost'
  BY <1>1, NextLedger, NextQuota DEF BountyInv
<1>4. ClosedIsSettled' /\ DisputesAreFair'
  BY <1>1, NextClosed, NextDisputes DEF BountyInv
<1>5. RetriesJustified' /\ BookedFits'
  BY <1>1, NextRetries, NextSlots DEF BountyInv
<1> QED BY <1>2, <1>3, <1>4, <1>5 DEF BountyInv

\* The ledger of every project adds up to its escrow, and a challenge has its payout row exactly
\* when a review or a dispute approved it.
THEOREM LedgerCorrect == Spec => []LedgerReconciles
<1>1. BountyInv => LedgerReconciles
  BY DEF BountyInv
<1> QED BY <1>1, InitBountyInv, NextBountyInv, PTL DEF Spec

\* However many accounts and projects there are, publishing, closing, paying and
\* tipping only move quota: wallets and escrows together stay what they were.
THEOREM QuotaConserved == Spec => []NoQuotaLost
<1>1. BountyInv => NoQuotaLost
  BY DEF BountyInv
<1> QED BY <1>1, InitBountyInv, NextBountyInv, PTL DEF Spec

\* The slot count of AcceptOpenSourceBounty is kept by every challenge with at
\* most one case, while reviews, appeals and the clock interleave.
THEOREM SlotsCorrect == Spec => []SlotsNotOverbooked
<1>1. BountyInv => SlotsNotOverbooked
  BY FitsNotOverbooked DEF BountyInv
<1> QED BY <1>1, InitBountyInv, NextBountyInv, PTL DEF Spec

\* Nothing is pending on a closed project: CloseOpenSourceBountyProject checks
\* at one moment, and no later step undoes what it saw.
THEOREM ClosedCorrect == Spec => []ClosedIsSettled
<1>1. BountyInv => ClosedIsSettled
  BY DEF BountyInv
<1> QED BY <1>1, InitBountyInv, NextBountyInv, PTL DEF Spec

\* One open case per challenge, one case per party, and no party denies its own.
THEOREM DisputesCorrect == Spec => []DisputesAreFair
<1>1. BountyInv => DisputesAreFair
  BY DEF BountyInv
<1> QED BY <1>1, InitBountyInv, NextBountyInv, PTL DEF Spec

\* A contributor has one live attempt at a project, and one beside a paid attempt
\* only after two cases on it.
THEOREM AttemptsCorrect == Spec => []OneLiveAttempt
<1>1. BountyInv => OneLiveAttempt
  BY RetriesGiveOneLive DEF BountyInv
<1> QED BY <1>1, InitBountyInv, NextBountyInv, PTL DEF Spec

-----------------------------------------------------------------------------
(* What a step may never do.                                               *)

\* An approval credits the promised reward.
LEMMA ApprovalPays ==
  ASSUME BountyInv, [Next]_vars, NEW c \in Challenges,
         challenge[c].status # "approved", challenge'[c].status = "approved"
  PROVE  wallet'[challenge[c].user] = wallet[challenge[c].user] + challenge[c].reward
<1>0. /\ TypeOK /\ RowsLinked /\ EscrowCoversUnpaidSlots /\ LedgerReconciles
      /\ wallet \in [Users -> Int]
  BY WalletAssumption DEF BountyInv, TypeOK
<1>1. ASSUME NEW u \in Users, NEW p \in Projects, Publish(u, p) \/ Close(u, p) PROVE FALSE
  BY <1>1 DEF Publish, Close
<1>2. ASSUME NEW u \in Users, NEW e \in Challenges, Tip(u, e) PROVE FALSE
  BY <1>0, <1>2 DEF Tip, TypeOK, ChallengeRow
<1>3. ASSUME NEW u \in Users, NEW e \in Challenges, ReviewApprove(u, e)
      PROVE  wallet'[challenge[c].user] = wallet[challenge[c].user] + challenge[c].reward
  <2>1. e = c
    BY <1>0, <1>3 DEF ReviewApprove, TypeOK
  <2>2. challenge[c].user \in Users
    BY <1>0, <1>3, <2>1 DEF ReviewApprove, RowsLinked
  <2> QED BY <1>0, <1>3, <2>1, <2>2 DEF ReviewApprove, Pay, AddQuota
<1>4. ASSUME NEW u \in Users, NEW d \in Disputes, ResolvePay(u, d)
      PROVE  wallet'[challenge[c].user] = wallet[challenge[c].user] + challenge[c].reward
  <2>1. dispute[d].challenge = c /\ dispute[d].reward = challenge[c].reward
    BY <1>0, <1>4 DEF ResolvePay, TypeOK
  <2>2. challenge[c].user \in Users
    BY <1>0, <1>4, <2>1 DEF ResolvePay, RowsLinked
  <2> QED BY <1>0, <1>4, <2>1, <2>2 DEF ResolvePay, Pay, AddQuota
<1>5. ~NoMoneyMoved
  BY DEF NoMoneyMoved, Settled
<1> QED BY <1>0, <1>1, <1>2, <1>3, <1>4, <1>5, MoneyHistory

\* Withdrawn, cancelled and paid challenges stay what they are; a rejected one is
\* paid only through its contributor's own case; an approval credits exactly the
\* promised reward.
THEOREM ChallengesFinal == Spec => ChallengeStepsAreFinal
<1>1. ASSUME BountyInv, [Next]_vars, NEW c \in Challenges
      PROVE  /\ challenge[c].status \in {"approved", "withdrawn", "cancelled"} =>
                  challenge'[c].status = challenge[c].status
             /\ challenge[c].status = "rejected" /\ challenge'[c].status # "rejected" =>
                  /\ challenge'[c].status = "approved" /\ challenge'[c].overturned
                  /\ \E d \in Disputes :
                       /\ dispute[d].challenge = c /\ dispute[d].status = "open"
                       /\ dispute[d].openedBy = challenge[c].user
                       /\ dispute'[d].status = "resolved_paid"
             /\ challenge[c].status # "none" =>
                  challenge'[c].reward = challenge[c].reward
             /\ challenge[c].status # "approved" /\ challenge'[c].status = "approved" =>
                  wallet'[challenge[c].user] = wallet[challenge[c].user] + challenge[c].reward
  <2>1. CASE challenge[c].status = "none"
    BY <1>1, <2>1, ApprovalPays
  <2>2. CASE challenge[c].status # "none"
    <3>1. ChallengeMoved(c)
      BY <1>1, <2>2, ChallengeHistory DEF BountyInv, Accept
    <3> QED BY <1>1, <2>2, <3>1, ApprovalPays DEF ChallengeMoved, ChallengeKept
  <2> QED BY <2>1, <2>2
<1>2. BountyInv /\ [Next]_vars =>
        [\A c \in Challenges :
         /\ challenge[c].status \in {"approved", "withdrawn", "cancelled"} =>
              challenge'[c].status = challenge[c].status
         /\ challenge[c].status = "rejected" /\ challenge'[c].status # "rejected" =>
              /\ challenge'[c].status = "approved" /\ challenge'[c].overturned
              /\ \E d \in Disputes :
                   /\ dispute[d].challenge = c /\ dispute[d].status = "open"
                   /\ dispute[d].openedBy = challenge[c].user
                   /\ dispute'[d].status = "resolved_paid"
         /\ challenge[c].status # "none" =>
              challenge'[c].reward = challenge[c].reward
         /\ challenge[c].status # "approved" /\ challenge'[c].status = "approved" =>
              wallet'[challenge[c].user] = wallet[challenge[c].user] + challenge[c].reward
        ]_vars
  BY <1>1
<1> QED BY <1>2, InitBountyInv, NextBountyInv, PTL DEF Spec, ChallengeStepsAreFinal

\* The wallet of a deleted account is frozen, whoever publishes, closes, pays or tips.
THEOREM DeletedFrozen == Spec => DeletedWalletsFrozen
<1>1. ASSUME BountyInv, [Next]_vars, NEW u \in Users, account[u] = "deleted"
      PROVE  wallet'[u] = wallet[u]
  <2>0. /\ TypeOK /\ RowsLinked /\ EscrowCoversUnpaidSlots /\ LedgerReconciles
        /\ wallet \in [Users -> Int]
    BY <1>1, WalletAssumption DEF BountyInv, TypeOK
  <2>1. ASSUME NEW v \in Users, NEW p \in Projects, Publish(v, p) PROVE wallet'[u] = wallet[u]
    <3>1. v # u
      BY <1>1, <2>1 DEF Publish, CanDebit
    <3>2. \A q : AddQuota(wallet, v, q)[u] = wallet[u]
      BY <2>0, <3>1 DEF AddQuota
    <3>3. ASSUME NEW root \in Roots, account[root] = "enabled", NEW q, NEW r
          PROVE  AddQuota(AddQuota(wallet, v, q), root, r)[u] = wallet[u]
      BY <1>1, <2>0, <3>1, <3>3 DEF AddQuota
    <3> QED BY <2>1, <3>2, <3>3 DEF Publish
  <2>2. ASSUME NEW v \in Users, NEW p \in Projects, Close(v, p) PROVE wallet'[u] = wallet[u]
    <3>1. project[p].escrow \in Nat /\ wallet' = AddQuota(wallet, v, project[p].escrow)
      BY <2>0, <2>2 DEF Close, TypeOK, ProjectRow
    <3>2. CASE v # u
      BY <2>0, <3>1, <3>2 DEF AddQuota
    <3>3. CASE v = u
      <4>1. project[p].escrow = 0
        BY <1>1, <2>2, <3>1, <3>3 DEF Close, CanCredit
      <4> QED BY <2>0, <3>1, <3>3, <4>1 DEF AddQuota
    <3> QED BY <3>2, <3>3
  <2>3. ASSUME NEW p, NEW c, NEW q, NEW kind, Pay(p, c, q, kind) PROVE wallet'[u] = wallet[u]
    <3>1. challenge[c].user # u
      BY <1>1, <2>3 DEF Pay, CanCredit
    <3> QED BY <2>0, <2>3, <3>1 DEF Pay, AddQuota
  <2>4. ASSUME NEW v \in Users, NEW c \in Challenges, Tip(v, c) PROVE wallet'[u] = wallet[u]
    <3>1. v # u /\ challenge[c].user # u
      BY <1>1, <2>4 DEF Tip, CanDebit, CanCredit
    <3> QED BY <2>0, <2>4, <3>1 DEF Tip, AddQuota
  <2>5. ASSUME NEW v \in Users, NEW c \in Challenges, ReviewApprove(v, c)
        PROVE  wallet'[u] = wallet[u]
    BY <2>3, <2>5 DEF ReviewApprove
  <2>6. ASSUME NEW v \in Users, NEW d \in Disputes, ResolvePay(v, d)
        PROVE  wallet'[u] = wallet[u]
    BY <2>3, <2>6 DEF ResolvePay
  <2>7. ASSUME NoMoneyMoved PROVE wallet'[u] = wallet[u]
    BY <2>7 DEF NoMoneyMoved
  <2> QED BY <1>1, <2>0, <2>1, <2>2, <2>4, <2>5, <2>6, <2>7, MoneyHistory
<1>2. BountyInv /\ [Next]_vars =>
        [\A u \in Users : account[u] = "deleted" => wallet'[u] = wallet[u]]_vars
  BY <1>1
<1> QED BY <1>2, InitBountyInv, NextBountyInv, PTL DEF Spec, DeletedWalletsFrozen
=============================================================================
