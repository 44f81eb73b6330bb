---------------------------- MODULE BountyProofs ----------------------------
(***************************************************************************)
(* Proofs about Bounty for any number of projects, challenges, disputes    *)
(* and users, any rewards, slot counts and fee rates: types, the links     *)
(* between rows and the escrow accounting.                                 *)
(***************************************************************************)
EXTENDS Bounty, FiniteSetTheorems, TLAPS

\* Rewards times slots.
LEMMA NatProduct == ASSUME NEW a \in Nat, NEW b \in Nat PROVE a * b \in Nat
  BY SMT

\* The platform fee of a slot is a natural number.
LEMMA FeeIsNat ==
  ASSUME NEW r \in Nat, NEW bps \in FeeRates PROVE FeePerSlot(r, bps) \in Nat
<1>1. bps \in Nat
  BY QuotaAssumption
<1>2. r \div 10000 \in Nat /\ r % 10000 \in Nat
  BY SMT
<1>3. (r \div 10000) * bps \in Nat /\ (r % 10000) * bps \in Nat
  BY <1>1, <1>2, NatProduct
<1> DEFINE m == (r % 10000) * bps
<1>4. (m + 9999) \div 10000 \in Nat
  <2>1. m \in Nat BY <1>3
  <2> HIDE DEF m
  <2> QED BY <2>1, SMT
<1> QED BY <1>3, <1>4 DEF FeePerSlot

\* What normalizeBountyDraft accepts is positive.
LEMMA DraftInputs ==
  ASSUME NEW r \in RewardQuotas, NEW s \in SlotCounts
  PROVE  r \in Nat /\ r > 0 /\ s \in Nat /\ s > 0
<1>1. r \in Nat /\ r > 0
  BY QuotaAssumption
<1>2. s \in 1 .. 100
  BY QuotaAssumption
<1> QED BY <1>1, <1>2

\* No rating, and every score, is in range.
LEMMA RatingRange == 0 \in Rating /\ \A n \in RatingScores : n \in Rating
  BY QuotaAssumption DEF Rating

\* The empty tables are typed.
LEMMA InitTypeOK == Init => TypeOK
  BY WalletAssumption, TimeAssumption, RatingRange
  DEF Init, TypeOK, AccountStatus, ProjectRow, ChallengeRow, DisputeRow, NoProject,
      NoChallenge, NoDispute, ProjectStatus, ChallengeStatus, DisputeStatus, LedgerKind

\* The bounds of a wallet.
LEMMA WalletRange ==
  /\ MinWalletQuota \in Int /\ MaxWalletQuota \in Nat /\ MinWalletQuota <= 0
  BY WalletAssumption

WalletType == [Users -> MinWalletQuota .. MaxWalletQuota]

\* Wallets stay within the bounds UpdateWalletQuotaByDelta enforces.
LEMMA DebitType ==
  ASSUME NEW w \in WalletType, NEW u \in Users, NEW q \in Nat, CanDebit(w, u, q)
  PROVE  AddQuota(w, u, -q) \in WalletType
<1>1. w[u] \in MinWalletQuota .. MaxWalletQuota
  BY DEF WalletType
<1>2. w[u] + (-q) \in MinWalletQuota .. MaxWalletQuota
  BY <1>1, WalletRange DEF CanDebit
<1> QED BY <1>2 DEF AddQuota, WalletType

\* The same for a credit.
LEMMA CreditType ==
  ASSUME NEW w \in WalletType, NEW u \in Users, NEW q \in Nat, CanCredit(w, u, q)
  PROVE  AddQuota(w, u, q) \in WalletType
<1>1. w[u] \in MinWalletQuota .. MaxWalletQuota
  BY DEF WalletType
<1>2. w[u] + q \in MinWalletQuota .. MaxWalletQuota
  BY <1>1, WalletRange DEF CanCredit
<1> QED BY <1>2 DEF AddQuota, WalletType

\* An entry keeps the ledger typed.
LEMMA LedgerType ==
  ASSUME NEW l \in [LedgerKind -> Nat], NEW k \in LedgerKind, NEW q \in Nat
  PROVE  [l EXCEPT ![k] = @ + q] \in [LedgerKind -> Nat]
  OBVIOUS

\* What a payout does to the types: the escrow it leaves is a natural number.
LEMMA PayType ==
  ASSUME TypeOK, NEW p \in Projects, NEW c \in Challenges, NEW q \in Nat,
         NEW kind \in LedgerKind, challenge[c].user \in Users, Pay(p, c, q, kind)
  PROVE  /\ wallet' \in WalletType
         /\ project' \in [Projects -> ProjectRow]
         /\ ledger' \in [Projects -> [LedgerKind -> Nat]]
         /\ payouts' \in [Challenges -> Nat]
<1>1. wallet' \in WalletType
  BY CreditType DEF Pay, TypeOK, WalletType
<1>2. project' \in [Projects -> ProjectRow]
  <2> DEFINE r == [project[p] EXCEPT !.escrow = @ - q,
                     !.status = IF project[p].escrow = q THEN "completed" ELSE @]
  <2>1. project[p] \in ProjectRow
    BY DEF TypeOK
  <2>2. project[p].escrow \in Nat /\ project[p].escrow - q \in Nat
    BY <2>1 DEF ProjectRow, Pay
  <2>3. (IF project[p].escrow = q THEN "completed" ELSE project[p].status) \in ProjectStatus
    BY <2>1 DEF ProjectRow, ProjectStatus
  <2>4. r \in ProjectRow
    BY <2>1, <2>2, <2>3 DEF ProjectRow
  <2>5. project' = [project EXCEPT ![p] = r]
    BY DEF Pay
  <2> HIDE DEF r
  <2> QED BY <2>4, <2>5 DEF TypeOK
<1>3. ledger' \in [Projects -> [LedgerKind -> Nat]]
  <2> DEFINE l == [ledger[p] EXCEPT ![kind] = @ + q]
  <2>1. l \in [LedgerKind -> Nat]
    BY LedgerType DEF TypeOK
  <2>2. ledger' = [ledger EXCEPT ![p] = l]
    BY DEF Pay
  <2> HIDE DEF l
  <2> QED BY <2>1, <2>2 DEF TypeOK
<1>4. payouts' \in [Challenges -> Nat]
  <2>1. payouts' = [payouts EXCEPT ![c] = payouts[c] + 1]
    BY DEF Pay
  <2>2. payouts \in [Challenges -> Nat]
    BY DEF TypeOK
  <2> QED BY <2>1, <2>2
<1> QED BY <1>1, <1>2, <1>3, <1>4

\* Every step keeps the types.
LEMMA NextTypeOK == TypeOK /\ RowsLinked /\ [Next]_vars => TypeOK'
<1>0. SUFFICES ASSUME TypeOK, RowsLinked, [Next]_vars PROVE TypeOK'
  OBVIOUS
<1>1. ASSUME NEW u \in Users, NEW p \in Projects, CreateDraft(u, p) PROVE TypeOK'
  <2>1. PICK reward \in RewardQuotas, slots \in SlotCounts :
         project' = [project EXCEPT ![p] =
             [NoProject EXCEPT !.status = "draft", !.owner = u,
                               !.reward = reward, !.slots = slots]]
    BY <1>1 DEF CreateDraft
  <2>2. reward \in Nat /\ slots \in Nat
    BY DraftInputs
  <2>3. [NoProject EXCEPT !.status = "draft", !.owner = u,
                          !.reward = reward, !.slots = slots] \in ProjectRow
    BY <2>2 DEF NoProject, ProjectRow, ProjectStatus
  <2> QED BY <1>0, <1>1, <2>1, <2>3 DEF CreateDraft, TypeOK
<1>2. ASSUME NEW u \in Users, NEW p \in Projects, UpdateDraft(u, p) PROVE TypeOK'
  <2>1. PICK reward \in RewardQuotas, slots \in SlotCounts :
         project' = [project EXCEPT ![p] =
             [project[p] EXCEPT !.reward = reward, !.slots = slots]]
    BY <1>2 DEF UpdateDraft
  <2>2. reward \in Nat /\ slots \in Nat
    BY DraftInputs
  <2>3. [project[p] EXCEPT !.reward = reward, !.slots = slots] \in ProjectRow
    BY <1>0, <2>2 DEF ProjectRow, TypeOK
  <2> QED BY <1>0, <1>2, <2>1, <2>3 DEF UpdateDraft, TypeOK
<1>3. ASSUME NEW u \in Users, NEW p \in Projects, DeleteDraft(u, p) PROVE TypeOK'
  <2>1. NoProject \in ProjectRow
    BY DEF NoProject, ProjectRow, ProjectStatus
  <2> QED BY <1>0, <1>3, <2>1 DEF DeleteDraft, TypeOK
<1>4. ASSUME NEW u \in Users, NEW p \in Projects, Publish(u, p) PROVE TypeOK'
  <2> DEFINE reward == project[p].reward
             slots  == project[p].slots
             fee(bps) == FeePerSlot(reward, bps)
             w      == AddQuota(wallet, u, -(reward * slots))
  <2>1. PICK bps \in FeeRates :
         /\ fee(bps) < reward
         /\ CanDebit(wallet, u, reward * slots)
         /\ \/ wallet' = w
            \/ \E root \in Roots :
                 /\ CanCredit(w, root, fee(bps) * slots)
                 /\ wallet' = AddQuota(w, root, fee(bps) * slots)
         /\ project' = [project EXCEPT
                ![p].status = "published", ![p].net = reward - fee(bps),
                ![p].escrow = (reward - fee(bps)) * slots,
                ![p].fee = fee(bps) * slots]
         /\ ledger' = [ledger EXCEPT
                ![p]["escrow_fund"] = @ + (reward - fee(bps)) * slots,
                ![p]["platform_fee"] = @ + fee(bps) * slots]
    BY <1>4 DEF Publish
  <2> DEFINE f == fee(bps)
  <2>2. reward \in Nat /\ slots \in Nat /\ project[p] \in ProjectRow
    BY <1>0 DEF TypeOK, ProjectRow
  <2>3. f \in Nat /\ reward - f \in Nat
    BY <2>1, <2>2, FeeIsNat
  <2>4. reward * slots \in Nat /\ f * slots \in Nat /\ (reward - f) * slots \in Nat
    BY <2>2, <2>3, NatProduct
  <2>5. w \in WalletType
    BY <1>0, <2>1, <2>4, DebitType DEF TypeOK, WalletType
  <2>6. wallet' \in WalletType
    BY <2>1, <2>4, <2>5, CreditType, RowsAssumption
  <2> DEFINE r == [project[p] EXCEPT !.status = "published", !.net = reward - f,
                       !.escrow = (reward - f) * slots, !.fee = f * slots]
             l == [ledger[p] EXCEPT !["escrow_fund"] = @ + (reward - f) * slots,
                                    !["platform_fee"] = @ + f * slots]
  <2>7. r \in ProjectRow
    BY <2>2, <2>3, <2>4 DEF ProjectRow, ProjectStatus
  <2>8. project' = [project EXCEPT ![p] = r] /\ ledger' = [ledger EXCEPT ![p] = l]
    BY <2>1
  <2>9. l \in [LedgerKind -> Nat]
    BY <1>0, <2>4 DEF TypeOK, LedgerKind
  <2>10. UNCHANGED <<account, challenge, dispute, payouts, submitting, now>>
    BY <1>4 DEF Publish
  <2> HIDE DEF r, l
  <2> QED BY <1>0, <2>6, <2>7, <2>8, <2>9, <2>10 DEF TypeOK, WalletType
<1>5. ASSUME NEW u \in Users, NEW p \in Projects, NEW b \in BOOLEAN, SetPaused(u, p, b)
      PROVE TypeOK'
  <2>1. [project[p] EXCEPT !.status = IF b THEN "paused" ELSE "published"] \in ProjectRow
    BY <1>0 DEF ProjectRow, ProjectStatus, TypeOK
  <2> QED BY <1>0, <1>5, <2>1 DEF SetPaused, TypeOK
<1>6. ASSUME NEW u \in Users, NEW p \in Projects, NEW b \in BOOLEAN, SetArchived(u, p, b)
      PROVE TypeOK'
  <2>1. [project[p] EXCEPT !.archived = b] \in ProjectRow
    BY <1>0 DEF ProjectRow, TypeOK
  <2> QED BY <1>0, <1>6, <2>1 DEF SetArchived, TypeOK
<1>7. ASSUME NEW u \in Users, NEW p \in Projects, Close(u, p) PROVE TypeOK'
  <2>1. project[p] \in ProjectRow /\ project[p].escrow \in Nat
    BY <1>0 DEF TypeOK, ProjectRow
  <2>2. wallet' \in WalletType
    <3>1. CASE project[p].escrow > 0
      BY <1>0, <1>7, <2>1, <3>1, CreditType DEF Close, TypeOK, WalletType
    <3>2. CASE project[p].escrow = 0
      <4>1. wallet \in WalletType /\ wallet[u] \in Int
        BY <1>0, WalletRange DEF TypeOK, WalletType
      <4>2. wallet' = [wallet EXCEPT ![u] = wallet[u] + 0]
        BY <1>7, <3>2 DEF Close, AddQuota
      <4> QED BY <4>1, <4>2 DEF WalletType
    <3> QED BY <2>1, <3>1, <3>2
  <2> DEFINE r == [project[p] EXCEPT !.status = "closed", !.escrow = 0]
             l == [ledger[p] EXCEPT !["escrow_refund"] = @ + project[p].escrow]
  <2>3. r \in ProjectRow
    BY <2>1 DEF ProjectRow, ProjectStatus
  <2>4. l \in [LedgerKind -> Nat]
    BY <1>0, <2>1 DEF TypeOK, LedgerKind
  <2>5. /\ project' = [project EXCEPT ![p] = r] /\ ledger' = [ledger EXCEPT ![p] = l]
        /\ UNCHANGED <<account, challenge, dispute, payouts, submitting, now>>
    BY <1>7 DEF Close
  <2> HIDE DEF r, l
  <2> QED BY <1>0, <2>2, <2>3, <2>4, <2>5 DEF TypeOK, WalletType
<1>8. ASSUME NEW u \in Users, NEW p \in Projects, NEW c \in Challenges, Accept(u, p, c)
      PROVE TypeOK'
  <2> DEFINE q == IF project[p].net > 0 THEN project[p].net ELSE project[p].reward
             r == [NoChallenge EXCEPT !.status = "accepted", !.project = p, !.user = u,
                                      !.reward = q]
  <2>1. q \in Nat
    BY <1>0 DEF TypeOK, ProjectRow
  <2>2. r \in ChallengeRow
    BY <2>1, RatingRange DEF NoChallenge, ChallengeRow, ChallengeStatus
  <2>3. /\ challenge' = [challenge EXCEPT ![c] = r]
        /\ UNCHANGED <<account, wallet, project, dispute, ledger, payouts, submitting, now>>
    BY <1>8 DEF Accept
  <2> HIDE DEF r
  <2> QED BY <1>0, <2>2, <2>3 DEF TypeOK
<1>9. ASSUME NEW u \in Users, NEW c \in Challenges, NEW evidence \in Evidence,
             SubmitCheck(u, c, evidence)
      PROVE TypeOK'
  BY <1>0, <1>9 DEF SubmitCheck, TypeOK
<1>10. ASSUME NEW c \in Challenges, SubmitCommit(c) PROVE TypeOK'
  <2> DEFINE r == [challenge[c] EXCEPT !.status = "submitted", !.issue = submitting[c].issue,
                                       !.pr = submitting[c].pr]
  <2>1. submitting[c] \in Evidence
    BY <1>0, <1>10 DEF SubmitCommit, Unlocked, TypeOK
  <2>2. /\ challenge[c] \in ChallengeRow /\ submitting[c].issue \in BOOLEAN
        /\ submitting[c].pr \in PullRequests \cup {None}
    BY <1>0, <2>1 DEF TypeOK, Evidence
  <2>a. r \in ChallengeRow
    BY <2>2 DEF ChallengeRow, ChallengeStatus
  <2>3. /\ challenge' = [challenge EXCEPT ![c] = r]
        /\ submitting' = [submitting EXCEPT ![c] = None]
        /\ UNCHANGED <<account, wallet, project, dispute, ledger, payouts, now>>
    BY <1>10 DEF SubmitCommit
  <2> HIDE DEF r
  <2> QED BY <1>0, <2>a, <2>3 DEF TypeOK
<1>11. ASSUME NEW c \in Challenges, SubmitRollback(c) PROVE TypeOK'
  BY <1>0, <1>11 DEF SubmitRollback, TypeOK
<1>12. ASSUME NEW c \in Challenges, NEW s \in ChallengeStatus,
              challenge' = [challenge EXCEPT ![c].status = s],
              UNCHANGED <<account, wallet, project, dispute, ledger, payouts,
                          submitting, now>>
       PROVE TypeOK'
  <2>1. [challenge[c] EXCEPT !.status = s] \in ChallengeRow
    BY <1>0 DEF TypeOK, ChallengeRow
  <2> QED BY <1>0, <1>12, <2>1 DEF TypeOK
<1>13. ASSUME NEW u \in Users, NEW c \in Challenges, Cancel(u, c) PROVE TypeOK'
  BY <1>12, <1>13 DEF Cancel, ChallengeStatus
<1>14. ASSUME NEW u \in Users, NEW c \in Challenges, Withdraw(u, c) PROVE TypeOK'
  BY <1>12, <1>14 DEF Withdraw, ChallengeStatus
<1>15. ASSUME NEW u \in Users, NEW c \in Challenges, ReviewReject(u, c) PROVE TypeOK'
  <2>1. now \in Nat
    BY <1>0, TimeAssumption DEF TypeOK
  <2>2. [challenge[c] EXCEPT !.status = "rejected", !.rejectedAt = now] \in ChallengeRow
    BY <1>0, <2>1 DEF TypeOK, ChallengeRow, ChallengeStatus
  <2> QED BY <1>0, <1>15, <2>2 DEF ReviewReject, TypeOK
<1>16. ASSUME NEW u \in Users, NEW c \in Challenges, ReviewApprove(u, c) PROVE TypeOK'
  <2> DEFINE r == [challenge[c] EXCEPT !.status = "approved"]
             settle(d) == [dispute[d] EXCEPT !.status = "resolved_paid", !.resolvedBy = u]
  <2>1. Pay(challenge[c].project, c, challenge[c].reward, "reward_transfer")
    BY <1>16 DEF ReviewApprove
  <2>2. /\ challenge[c].project \in Projects /\ challenge[c].user \in Users
        /\ challenge[c].reward \in Nat
    BY <1>0, <1>16 DEF TypeOK, RowsLinked, ReviewApprove, ChallengeRow
  <2>3. /\ wallet' \in WalletType /\ project' \in [Projects -> ProjectRow]
        /\ ledger' \in [Projects -> [LedgerKind -> Nat]] /\ payouts' \in [Challenges -> Nat]
    BY <1>0, <2>1, <2>2, PayType DEF LedgerKind
  <2>4. r \in ChallengeRow
    BY <1>0 DEF TypeOK, ChallengeRow, ChallengeStatus
  <2>5. \A d \in Disputes : settle(d) \in DisputeRow
    BY <1>0 DEF TypeOK, DisputeRow, DisputeStatus
  <2>6. /\ challenge' = [challenge EXCEPT ![c] = r]
        /\ dispute' = [d \in Disputes |->
              IF dispute[d].challenge = c /\ dispute[d].status = "open"
              THEN settle(d) ELSE dispute[d]]
        /\ UNCHANGED <<account, submitting, now>>
    BY <1>16 DEF ReviewApprove
  <2>7. dispute' \in [Disputes -> DisputeRow]
    BY <1>0, <2>5, <2>6 DEF TypeOK
  <2> HIDE DEF r, settle
  <2> QED BY <1>0, <2>3, <2>4, <2>6, <2>7 DEF TypeOK, WalletType
<1>17. ASSUME NEW u \in Users, NEW c \in Challenges, RateOwner(u, c) PROVE TypeOK'
  <2>1. PICK n \in RatingScores : challenge' = [challenge EXCEPT ![c].rating = n]
    BY <1>17 DEF RateOwner
  <2>2. [challenge[c] EXCEPT !.rating = n] \in ChallengeRow
    BY <1>0, RatingRange DEF TypeOK, ChallengeRow
  <2> QED BY <1>0, <1>17, <2>1, <2>2 DEF RateOwner, TypeOK
<1>18. ASSUME NEW u \in Users, NEW c \in Challenges, Tip(u, c) PROVE TypeOK'
  <2>1. PICK q \in TipQuotas :
         /\ CanDebit(wallet, u, q)
         /\ CanCredit(wallet, challenge[c].user, q)
         /\ wallet' = AddQuota(AddQuota(wallet, u, -q), challenge[c].user, q)
         /\ challenge' = [challenge EXCEPT ![c].tip = @ + q]
         /\ ledger' = [ledger EXCEPT ![challenge[c].project]["tip_transfer"] = @ + q]
    BY <1>18 DEF Tip
  <2> DEFINE p == challenge[c].project
             v == challenge[c].user
             w == AddQuota(wallet, u, -q)
  <2>2. q \in Nat
    BY QuotaAssumption
  <2>3. p \in Projects /\ v \in Users /\ v # u
    BY <1>0, <1>18 DEF RowsLinked, Tip
  <2>4. w \in WalletType /\ w[v] = wallet[v]
    BY <1>0, <2>1, <2>2, <2>3, DebitType DEF TypeOK, WalletType, AddQuota
  <2>5. CanCredit(w, v, q)
    BY <2>1, <2>4 DEF CanCredit
  <2>6. wallet' \in WalletType
    BY <2>1, <2>2, <2>3, <2>4, <2>5, CreditType
  <2>7. [challenge[c] EXCEPT !.tip = @ + q] \in ChallengeRow
    <3>1. challenge[c] \in ChallengeRow
      BY <1>0 DEF TypeOK
    <3>2. challenge[c].tip + q \in Nat
      BY <2>2, <3>1 DEF ChallengeRow
    <3> QED BY <3>1, <3>2 DEF ChallengeRow
  <2>8. challenge' \in [Challenges -> ChallengeRow]
    BY <1>0, <2>1, <2>7 DEF TypeOK
  <2>9. [ledger[p] EXCEPT !["tip_transfer"] = @ + q] \in [LedgerKind -> Nat]
    BY <1>0, <2>2, <2>3 DEF TypeOK, LedgerKind
  <2>10. ledger' \in [Projects -> [LedgerKind -> Nat]]
    BY <1>0, <2>1, <2>3, <2>9 DEF TypeOK
  <2> QED BY <1>0, <1>18, <2>6, <2>8, <2>10 DEF Tip, TypeOK, WalletType
<1>19. ASSUME NEW u \in Users, NEW c \in Challenges, NEW d \in Disputes,
              OpenDispute(u, c, d)
       PROVE TypeOK'
  <2> DEFINE o == project[challenge[c].project].owner
             r == [status |-> "open", challenge |-> c, openedBy |-> u,
                   against |-> IF u = o THEN challenge[c].user ELSE o,
                   reward |-> challenge[c].reward, resolvedBy |-> None]
  <2>1. o \in Users \cup {None} /\ challenge[c].user \in Users /\ challenge[c].reward \in Nat
    BY <1>0, <1>19 DEF TypeOK, RowsLinked, OpenDispute, ChallengeRow, ProjectRow
  <2>2. r \in DisputeRow
    BY <2>1 DEF DisputeRow, DisputeStatus
  <2>3. /\ dispute' = [dispute EXCEPT ![d] = r]
        /\ UNCHANGED <<account, wallet, project, challenge, ledger, payouts, submitting, now>>
    BY <1>19 DEF OpenDispute
  <2> HIDE DEF r
  <2> QED BY <1>0, <2>2, <2>3 DEF TypeOK
<1>20. ASSUME NEW u \in Users, NEW d \in Disputes, ResolveDeny(u, d) PROVE TypeOK'
  <2>1. [dispute[d] EXCEPT !.status = "resolved_denied", !.resolvedBy = u] \in DisputeRow
    BY <1>0 DEF TypeOK, DisputeRow, DisputeStatus
  <2> QED BY <1>0, <1>20, <2>1 DEF ResolveDeny, TypeOK
<1>21. ASSUME NEW u \in Users, NEW d \in Disputes, ResolvePay(u, d) PROVE TypeOK'
  <2> DEFINE c == dispute[d].challenge
             r == [challenge[c] EXCEPT !.status = "approved",
                                       !.overturned = challenge[c].status = "rejected"]
             s == [dispute[d] EXCEPT !.status = "resolved_paid", !.resolvedBy = u]
  <2>1. /\ c \in Challenges /\ challenge[c].project \in Projects
        /\ challenge[c].user \in Users /\ dispute[d].reward \in Nat
    BY <1>0, <1>21 DEF TypeOK, RowsLinked, ResolvePay, Adjudicates, DisputeRow
  <2>2. Pay(challenge[c].project, c, dispute[d].reward, "dispute_reward_transfer")
    BY <1>21 DEF ResolvePay
  <2>3. /\ wallet' \in WalletType /\ project' \in [Projects -> ProjectRow]
        /\ ledger' \in [Projects -> [LedgerKind -> Nat]] /\ payouts' \in [Challenges -> Nat]
    BY <1>0, <2>1, <2>2, PayType DEF LedgerKind
  <2>4. r \in ChallengeRow
    <3> DEFINE b == challenge[c].status = "rejected"
    <3>1. challenge[c] \in ChallengeRow
      BY <1>0, <2>1 DEF TypeOK
    <3>2. b \in BOOLEAN
      OBVIOUS
    <3> HIDE DEF b
    <3>3. [challenge[c] EXCEPT !.status = "approved", !.overturned = b] \in ChallengeRow
      BY <3>1, <3>2 DEF ChallengeRow, ChallengeStatus
    <3> QED BY <3>3 DEF b
  <2>5. s \in DisputeRow
    BY <1>0 DEF TypeOK, DisputeRow, DisputeStatus
  <2>6. /\ challenge' = [challenge EXCEPT ![c] = r]
        /\ dispute' = [dispute EXCEPT ![d] = s]
        /\ UNCHANGED <<account, submitting, now>>
    BY <1>21 DEF ResolvePay
  <2> HIDE DEF r, s
  <2> QED BY <1>0, <2>1, <2>3, <2>4, <2>5, <2>6 DEF TypeOK, WalletType
<1>22. ASSUME NEW u \in Users, NEW s \in AccountStatus, SetAccount(u, s) PROVE TypeOK'
  BY <1>0, <1>22 DEF SetAccount, TypeOK
<1>23. CASE Tick
  <2>1. now' \in 0 .. MaxTime
    BY <1>0, <1>23, TimeAssumption DEF Tick, TypeOK
  <2> QED BY <1>0, <1>23, <2>1 DEF Tick, TypeOK
<1>24. CASE UNCHANGED vars
  BY <1>0, <1>24 DEF vars, TypeOK
<1> QED
  BY <1>0, <1>1, <1>2, <1>3, <1>4, <1>5, <1>6, <1>7, <1>8, <1>9, <1>10, <1>11, <1>13,
     <1>14, <1>15, <1>16, <1>17, <1>18, <1>19, <1>20, <1>21, <1>22, <1>23, <1>24
  DEF Next, ProjectStep, ChallengeStep, DisputeStep


-----------------------------------------------------------------------------
(* The links between rows, and the escrow.                                 *)

\* There are no rows to link at the start.
LEMMA InitRowsLinked == Init => RowsLinked
  BY DEF Init, RowsLinked, NoProject, NoChallenge, NoDispute, Unlocked

\* A payout changes nothing of the project rows but one escrow and one status,
\* and the status only from open to completed or not at all.
LEMMA PayKeepsTerms ==
  ASSUME TypeOK, NEW p \in Projects, NEW c, NEW q \in Nat, NEW kind, Pay(p, c, q, kind)
  PROVE  \A x \in Projects :
           /\ project'[x].net = project[x].net /\ project'[x].slots = project[x].slots
           /\ project'[x].owner = project[x].owner
           /\ project'[x].fee = project[x].fee
           /\ project'[x].escrow = IF x = p THEN project[p].escrow - q ELSE project[x].escrow
           /\ project'[x].status = IF x = p /\ project[p].escrow = q
                                   THEN "completed" ELSE project[x].status
<1>1. project \in [Projects -> ProjectRow]
  BY DEF TypeOK
<1>2. project' = [project EXCEPT ![p] =
         [project[p] EXCEPT !.escrow = @ - q,
            !.status = IF project[p].escrow = q THEN "completed" ELSE @]]
  BY DEF Pay
<1> QED BY <1>1, <1>2 DEF ProjectRow

\* Every step keeps the links.
LEMMA NextRowsLinked == TypeOK /\ RowsLinked /\ [Next]_vars => RowsLinked'
<1>0. SUFFICES ASSUME TypeOK, RowsLinked, [Next]_vars PROVE RowsLinked'
  OBVIOUS
<1>1. ASSUME NEW u \in Users, NEW p \in Projects, CreateDraft(u, p) PROVE RowsLinked'
  BY <1>0, <1>1, DraftInputs DEF CreateDraft, RowsLinked, TypeOK, NoProject, Unlocked
<1>2. ASSUME NEW u \in Users, NEW p \in Projects, UpdateDraft(u, p) PROVE RowsLinked'
  BY <1>0, <1>2, DraftInputs DEF UpdateDraft, RowsLinked, TypeOK, ProjectRow, Unlocked
<1>3. ASSUME NEW u \in Users, NEW p \in Projects, DeleteDraft(u, p) PROVE RowsLinked'
  BY <1>0, <1>3 DEF DeleteDraft, RowsLinked, TypeOK, NoProject, Unlocked
<1>5. ASSUME NEW u \in Users, NEW p \in Projects, NEW b \in BOOLEAN, SetPaused(u, p, b)
      PROVE RowsLinked'
  BY <1>0, <1>5 DEF SetPaused, RowsLinked, TypeOK, ProjectRow, Unlocked
<1>6. ASSUME NEW u \in Users, NEW p \in Projects, NEW b \in BOOLEAN, SetArchived(u, p, b)
      PROVE RowsLinked'
  BY <1>0, <1>6 DEF SetArchived, RowsLinked, TypeOK, ProjectRow, Unlocked
<1>7. ASSUME NEW u \in Users, NEW p \in Projects, Close(u, p) PROVE RowsLinked'
  BY <1>0, <1>7 DEF Close, Open, RowsLinked, TypeOK, ProjectRow, Unlocked
<1>8. ASSUME NEW u \in Users, NEW p \in Projects, NEW c \in Challenges, Accept(u, p, c)
      PROVE RowsLinked'
  BY <1>0, <1>8 DEF Accept, RowsLinked, TypeOK, ProjectRow, ChallengeRow, NoChallenge, Unlocked
<1>9. ASSUME NEW u \in Users, NEW c \in Challenges, NEW evidence \in Evidence,
             SubmitCheck(u, c, evidence)
      PROVE RowsLinked'
  BY <1>0, <1>9 DEF SubmitCheck, RowsLinked, TypeOK, Unlocked
<1>10. ASSUME NEW c \in Challenges, SubmitCommit(c) PROVE RowsLinked'
  BY <1>0, <1>10 DEF SubmitCommit, RowsLinked, TypeOK, ChallengeRow, Unlocked
<1>11. ASSUME NEW c \in Challenges, SubmitRollback(c) PROVE RowsLinked'
  BY <1>0, <1>11 DEF SubmitRollback, RowsLinked, TypeOK, Unlocked
<1>13. ASSUME NEW u \in Users, NEW c \in Challenges, Cancel(u, c) PROVE RowsLinked'
  BY <1>0, <1>13 DEF Cancel, RowsLinked, TypeOK, ChallengeRow, Unlocked
<1>4. ASSUME NEW u \in Users, NEW p \in Projects, Publish(u, p) PROVE RowsLinked'
  <2> DEFINE reward == project[p].reward
             slots  == project[p].slots
             fee(bps) == FeePerSlot(reward, bps)
  <2>1. PICK bps \in FeeRates :
         /\ fee(bps) < reward
         /\ project' = [project EXCEPT
                ![p].status = "published", ![p].net = reward - fee(bps),
                ![p].escrow = (reward - fee(bps)) * slots,
                ![p].fee = fee(bps) * slots]
    BY <1>4 DEF Publish
  <2>2. reward \in Nat /\ slots \in Nat /\ project[p] \in ProjectRow
    BY <1>0 DEF TypeOK, ProjectRow
  <2>3. fee(bps) \in Nat
    BY <2>2, FeeIsNat
  <2>4. slots > 0
    BY <1>0, <1>4 DEF RowsLinked, Publish
  <2> DEFINE n == reward - fee(bps)
             e == n * slots
             f == fee(bps) * slots
  <2>5. n \in Int /\ n > 0
    BY <2>1, <2>2, <2>3
  <2>6. project' = [project EXCEPT ![p] = [project[p] EXCEPT
            !.status = "published", !.net = n, !.escrow = e, !.fee = f]]
    BY <2>1
  <2>7. \A x \in Projects :
          IF x = p THEN /\ project'[x].status = "published" /\ project'[x].net = n
                        /\ project'[x].slots = slots
                   ELSE project'[x] = project[x]
    <3> HIDE DEF n, e, f
    <3> QED BY <1>0, <2>2, <2>6 DEF TypeOK, ProjectRow
  <2>8. project[p].status = "draft" /\ UNCHANGED <<challenge, dispute, submitting>>
    BY <1>4 DEF Publish
  <2> HIDE DEF n
  <2> QED BY <1>0, <2>4, <2>5, <2>7, <2>8 DEF RowsLinked, Unlocked
<1>14. ASSUME NEW u \in Users, NEW c \in Challenges, Withdraw(u, c) PROVE RowsLinked'
  BY <1>0, <1>14 DEF Withdraw, RowsLinked, TypeOK, ChallengeRow, Unlocked
<1>15. ASSUME NEW u \in Users, NEW c \in Challenges, ReviewReject(u, c) PROVE RowsLinked'
  BY <1>0, <1>15 DEF ReviewReject, RowsLinked, TypeOK, ChallengeRow, Unlocked
<1>16. ASSUME NEW u \in Users, NEW c \in Challenges, ReviewApprove(u, c) PROVE RowsLinked'
  <2> DEFINE p == challenge[c].project
  <2>1. p \in Projects /\ challenge[c].reward \in Nat
    BY <1>0, <1>16 DEF TypeOK, RowsLinked, ReviewApprove, ChallengeRow
  <2>2. \A x \in Projects :
           /\ project'[x].net = project[x].net /\ project'[x].slots = project[x].slots
           /\ project'[x].status = project[x].status \/ project'[x].status = "completed"
           /\ project[x].status \in {"none", "draft"} => project'[x].status = project[x].status
    <3>1. Pay(p, c, challenge[c].reward, "reward_transfer") /\ Open(p)
      BY <1>16 DEF ReviewApprove
    <3> QED BY <1>0, <2>1, <3>1, PayKeepsTerms DEF Open
  <2>3. \A x \in Challenges :
           /\ challenge'[x].project = challenge[x].project
           /\ challenge'[x].user = challenge[x].user
           /\ challenge'[x].reward = challenge[x].reward
           /\ challenge'[x].status = IF x = c THEN "approved" ELSE challenge[x].status
           /\ x # c => challenge'[x] = challenge[x]
    BY <1>0, <1>16 DEF ReviewApprove, TypeOK, ChallengeRow
  <2>4. \A d \in Disputes :
           /\ dispute'[d].challenge = dispute[d].challenge
           /\ dispute[d].status = "none" <=> dispute'[d].status = "none"
           /\ dispute[d].status = "none" => dispute'[d] = dispute[d]
    BY <1>0, <1>16 DEF ReviewApprove, TypeOK, DisputeRow
  <2>5. submitting' = submitting /\ challenge[c].status = "submitted"
    BY <1>16 DEF ReviewApprove
  <2> QED BY <1>0, <2>2, <2>3, <2>4, <2>5 DEF RowsLinked, Unlocked
<1>17. ASSUME NEW u \in Users, NEW c \in Challenges, RateOwner(u, c) PROVE RowsLinked'
  BY <1>0, <1>17 DEF RateOwner, RowsLinked, TypeOK, ChallengeRow, Unlocked
<1>18. ASSUME NEW u \in Users, NEW c \in Challenges, Tip(u, c) PROVE RowsLinked'
  BY <1>0, <1>18 DEF Tip, RowsLinked, TypeOK, ChallengeRow, Unlocked
<1>19. ASSUME NEW u \in Users, NEW c \in Challenges, NEW d \in Disputes,
              OpenDispute(u, c, d)
       PROVE RowsLinked'
  BY <1>0, <1>19 DEF OpenDispute, RowsLinked, TypeOK, DisputeRow, Unlocked
<1>20. ASSUME NEW u \in Users, NEW d \in Disputes, ResolveDeny(u, d) PROVE RowsLinked'
  BY <1>0, <1>20 DEF ResolveDeny, Adjudicates, RowsLinked, TypeOK, DisputeRow, Unlocked
<1>21. ASSUME NEW u \in Users, NEW d \in Disputes, ResolvePay(u, d) PROVE RowsLinked'
  <2> DEFINE c == dispute[d].challenge
             p == challenge[c].project
  <2>1. /\ c \in Challenges /\ p \in Projects /\ dispute[d].reward \in Nat
        /\ challenge[c].status \in {"submitted", "rejected"} /\ dispute[d].status = "open"
        /\ project[p].status \notin {"none", "draft"}
    BY <1>0, <1>21 DEF TypeOK, RowsLinked, ResolvePay, Adjudicates, DisputeRow
  <2>2. \A x \in Projects :
           /\ project'[x].net = project[x].net /\ project'[x].slots = project[x].slots
           /\ project'[x].status = project[x].status \/ project'[x].status = "completed"
           /\ project[x].status \in {"none", "draft"} => project'[x].status = project[x].status
    <3>1. Pay(p, c, dispute[d].reward, "dispute_reward_transfer")
      BY <1>21 DEF ResolvePay
    <3> QED BY <1>0, <2>1, <3>1, PayKeepsTerms
  <2>3. \A x \in Challenges :
           /\ challenge'[x].project = challenge[x].project
           /\ challenge'[x].user = challenge[x].user
           /\ challenge'[x].reward = challenge[x].reward
           /\ challenge'[x].status = IF x = c THEN "approved" ELSE challenge[x].status
           /\ x # c => challenge'[x] = challenge[x]
    BY <1>0, <1>21, <2>1 DEF ResolvePay, TypeOK, ChallengeRow
  <2>4. \A e \in Disputes :
           /\ dispute'[e].challenge = dispute[e].challenge
           /\ dispute[e].status = "none" <=> dispute'[e].status = "none"
           /\ dispute[e].status = "none" => dispute'[e] = dispute[e]
    BY <1>0, <1>21, <2>1 DEF ResolvePay, TypeOK, DisputeRow
  <2>5. submitting' = submitting
    BY <1>21 DEF ResolvePay
  <2> QED BY <1>0, <2>1, <2>2, <2>3, <2>4, <2>5 DEF RowsLinked, Unlocked
<1>22. ASSUME NEW u \in Users, NEW s \in AccountStatus, SetAccount(u, s) PROVE RowsLinked'
  BY <1>0, <1>22 DEF SetAccount, RowsLinked, Unlocked
<1>23. CASE Tick
  BY <1>0, <1>23 DEF Tick, RowsLinked, Unlocked
<1>24. CASE UNCHANGED vars
  BY <1>0, <1>24 DEF vars, RowsLinked, Unlocked
<1> QED
  BY <1>0, <1>1, <1>2, <1>3, <1>4, <1>5, <1>6, <1>7, <1>8, <1>9, <1>10, <1>11, <1>13,
     <1>14, <1>15, <1>16, <1>17, <1>18, <1>19, <1>20, <1>21, <1>22, <1>23, <1>24
  DEF Next, ProjectStep, ChallengeStep, DisputeStep

\* Type correctness: every reachable row keeps the columns of its table, the
\* wallets keep the bounds of UpdateWalletQuotaByDelta.
THEOREM TypeCorrect == Spec => []TypeOK
<1>1. Init => TypeOK /\ RowsLinked
  BY InitTypeOK, InitRowsLinked
<1>2. (TypeOK /\ RowsLinked) /\ [Next]_vars => (TypeOK /\ RowsLinked)'
  BY NextTypeOK, NextRowsLinked
<1> QED BY <1>1, <1>2, PTL DEF Spec

\* Foreign keys hold in every reachable state.
THEOREM LinksCorrect == Spec => []RowsLinked
<1>1. Init => TypeOK /\ RowsLinked
  BY InitTypeOK, InitRowsLinked
<1>2. (TypeOK /\ RowsLinked) /\ [Next]_vars => (TypeOK /\ RowsLinked)'
  BY NextTypeOK, NextRowsLinked
<1> QED BY <1>1, <1>2, PTL DEF Spec

-----------------------------------------------------------------------------
(* Escrow                                                                  *)

\* Taking one of k rewards n out of n * k leaves n * (k - 1), and leaves
\* nothing exactly when it was the last one.
LEMMA OneReward ==
  ASSUME NEW n \in Nat, n > 0, NEW k \in Int
  PROVE  /\ n * k - n = n * (k - 1)
         /\ n * k = n <=> k = 1
<1>1. n * k - n = n * (k - 1)
  BY SMT
<1>2. n * k = n => k = 1
  BY <1>1, SMT
<1> QED BY <1>1, <1>2

\* The approved challenges of a project can be counted.
LEMMA ApprovedFinite ==
  ASSUME NEW p
  PROVE  IsFiniteSet(Approved(p)) /\ Cardinality(Approved(p)) \in Nat
  BY RowsAssumption, FS_Subset, FS_CardinalityType DEF Approved, Of

\* A project whose money columns and whose approved challenges do not change
\* keeps its escrow property.
EscrowCovers(p) ==
      /\ Open(p) => /\ Unpaid(p) > 0
                    /\ project[p].escrow = project[p].net * Unpaid(p)
      /\ project[p].status = "completed" => Unpaid(p) = 0
      /\ ~Open(p) => project[p].escrow = 0

\* Nothing that the escrow depends on has changed.
LEMMA EscrowStable ==
  ASSUME NEW p \in Projects, EscrowCovers(p),
         project'[p].status = project[p].status, project'[p].net = project[p].net,
         project'[p].slots = project[p].slots, project'[p].escrow = project[p].escrow,
         Approved(p)' = Approved(p)
  PROVE  EscrowCovers(p)'
  BY DEF EscrowCovers, Open, Unpaid

\* Approved challenges only change when one becomes approved.
LEMMA ApprovedStable ==
  ASSUME NEW p, \A c \in Challenges :
           \/ challenge'[c].status # "approved" /\ challenge[c].status # "approved"
           \/ /\ challenge'[c].status = challenge[c].status
              /\ challenge'[c].project = challenge[c].project
  PROVE  Approved(p)' = Approved(p)
  BY DEF Approved, Of

\* Both ways to pay a challenge: one more approved challenge, one reward less in
\* the escrow, and the project is completed exactly by the last reward.
LEMMA PayKeepsEscrow ==
  ASSUME TypeOK, RowsLinked, EscrowCoversUnpaidSlots,
         NEW c \in Challenges, NEW kind,
         challenge[c].status \in {"submitted", "rejected"},
         Pay(challenge[c].project, c, challenge[c].reward, kind),
         \A x \in Challenges :
            /\ challenge'[x].project = challenge[x].project
            /\ challenge'[x].status = IF x = c THEN "approved" ELSE challenge[x].status
  PROVE  EscrowCoversUnpaidSlots'
<1> DEFINE p == challenge[c].project
           n == project[p].net
           k == Unpaid(p)
<1>1. /\ p \in Projects /\ challenge[c].reward = n /\ n \in Nat /\ n > 0
      /\ project[p].slots \in Nat /\ project[p].escrow \in Nat
  BY DEF RowsLinked, TypeOK, ProjectRow
<1>2. Pay(p, c, n, kind) /\ project[p].escrow >= n
  BY <1>1 DEF Pay
<1>3. Open(p)
  BY <1>1, <1>2 DEF EscrowCoversUnpaidSlots
<1>4. Approved(p)' = Approved(p) \cup {c} /\ c \notin Approved(p)
  BY DEF Approved, Of
<1>5. Cardinality(Approved(p))' = Cardinality(Approved(p)) + 1
  BY <1>4, ApprovedFinite, FS_AddElement
<1>6. project'[p].slots = project[p].slots /\ project'[p].net = n
  BY <1>1, <1>2, PayKeepsTerms
<1>7. k \in Int /\ Unpaid(p)' = k - 1
  BY <1>1, <1>5, <1>6, ApprovedFinite DEF Unpaid
<1>8. k > 0 /\ project[p].escrow = n * k
  BY <1>1, <1>3 DEF EscrowCoversUnpaidSlots
<1>9. /\ project[p].escrow - n = n * (k - 1)
      /\ project[p].escrow = n <=> k = 1
  BY <1>1, <1>7, <1>8, OneReward
<1>10. /\ project'[p].escrow = project[p].escrow - n
       /\ project'[p].status = IF project[p].escrow = n THEN "completed" ELSE project[p].status
  BY <1>1, <1>2, PayKeepsTerms
<1>11. EscrowCovers(p)'
  <2> HIDE DEF n, k
  <2>1. CASE k = 1
    <3>1. Unpaid(p)' = 0 /\ project'[p].status = "completed"
      BY <1>7, <1>9, <1>10, <2>1
    <3>2. project'[p].escrow = 0
      BY <1>1, <1>9, <1>10, <2>1
    <3> QED BY <3>1, <3>2 DEF EscrowCovers, Open
  <2>2. CASE k # 1
    <3>1. Unpaid(p)' > 0
      BY <1>7, <1>8, <2>2
    <3>2. project'[p].escrow = project'[p].net * Unpaid(p)'
      BY <1>6, <1>7, <1>9, <1>10
    <3>3. project'[p].status \in {"published", "paused"}
      BY <1>3, <1>9, <1>10, <2>2 DEF Open
    <3> QED BY <3>1, <3>2, <3>3 DEF EscrowCovers, Open
  <2> QED BY <2>1, <2>2
<1>12. ASSUME NEW x \in Projects, x # p PROVE EscrowCovers(x)'
  <2>1. Approved(x)' = Approved(x)
    BY <1>12 DEF Approved, Of
  <2>2. EscrowCovers(x)
    BY DEF EscrowCoversUnpaidSlots, EscrowCovers
  <2> QED BY <1>1, <1>2, <1>12, <2>1, <2>2, PayKeepsTerms, EscrowStable
<1> QED BY <1>11, <1>12 DEF EscrowCovers, EscrowCoversUnpaidSlots

\* Every step keeps the escrow sufficient.
LEMMA NextEscrow ==
  TypeOK /\ RowsLinked /\ EscrowCoversUnpaidSlots /\ [Next]_vars => EscrowCoversUnpaidSlots'
<1>0. SUFFICES ASSUME TypeOK, RowsLinked, EscrowCoversUnpaidSlots, [Next]_vars
               PROVE  EscrowCoversUnpaidSlots'
  OBVIOUS
<1>a. \A p \in Projects : EscrowCovers(p)
  BY <1>0 DEF EscrowCoversUnpaidSlots, EscrowCovers
<1>b. SUFFICES \A p \in Projects : EscrowCovers(p)'
  BY DEF EscrowCoversUnpaidSlots, EscrowCovers
\* Steps that leave the project rows alone and approve nothing.
<1>c. ASSUME UNCHANGED project,
             \A c \in Challenges :
               \/ challenge'[c].status # "approved" /\ challenge[c].status # "approved"
               \/ /\ challenge'[c].status = challenge[c].status
                  /\ challenge'[c].project = challenge[c].project
      PROVE \A p \in Projects : EscrowCovers(p)'
  BY <1>a, <1>c, ApprovedStable, EscrowStable
\* Steps that change one project row and no challenge.
<1>d. ASSUME NEW p \in Projects, NEW r, project' = [project EXCEPT ![p] = r],
             UNCHANGED challenge, EscrowCovers(p)'
      PROVE \A x \in Projects : EscrowCovers(x)'
  <2>1. \A x \in Projects : Approved(x)' = Approved(x)
    BY <1>d DEF Approved, Of
  <2>2. \A x \in Projects \ {p} : project'[x] = project[x]
    BY <1>0, <1>d DEF TypeOK
  <2> QED BY <1>a, <1>d, <2>1, <2>2, EscrowStable
<1>1. ASSUME NEW u \in Users, NEW p \in Projects, CreateDraft(u, p)
      PROVE \A x \in Projects : EscrowCovers(x)'
  <2>1. project'[p].status = "draft" /\ project'[p].escrow = 0
    BY <1>0, <1>1 DEF CreateDraft, NoProject, TypeOK
  <2>2. EscrowCovers(p)'
    BY <2>1 DEF EscrowCovers, Open
  <2> QED BY <1>1, <1>d, <2>2 DEF CreateDraft
<1>2. ASSUME NEW u \in Users, NEW p \in Projects, UpdateDraft(u, p)
      PROVE \A x \in Projects : EscrowCovers(x)'
  <2>1. project'[p].status = "draft" /\ project'[p].escrow = project[p].escrow
    BY <1>0, <1>2 DEF UpdateDraft, TypeOK, ProjectRow
  <2>2. EscrowCovers(p)'
    BY <1>a, <1>2, <2>1 DEF EscrowCovers, Open, UpdateDraft
  <2> QED BY <1>2, <1>d, <2>2 DEF UpdateDraft
<1>3. ASSUME NEW u \in Users, NEW p \in Projects, DeleteDraft(u, p)
      PROVE \A x \in Projects : EscrowCovers(x)'
  <2>1. project'[p].status = "none" /\ project'[p].escrow = 0
    BY <1>0, <1>3 DEF DeleteDraft, NoProject, TypeOK
  <2>2. EscrowCovers(p)'
    BY <2>1 DEF EscrowCovers, Open
  <2> QED BY <1>3, <1>d, <2>2 DEF DeleteDraft
<1>4. ASSUME NEW u \in Users, NEW p \in Projects, Publish(u, p)
      PROVE \A x \in Projects : EscrowCovers(x)'
  <2> DEFINE reward == project[p].reward
             slots  == project[p].slots
             fee(bps) == FeePerSlot(reward, bps)
  <2>1. PICK bps \in FeeRates :
         /\ fee(bps) < reward
         /\ project' = [project EXCEPT
                ![p].status = "published", ![p].net = reward - fee(bps),
                ![p].escrow = (reward - fee(bps)) * slots,
                ![p].fee = fee(bps) * slots]
    BY <1>4 DEF Publish
  <2> DEFINE n == reward - fee(bps)
             f == fee(bps) * slots
  <2>2. /\ project[p] \in ProjectRow /\ project[p].slots \in Nat
        /\ project[p].slots > 0 /\ project[p].status = "draft"
    BY <1>0, <1>4 DEF TypeOK, ProjectRow, RowsLinked, Publish
  <2>3. /\ project'[p].status = "published" /\ project'[p].net = n
        /\ project'[p].slots = project[p].slots
        /\ project'[p].escrow = n * project[p].slots
    <3>1. project' = [project EXCEPT ![p] = [project[p] EXCEPT
             !.status = "published", !.net = n, !.escrow = n * project[p].slots, !.fee = f]]
      BY <2>1
    <3> HIDE DEF n, f
    <3> QED BY <1>0, <2>2, <3>1 DEF TypeOK, ProjectRow
  <2>4. Approved(p)' = {}
    BY <1>0, <1>4, <2>2 DEF Publish, Approved, Of, RowsLinked
  <2>5. Unpaid(p)' = project[p].slots
    BY <2>2, <2>3, <2>4, FS_EmptySet DEF Unpaid
  <2>6. EscrowCovers(p)'
    BY <2>2, <2>3, <2>5 DEF EscrowCovers, Open
  <2>7. UNCHANGED challenge
    BY <1>4 DEF Publish
  <2> DEFINE row == [project[p] EXCEPT
             !.status = "published", !.net = n, !.escrow = n * project[p].slots, !.fee = f]
  <2>8. project' = [project EXCEPT ![p] = row]
    BY <2>1
  <2> HIDE DEF row
  <2> QED BY <1>d, <2>6, <2>7, <2>8
<1>5. ASSUME NEW u \in Users, NEW p \in Projects, NEW b \in BOOLEAN, SetPaused(u, p, b)
      PROVE \A x \in Projects : EscrowCovers(x)'
  <2>1. /\ project'[p].status \in {"published", "paused"} /\ Open(p)
        /\ project'[p].slots = project[p].slots /\ project'[p].net = project[p].net
        /\ project'[p].escrow = project[p].escrow
    BY <1>0, <1>5 DEF SetPaused, TypeOK, ProjectRow, Open
  <2>2. Approved(p)' = Approved(p)
    BY <1>5 DEF SetPaused, Approved, Of
  <2>3. EscrowCovers(p)'
    BY <1>a, <2>1, <2>2 DEF EscrowCovers, Open, Unpaid
  <2> QED BY <1>5, <1>d, <2>3 DEF SetPaused
<1>6. ASSUME NEW u \in Users, NEW p \in Projects, NEW b \in BOOLEAN, SetArchived(u, p, b)
      PROVE \A x \in Projects : EscrowCovers(x)'
  <2>1. /\ project'[p].status = project[p].status
        /\ project'[p].slots = project[p].slots /\ project'[p].net = project[p].net
        /\ project'[p].escrow = project[p].escrow
    BY <1>0, <1>6 DEF SetArchived, TypeOK, ProjectRow
  <2>2. Approved(p)' = Approved(p)
    BY <1>6 DEF SetArchived, Approved, Of
  <2>3. EscrowCovers(p)'
    BY <1>a, <2>1, <2>2, EscrowStable
  <2> QED BY <1>6, <1>d, <2>3 DEF SetArchived
<1>7. ASSUME NEW u \in Users, NEW p \in Projects, Close(u, p)
      PROVE \A x \in Projects : EscrowCovers(x)'
  <2>1. project'[p].status = "closed" /\ project'[p].escrow = 0
    BY <1>0, <1>7 DEF Close, TypeOK, ProjectRow
  <2>2. EscrowCovers(p)'
    BY <2>1 DEF EscrowCovers, Open
  <2> QED BY <1>7, <1>d, <2>2 DEF Close
<1>8. ASSUME NEW u \in Users, NEW p \in Projects, NEW c \in Challenges, Accept(u, p, c)
      PROVE \A x \in Projects : EscrowCovers(x)'
  <2>1. \A x \in Challenges :
          \/ challenge'[x].status # "approved" /\ challenge[x].status # "approved"
          \/ challenge'[x] = challenge[x]
    BY <1>0, <1>8 DEF Accept, TypeOK, NoChallenge
  <2> QED BY <1>8, <1>c, <2>1 DEF Accept
\* Steps that move one challenge between states other than approved.
<1>e. ASSUME NEW c \in Challenges, NEW r, challenge' = [challenge EXCEPT ![c] = r],
             r.status # "approved", challenge[c].status # "approved", UNCHANGED project
      PROVE \A p \in Projects : EscrowCovers(p)'
  <2>1. \A x \in Challenges :
          \/ challenge'[x].status # "approved" /\ challenge[x].status # "approved"
          \/ challenge'[x] = challenge[x]
    BY <1>0, <1>e DEF TypeOK
  <2> QED BY <1>e, <1>c, <2>1
<1>9. ASSUME NEW u \in Users, NEW c \in Challenges, NEW evidence \in Evidence,
             SubmitCheck(u, c, evidence)
      PROVE \A p \in Projects : EscrowCovers(p)'
  BY <1>9, <1>c DEF SubmitCheck
<1>10. ASSUME NEW c \in Challenges, SubmitCommit(c) PROVE \A p \in Projects : EscrowCovers(p)'
  <2> DEFINE r == [challenge[c] EXCEPT !.status = "submitted", !.issue = submitting[c].issue,
                                       !.pr = submitting[c].pr]
  <2>1. r.status # "approved" /\ challenge[c].status # "approved"
    BY <1>0, <1>10 DEF TypeOK, ChallengeRow, SubmitCommit, RowsLinked
  <2>2. challenge' = [challenge EXCEPT ![c] = r] /\ UNCHANGED project
    BY <1>10 DEF SubmitCommit
  <2> HIDE DEF r
  <2> QED BY <1>e, <2>1, <2>2
<1>11. ASSUME NEW c \in Challenges, SubmitRollback(c) PROVE \A p \in Projects : EscrowCovers(p)'
  BY <1>11, <1>c DEF SubmitRollback
<1>13. ASSUME NEW u \in Users, NEW c \in Challenges, Cancel(u, c) \/ Withdraw(u, c)
       PROVE \A p \in Projects : EscrowCovers(p)'
  <2>1. \A s \in ChallengeStatus : [challenge[c] EXCEPT !.status = s].status = s
    BY <1>0 DEF TypeOK, ChallengeRow
  <2> QED BY <1>13, <1>e, <2>1 DEF Cancel, Withdraw, ChallengeStatus
<1>15. ASSUME NEW u \in Users, NEW c \in Challenges, ReviewReject(u, c)
       PROVE \A p \in Projects : EscrowCovers(p)'
  <2>1. [challenge[c] EXCEPT !.status = "rejected", !.rejectedAt = now].status = "rejected"
    BY <1>0 DEF TypeOK, ChallengeRow
  <2> QED BY <1>15, <1>e, <2>1 DEF ReviewReject
<1>16. ASSUME NEW u \in Users, NEW c \in Challenges, ReviewApprove(u, c)
       PROVE \A p \in Projects : EscrowCovers(p)'
  <2>1. \A x \in Challenges :
            /\ challenge'[x].project = challenge[x].project
            /\ challenge'[x].status = IF x = c THEN "approved" ELSE challenge[x].status
    BY <1>0, <1>16 DEF ReviewApprove, TypeOK, ChallengeRow
  <2>2. Pay(challenge[c].project, c, challenge[c].reward, "reward_transfer")
        /\ challenge[c].status = "submitted"
    BY <1>16 DEF ReviewApprove
  <2>3. EscrowCoversUnpaidSlots'
    BY <1>0, <2>1, <2>2, PayKeepsEscrow
  <2> QED BY <2>3 DEF EscrowCoversUnpaidSlots, EscrowCovers
<1>17. ASSUME NEW u \in Users, NEW c \in Challenges, RateOwner(u, c) \/ Tip(u, c)
       PROVE \A p \in Projects : EscrowCovers(p)'
  <2>1. \A x \in Challenges : challenge'[x].status = challenge[x].status
                              /\ challenge'[x].project = challenge[x].project
    <3>1. CASE RateOwner(u, c)
      BY <1>0, <3>1 DEF RateOwner, TypeOK, ChallengeRow
    <3>2. CASE Tip(u, c)
      <4>1. PICK q \in TipQuotas : challenge' = [challenge EXCEPT ![c].tip = @ + q]
        BY <3>2 DEF Tip
      <4> QED BY <1>0, <4>1 DEF TypeOK, ChallengeRow
    <3> QED BY <1>17, <3>1, <3>2
  <2> QED BY <1>17, <1>c, <2>1 DEF RateOwner, Tip
<1>19. ASSUME NEW u \in Users, NEW c \in Challenges, NEW d \in Disputes, OpenDispute(u, c, d)
       PROVE \A p \in Projects : EscrowCovers(p)'
  BY <1>19, <1>c DEF OpenDispute
<1>20. ASSUME NEW u \in Users, NEW d \in Disputes, ResolveDeny(u, d)
       PROVE \A p \in Projects : EscrowCovers(p)'
  BY <1>20, <1>c DEF ResolveDeny
<1>21. ASSUME NEW u \in Users, NEW d \in Disputes, ResolvePay(u, d)
       PROVE \A p \in Projects : EscrowCovers(p)'
  <2> DEFINE c == dispute[d].challenge
  <2>1. /\ c \in Challenges /\ challenge[c].status \in {"submitted", "rejected"}
        /\ Pay(challenge[c].project, c, challenge[c].reward, "dispute_reward_transfer")
    BY <1>0, <1>21 DEF RowsLinked, ResolvePay, Adjudicates
  <2>2. \A x \in Challenges :
            /\ challenge'[x].project = challenge[x].project
            /\ challenge'[x].status = IF x = c THEN "approved" ELSE challenge[x].status
    BY <1>0, <1>21, <2>1 DEF ResolvePay, TypeOK, ChallengeRow
  <2>3. EscrowCoversUnpaidSlots'
    BY <1>0, <2>1, <2>2, PayKeepsEscrow
  <2> QED BY <2>3 DEF EscrowCoversUnpaidSlots, EscrowCovers
<1>22. CASE Tick \/ UNCHANGED vars \/ \E u \in Users, s \in AccountStatus : SetAccount(u, s)
  BY <1>22, <1>c DEF Tick, SetAccount, vars
<1> QED
  BY <1>0, <1>1, <1>2, <1>3, <1>4, <1>5, <1>6, <1>7, <1>8, <1>9, <1>10, <1>11, <1>13,
     <1>15, <1>16, <1>17, <1>19, <1>20, <1>21, <1>22
  DEF Next, ProjectStep, ChallengeStep, DisputeStep

\* The escrow of every open project covers exactly its unpaid slots, for any
\* number of projects, challenges and disputes.
THEOREM EscrowCorrect == Spec => []EscrowCoversUnpaidSlots
<1>1. Init => TypeOK /\ RowsLinked /\ EscrowCoversUnpaidSlots
  <2>1. Init => EscrowCoversUnpaidSlots
    BY DEF Init, EscrowCoversUnpaidSlots, NoProject, Open
  <2> QED BY <2>1, InitTypeOK, InitRowsLinked
<1>2. /\ TypeOK /\ RowsLinked /\ EscrowCoversUnpaidSlots
      /\ [Next]_vars
      => (TypeOK /\ RowsLinked /\ EscrowCoversUnpaidSlots)'
  BY NextTypeOK, NextRowsLinked, NextEscrow
<1> QED BY <1>1, <1>2, PTL DEF Spec
=============================================================================
