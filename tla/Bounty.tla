------------------------------- MODULE Bounty -------------------------------
(***************************************************************************)
(* The open-source bounty market of apps/api-go/model: projects whose      *)
(* rewards are held in escrow, the challenges contributors take on, the    *)
(* reviews that pay them and the disputes that let an administrator pay    *)
(* over the publisher's head.                                              *)
(*                                                                         *)
(* One action is one database transaction.  That is what the row locks     *)
(* justify: every transaction that reads several rows first locks the      *)
(* project row (FOR UPDATE) and then the challenge row, and the ones that  *)
(* lock only a challenge (withdraw, rate) read nothing but that challenge  *)
(* and its disputes, which are only written under the same lock.  The one  *)
(* exception is SubmitOpenSourceBountyChallenge, which compares its pull   *)
(* request with OTHER challenges while it holds the lock of its own row    *)
(* only; it is two actions here, and submitting[c] is the lock.            *)
(*                                                                         *)
(* Texts (titles, rules, statements, notes) are left out, an evidence URL  *)
(* is a flag (the issue) or a member of PullRequests.                      *)
(***************************************************************************)
EXTENDS Integers, FiniteSets, Functions

CONSTANTS Users,            \* accounts
          Sponsors,         \* bound: the accounts that create projects
          Admins,           \* those with role >= RoleAdminUser
          Roots,            \* those with role RoleRootUser
          Projects,         \* row ids of open_source_bounty_projects
          Challenges,       \* row ids of open_source_bounty_challenges
          Disputes,         \* row ids of open_source_bounty_disputes
          PullRequests,     \* normalized pull request URLs
          RewardQuotas,     \* gross rewards a draft may ask for
          SlotCounts,       \* numbers of reward slots a draft may ask for
          FeeRates,         \* values of the fee-rate option, in basis points
          TipQuotas,        \* amounts of a tip
          RatingScores,     \* scores a contributor gives the sponsor
          AppealWindow,     \* OpenSourceBountyAppealWindowSeconds, in ticks
          MinWalletQuota, MaxWalletQuota,
          InitialQuota,     \* wallets before the first bounty
          Revocable,        \* accounts whose status an administrator changes
          MaxTime,          \* bound: the clock stops here
          None              \* SQL NULL, and an empty URL

ASSUME RowsAssumption ==
    /\ Sponsors \subseteq Users /\ Revocable \subseteq Users
    /\ Admins \subseteq Users /\ Roots \subseteq Admins
    /\ IsFiniteSet(Users) /\ IsFiniteSet(Projects)
    /\ IsFiniteSet(Challenges) /\ IsFiniteSet(Disputes)
    /\ None \notin Users \cup Projects \cup Challenges \cup PullRequests

ASSUME QuotaAssumption ==
    /\ \A q \in RewardQuotas \cup TipQuotas : q \in Nat /\ q > 0
    /\ SlotCounts \subseteq 1 .. 100
    /\ FeeRates \subseteq 0 .. 10000
    /\ RatingScores \subseteq 1 .. 5

ASSUME WalletAssumption ==
    /\ MinWalletQuota \in Int /\ MaxWalletQuota \in Nat
    /\ MinWalletQuota <= 0
    /\ InitialQuota \in [Users -> MinWalletQuota .. MaxWalletQuota]

ASSUME TimeAssumption == AppealWindow \in Nat \ {0} /\ MaxTime \in Nat

VARIABLES account,     \* account[u]: status and soft deletion of a user row
          wallet,      \* wallet[u]: users.quota
          project,     \* project[p]: a project row
          challenge,   \* challenge[c]: a challenge row
          dispute,     \* dispute[d]: a dispute row
          ledger,      \* ledger[p][kind]: sum of the project's ledger rows
          payouts,     \* payouts[c]: ledger rows with c's RewardPayoutKey
          submitting,  \* submitting[c]: evidence of the in-flight submission
                       \* that holds c's row lock, or None
          now          \* common.GetTimestamp()

vars == <<account, wallet, project, challenge, dispute, ledger, payouts,
          submitting, now>>

-----------------------------------------------------------------------------
(* Rows.  Status "none" is a row that has not been inserted.               *)

ProjectStatus   == {"none", "draft", "published", "paused", "completed", "closed"}
ChallengeStatus == {"none", "accepted", "submitted", "approved", "rejected",
                    "withdrawn", "cancelled"}
DisputeStatus   == {"none", "open", "resolved_paid", "resolved_denied"}
LedgerKind      == {"escrow_fund", "platform_fee", "reward_transfer",
                    "dispute_reward_transfer", "escrow_refund", "tip_transfer"}
AccountStatus   == {"enabled", "disabled", "deleted"}
Rating          == 0 .. 5
Evidence        == [issue : BOOLEAN, pr : PullRequests \cup {None}]

ProjectRow ==
    [status : ProjectStatus, owner : Users \cup {None}, reward : Nat,
     slots : Nat, net : Nat, escrow : Nat, fee : Nat, archived : BOOLEAN]

ChallengeRow ==
    [status : ChallengeStatus, project : Projects \cup {None},
     user : Users \cup {None}, reward : Nat, tip : Nat,
     issue : BOOLEAN, pr : PullRequests \cup {None}, rejectedAt : Nat,
     rating : Rating, overturned : BOOLEAN]

DisputeRow ==
    [status : DisputeStatus, challenge : Challenges \cup {None},
     openedBy : Users \cup {None}, against : Users \cup {None},
     reward : Nat, resolvedBy : Users \cup {None}]

NoProject == [status |-> "none", owner |-> None, reward |-> 0, slots |-> 0,
              net |-> 0, escrow |-> 0, fee |-> 0, archived |-> FALSE]

NoChallenge == [status |-> "none", project |-> None, user |-> None,
                reward |-> 0, tip |-> 0, issue |-> FALSE, pr |-> None,
                rejectedAt |-> 0, rating |-> 0, overturned |-> FALSE]

NoDispute == [status |-> "none", challenge |-> None, openedBy |-> None,
              against |-> None, reward |-> 0, resolvedBy |-> None]

Init == /\ account = [u \in Users |-> "enabled"]
        /\ wallet = InitialQuota
        /\ project = [p \in Projects |-> NoProject]
        /\ challenge = [c \in Challenges |-> NoChallenge]
        /\ dispute = [d \in Disputes |-> NoDispute]
        /\ ledger = [p \in Projects |-> [k \in LedgerKind |-> 0]]
        /\ payouts = [c \in Challenges |-> 0]
        /\ submitting = [c \in Challenges |-> None]
        /\ now = 0

-----------------------------------------------------------------------------
(* Wallets: UpdateWalletQuotaByDelta is one conditional UPDATE; when its   *)
(* predicates fail the surrounding transaction rolls back.                 *)

CanDebit(w, u, q) == account[u] # "deleted" /\ w[u] >= q /\ q <= MaxWalletQuota

\* Mutant: a credit that does not look at deleted_at.
CanCredit_Deleted(w, u, q) == q <= MaxWalletQuota /\ w[u] + q <= MaxWalletQuota

\* Mutant: a credit without the upper bound of the wallet.
CanCredit_NoCap(w, u, q) == account[u] # "deleted" /\ q <= MaxWalletQuota

CanCredit(w, u, q) ==
    account[u] # "deleted" /\ q <= MaxWalletQuota /\ w[u] + q <= MaxWalletQuota

AddQuota(w, u, q) == [w EXCEPT ![u] = @ + q]

-----------------------------------------------------------------------------
(* Projects                                                                *)

\* feePerSlot64 of CalculateOpenSourceBountyPublicationCharge.
FeePerSlot(reward, bps) ==
    (reward \div 10000) * bps + ((reward % 10000) * bps + 9999) \div 10000

OwnedBy(p, u) == project[p].status # "none" /\ project[p].owner = u

Open(p) == project[p].status \in {"published", "paused"}

CreateDraft(u, p) ==
    /\ project[p].status = "none" /\ u \in Sponsors
    /\ \E reward \in RewardQuotas, slots \in SlotCounts :
         project' = [project EXCEPT ![p] =
             [NoProject EXCEPT !.status = "draft", !.owner = u,
                               !.reward = reward, !.slots = slots]]
    /\ UNCHANGED <<account, wallet, challenge, dispute, ledger, payouts,
                   submitting, now>>

UpdateDraft(u, p) ==
    /\ OwnedBy(p, u) /\ project[p].status = "draft"
    /\ \E reward \in RewardQuotas, slots \in SlotCounts :
         project' = [project EXCEPT ![p].reward = reward, ![p].slots = slots]
    /\ UNCHANGED <<account, wallet, challenge, dispute, ledger, payouts,
                   submitting, now>>

DeleteDraft(u, p) ==
    /\ OwnedBy(p, u) /\ project[p].status = "draft"
    /\ project' = [project EXCEPT ![p] = NoProject]
    /\ UNCHANGED <<account, wallet, challenge, dispute, ledger, payouts,
                   submitting, now>>

\* The sponsor pays reward * slots; the platform fee is taken out of it and
\* credited to a root account, the rest becomes the escrow.  A zero fee needs
\* no recipient.  The code credits the enabled root with the lowest id; which
\* one that is is left open.
Publish(u, p) ==
    /\ OwnedBy(p, u) /\ project[p].status = "draft"
    /\ \E bps \in FeeRates :
         LET reward == project[p].reward
             slots  == project[p].slots
             fee    == FeePerSlot(reward, bps)
             w      == AddQuota(wallet, u, -(reward * slots))
         IN  /\ fee < reward
             /\ CanDebit(wallet, u, reward * slots)
             /\ \/ /\ fee = 0
                   /\ wallet' = w
                \/ /\ fee > 0
                   /\ \E root \in Roots :
                        /\ account[root] = "enabled"
                        /\ CanCredit(w, root, fee * slots)
                        /\ wallet' = AddQuota(w, root, fee * slots)
             /\ project' = [project EXCEPT
                    ![p].status = "published", ![p].net = reward - fee,
                    ![p].escrow = (reward - fee) * slots,
                    ![p].fee = fee * slots]
             /\ ledger' = [ledger EXCEPT
                    ![p]["escrow_fund"] = @ + (reward - fee) * slots,
                    ![p]["platform_fee"] = @ + fee * slots]
    /\ UNCHANGED <<account, challenge, dispute, payouts, submitting, now>>

SetPaused(u, p, paused) ==
    /\ OwnedBy(p, u)
    /\ project[p].status = IF paused THEN "published" ELSE "paused"
    /\ project' = [project EXCEPT
           ![p].status = IF paused THEN "paused" ELSE "published"]
    /\ UNCHANGED <<account, wallet, challenge, dispute, ledger, payouts,
                   submitting, now>>

SetArchived(u, p, archived) ==
    /\ OwnedBy(p, u) /\ project[p].status \in {"completed", "closed"}
    /\ project[p].archived # archived
    /\ project' = [project EXCEPT ![p].archived = archived]
    /\ UNCHANGED <<account, wallet, challenge, dispute, ledger, payouts,
                   submitting, now>>

-----------------------------------------------------------------------------
(* Reservation of reward slots, as the SQL of accept and close counts it.  *)

HasDispute(c, statuses) ==
    \E d \in Disputes : dispute[d].challenge = c /\ dispute[d].status \in statuses

InAppealWindow(c) == challenge[c].rejectedAt > now - AppealWindow

\* A rejection the contributor is still expected to appeal.
Appealable(c) ==
    /\ challenge[c].status = "rejected" /\ InAppealWindow(c)
    /\ ~HasDispute(c, {"resolved_paid", "resolved_denied"})

\* Mutant: an open dispute does not keep its slot.
Occupies_NoDispute(c) ==
    challenge[c].status \in {"accepted", "submitted", "approved"} \/ Appealable(c)

Occupies(c) ==
    \/ challenge[c].status \in {"accepted", "submitted", "approved"}
    \/ Appealable(c)
    \/ HasDispute(c, {"open"})

Of(p) == {c \in Challenges : challenge[c].project = p}

Occupied(p) == {c \in Of(p) : Occupies(c)}

\* Mutant: a rejected contributor may retry at once.
RetryPending_Never(c) == FALSE

\* Rejected attempts of u that forbid another one for now.
RetryPending(c) ==
    /\ challenge[c].status = "rejected"
    /\ \/ InAppealWindow(c) /\ ~HasDispute(c, {"resolved_denied"})
       \/ HasDispute(c, {"open"})

Unlocked(c) == submitting[c] = None

\* Mutant: closing ignores open disputes.
Close_IgnoresDisputes(u, p) ==
    /\ OwnedBy(p, u) /\ Open(p)
    /\ \A c \in Of(p) : challenge[c].status \notin {"accepted", "submitted"}
    /\ wallet' = AddQuota(wallet, u, project[p].escrow)
    /\ project' = [project EXCEPT ![p].status = "closed", ![p].escrow = 0]
    /\ ledger' = [ledger EXCEPT ![p]["escrow_refund"] = @ + project[p].escrow]
    /\ UNCHANGED <<account, challenge, dispute, payouts, submitting, now>>

\* Mutant: the refund leaves the escrow in place.
Close_KeepsEscrow(u, p) ==
    /\ OwnedBy(p, u) /\ Open(p)
    /\ \A c \in Of(p) :
         /\ challenge[c].status \notin {"accepted", "submitted"}
         /\ ~HasDispute(c, {"open"})
         /\ ~Appealable(c)
    /\ wallet' = AddQuota(wallet, u, project[p].escrow)
    /\ project' = [project EXCEPT ![p].status = "closed"]
    /\ ledger' = [ledger EXCEPT ![p]["escrow_refund"] = @ + project[p].escrow]
    /\ UNCHANGED <<account, challenge, dispute, payouts, submitting, now>>

Close(u, p) ==
    /\ OwnedBy(p, u) /\ Open(p)
    /\ \A c \in Of(p) :
         /\ challenge[c].status \notin {"accepted", "submitted"}
         /\ ~HasDispute(c, {"open"})
         /\ ~Appealable(c)
    /\ project[p].escrow > 0 => CanCredit(wallet, u, project[p].escrow)
    /\ wallet' = AddQuota(wallet, u, project[p].escrow)
    /\ project' = [project EXCEPT ![p].status = "closed", ![p].escrow = 0]
    /\ ledger' = [ledger EXCEPT ![p]["escrow_refund"] = @ + project[p].escrow]
    /\ UNCHANGED <<account, challenge, dispute, payouts, submitting, now>>

-----------------------------------------------------------------------------
(* Challenges                                                              *)

Accept(u, p, c) ==
    /\ challenge[c].status = "none"
    /\ project[p].status = "published" /\ project[p].owner # u
    /\ \A e \in Of(p) : challenge[e].user = u =>
         /\ challenge[e].status \notin {"accepted", "submitted", "approved"}
         /\ ~RetryPending(e)
    /\ Cardinality(Occupied(p)) < project[p].slots
    /\ challenge' = [challenge EXCEPT ![c] =
           [NoChallenge EXCEPT !.status = "accepted", !.project = p, !.user = u,
                               !.reward = IF project[p].net > 0
                                          THEN project[p].net
                                          ELSE project[p].reward]]
    /\ UNCHANGED <<account, wallet, project, dispute, ledger, payouts,
                   submitting, now>>

\* The first half of a submission: c's row is locked, the evidence is
\* validated, and no other submitted or approved challenge of the project
\* shows the same pull request in what has been committed.
SubmitCheck(u, c, evidence) ==
    /\ challenge[c].status = "accepted" /\ challenge[c].user = u
    /\ Unlocked(c)
    /\ evidence.issue \/ evidence.pr # None
    /\ evidence.pr # None =>
         \A e \in Of(challenge[c].project) \ {c} :
            ~ /\ challenge[e].pr = evidence.pr
              /\ challenge[e].status \in {"submitted", "approved"}
    /\ submitting' = [submitting EXCEPT ![c] = evidence]
    /\ UNCHANGED <<account, wallet, project, challenge, dispute, ledger,
                   payouts, now>>

\* The second half: the row is written and the transaction commits.
SubmitCommit(c) ==
    /\ ~Unlocked(c)
    /\ challenge' = [challenge EXCEPT
           ![c].status = "submitted", ![c].issue = submitting[c].issue,
           ![c].pr = submitting[c].pr]
    /\ submitting' = [submitting EXCEPT ![c] = None]
    /\ UNCHANGED <<account, wallet, project, dispute, ledger, payouts, now>>

\* A lost connection or a database error in between rolls it back.
SubmitRollback(c) ==
    /\ ~Unlocked(c)
    /\ submitting' = [submitting EXCEPT ![c] = None]
    /\ UNCHANGED <<account, wallet, project, challenge, dispute, ledger,
                   payouts, now>>

\* Mutant: a cancellation that does not wait for the row lock.
Cancel_IgnoresLock(u, c) ==
    /\ challenge[c].status = "accepted"
    /\ OwnedBy(challenge[c].project, u) /\ Open(challenge[c].project)
    /\ ~HasDispute(c, {"open"})
    /\ challenge' = [challenge EXCEPT ![c].status = "cancelled"]
    /\ UNCHANGED <<account, wallet, project, dispute, ledger, payouts,
                   submitting, now>>

Cancel(u, c) ==
    /\ challenge[c].status = "accepted" /\ Unlocked(c)
    /\ OwnedBy(challenge[c].project, u) /\ Open(challenge[c].project)
    /\ ~HasDispute(c, {"open"})
    /\ challenge' = [challenge EXCEPT ![c].status = "cancelled"]
    /\ UNCHANGED <<account, wallet, project, dispute, ledger, payouts,
                   submitting, now>>

\* Mutant: a contributor withdraws after the review.
Withdraw_AfterReview(u, c) ==
    /\ challenge[c].user = u /\ Unlocked(c)
    /\ challenge[c].status \in {"accepted", "submitted", "rejected"}
    /\ challenge' = [challenge EXCEPT ![c].status = "withdrawn"]
    /\ UNCHANGED <<account, wallet, project, dispute, ledger, payouts,
                   submitting, now>>

Withdraw(u, c) ==
    /\ challenge[c].user = u /\ Unlocked(c)
    /\ challenge[c].status \in {"accepted", "submitted"}
    /\ ~HasDispute(c, {"open"})
    /\ challenge' = [challenge EXCEPT ![c].status = "withdrawn"]
    /\ UNCHANGED <<account, wallet, project, dispute, ledger, payouts,
                   submitting, now>>

\* Rejecting does not look at the project's status.
ReviewReject(u, c) ==
    /\ challenge[c].status = "submitted" /\ Unlocked(c)
    /\ OwnedBy(challenge[c].project, u)
    /\ challenge' = [challenge EXCEPT ![c].status = "rejected",
                                      ![c].rejectedAt = now]
    /\ UNCHANGED <<account, wallet, project, dispute, ledger, payouts,
                   submitting, now>>

\* Mutant: the payout never completes the project.
Pay_NeverCompletes(p, c, q, kind) ==
    /\ q > 0 /\ project[p].escrow >= q
    /\ CanCredit(wallet, challenge[c].user, q)
    /\ wallet' = AddQuota(wallet, challenge[c].user, q)
    /\ project' = [project EXCEPT ![p].escrow = @ - q]
    /\ ledger' = [ledger EXCEPT ![p][kind] = @ + q]
    /\ payouts' = [payouts EXCEPT ![c] = @ + 1]

\* What both payouts do: q leaves p's escrow for the contributor of c, the
\* project completes when nothing is left, and a ledger row takes c's
\* RewardPayoutKey, which is a unique index.
Pay(p, c, q, kind) ==
    /\ q > 0 /\ project[p].escrow >= q
    /\ CanCredit(wallet, challenge[c].user, q)
    /\ payouts[c] = 0
    /\ wallet' = AddQuota(wallet, challenge[c].user, q)
    /\ project' = [project EXCEPT
           ![p].escrow = @ - q,
           ![p].status = IF project[p].escrow = q THEN "completed" ELSE @]
    /\ ledger' = [ledger EXCEPT ![p][kind] = @ + q]
    /\ payouts' = [payouts EXCEPT ![c] = @ + 1]

\* An approval also settles the dispute that is open on the challenge.
ReviewApprove(u, c) ==
    /\ challenge[c].status = "submitted" /\ Unlocked(c)
    /\ OwnedBy(challenge[c].project, u) /\ Open(challenge[c].project)
    /\ Pay(challenge[c].project, c, challenge[c].reward, "reward_transfer")
    /\ challenge' = [challenge EXCEPT ![c].status = "approved"]
    /\ dispute' = [d \in Disputes |->
           IF dispute[d].challenge = c /\ dispute[d].status = "open"
           THEN [dispute[d] EXCEPT !.status = "resolved_paid", !.resolvedBy = u]
           ELSE dispute[d]]
    /\ UNCHANGED <<account, submitting, now>>

RateOwner(u, c) ==
    /\ challenge[c].user = u /\ Unlocked(c)
    /\ challenge[c].status \in {"approved", "rejected"}
    /\ challenge[c].rating = 0
    /\ \E score \in RatingScores : challenge' = [challenge EXCEPT ![c].rating = score]
    /\ UNCHANGED <<account, wallet, project, dispute, ledger, payouts,
                   submitting, now>>

Tip(u, c) ==
    /\ challenge[c].status \notin {"none", "withdrawn", "cancelled"}
    /\ Unlocked(c)
    /\ OwnedBy(challenge[c].project, u) /\ challenge[c].user # u
    /\ \E q \in TipQuotas :
         /\ CanDebit(wallet, u, q)
         /\ CanCredit(wallet, challenge[c].user, q)
         /\ wallet' = AddQuota(AddQuota(wallet, u, -q), challenge[c].user, q)
         /\ challenge' = [challenge EXCEPT ![c].tip = @ + q]
         /\ ledger' = [ledger EXCEPT
                ![challenge[c].project]["tip_transfer"] = @ + q]
    /\ UNCHANGED <<account, project, dispute, payouts, submitting, now>>

-----------------------------------------------------------------------------
(* Disputes                                                                *)

Party(u, c) == u = challenge[c].user \/ u = project[challenge[c].project].owner

OpenDispute(u, c, d) ==
    /\ dispute[d].status = "none"
    /\ challenge[c].status \notin {"none", "withdrawn", "cancelled"}
    /\ Unlocked(c)
    /\ project[challenge[c].project].status \notin {"draft", "closed"}
    /\ Party(u, c)
    /\ challenge[c].status = "rejected" => InAppealWindow(c)
    /\ ~HasDispute(c, {"open"})
    /\ \A e \in Disputes : ~(dispute[e].challenge = c /\ dispute[e].openedBy = u)
    /\ dispute' = [dispute EXCEPT ![d] =
           [status |-> "open", challenge |-> c, openedBy |-> u,
            against |-> IF u = project[challenge[c].project].owner
                        THEN challenge[c].user
                        ELSE project[challenge[c].project].owner,
            reward |-> challenge[c].reward, resolvedBy |-> None]]
    /\ UNCHANGED <<account, wallet, project, challenge, ledger, payouts,
                   submitting, now>>

\* Mutant: administrators may decide their own cases.
Adjudicates_Anyone(u, d) ==
    /\ u \in Admins /\ account[u] = "enabled"
    /\ dispute[d].status = "open" /\ Unlocked(dispute[d].challenge)

\* Who may decide: an enabled administrator that is no party of the case.
Adjudicates(u, d) ==
    /\ u \in Admins /\ account[u] = "enabled"
    /\ dispute[d].status = "open" /\ Unlocked(dispute[d].challenge)
    /\ ~Party(u, dispute[d].challenge)

ResolveDeny(u, d) ==
    /\ Adjudicates(u, d)
    /\ dispute' = [dispute EXCEPT ![d].status = "resolved_denied",
                                  ![d].resolvedBy = u]
    /\ UNCHANGED <<account, wallet, project, challenge, ledger, payouts,
                   submitting, now>>

ResolvePay(u, d) ==
    LET c == dispute[d].challenge
        p == challenge[c].project
    IN  /\ Adjudicates(u, d)
        /\ dispute[d].openedBy = challenge[c].user
        /\ dispute[d].against = project[p].owner
        /\ challenge[c].status \in {"submitted", "rejected"}
        /\ challenge[c].issue /\ challenge[c].pr # None
        /\ challenge[c].reward = dispute[d].reward
        /\ Pay(p, c, dispute[d].reward, "dispute_reward_transfer")
        /\ challenge' = [challenge EXCEPT
               ![c].status = "approved",
               ![c].overturned = challenge[c].status = "rejected"]
        /\ dispute' = [dispute EXCEPT ![d].status = "resolved_paid",
                                      ![d].resolvedBy = u]
        /\ UNCHANGED <<account, submitting, now>>

-----------------------------------------------------------------------------
(* The environment: administrators disable, enable and delete accounts,    *)
(* and the clock advances.                                                 *)

SetAccount(u, status) ==
    /\ u \in Revocable /\ account[u] # "deleted" /\ account[u] # status
    /\ account' = [account EXCEPT ![u] = status]
    /\ UNCHANGED <<wallet, project, challenge, dispute, ledger, payouts,
                   submitting, now>>

Tick == /\ now < MaxTime
        /\ now' = now + 1
        /\ UNCHANGED <<account, wallet, project, challenge, dispute, ledger,
                       payouts, submitting>>

-----------------------------------------------------------------------------
ProjectStep(u, p) ==
    \/ CreateDraft(u, p) \/ UpdateDraft(u, p) \/ DeleteDraft(u, p)
    \/ Publish(u, p) \/ Close(u, p)
    \/ \E b \in BOOLEAN : SetPaused(u, p, b)
    \/ \E b \in BOOLEAN : SetArchived(u, p, b)
    \/ \E c \in Challenges : Accept(u, p, c)

ChallengeStep(u, c) ==
    \/ \E evidence \in Evidence : SubmitCheck(u, c, evidence)
    \/ Cancel(u, c) \/ Withdraw(u, c)
    \/ ReviewReject(u, c) \/ ReviewApprove(u, c)
    \/ RateOwner(u, c) \/ Tip(u, c)
    \/ \E d \in Disputes : OpenDispute(u, c, d)

DisputeStep(u, d) == ResolveDeny(u, d) \/ ResolvePay(u, d)

Next ==
    \/ \E u \in Users, p \in Projects : ProjectStep(u, p)
    \/ \E u \in Users, c \in Challenges : ChallengeStep(u, c)
    \/ \E u \in Users, d \in Disputes : DisputeStep(u, d)
    \/ \E c \in Challenges : SubmitCommit(c) \/ SubmitRollback(c)
    \/ \E u \in Users, status \in AccountStatus : SetAccount(u, status)
    \/ Tick

Spec == Init /\ [][Next]_vars

-----------------------------------------------------------------------------
(* Properties                                                              *)

Approved(p) == {c \in Of(p) : challenge[c].status = "approved"}

Unpaid(p) == project[p].slots - Cardinality(Approved(p))

Cases(c) == {d \in Disputes : dispute[d].challenge = c}

\* Every row has the columns and the values its table allows.
TypeOK ==
    /\ account \in [Users -> AccountStatus]
    /\ wallet \in [Users -> MinWalletQuota .. MaxWalletQuota]
    /\ project \in [Projects -> ProjectRow]
    /\ challenge \in [Challenges -> ChallengeRow]
    /\ dispute \in [Disputes -> DisputeRow]
    /\ ledger \in [Projects -> [LedgerKind -> Nat]]
    /\ payouts \in [Challenges -> Nat]
    /\ submitting \in [Challenges -> Evidence \cup {None}]
    /\ now \in 0 .. MaxTime

\* Foreign keys and frozen terms: a challenge belongs to a project that has been
\* published and carries its net reward, a dispute to a challenge that exists,
\* and a submission in flight holds the lock of an accepted row.
RowsLinked ==
    /\ \A p \in Projects : project[p].status # "none" => project[p].slots > 0
    /\ \A p \in Projects : project[p].status \notin {"none", "draft"} => project[p].net > 0
    /\ \A c \in Challenges : challenge[c].status # "none" =>
         /\ challenge[c].project \in Projects /\ challenge[c].user \in Users
         /\ project[challenge[c].project].status \notin {"none", "draft"}
         /\ challenge[c].reward = project[challenge[c].project].net
    /\ \A c \in Challenges : challenge[c].status = "none" => challenge[c] = NoChallenge
    /\ \A d \in Disputes : dispute[d].status # "none" =>
         /\ dispute[d].challenge \in Challenges
         /\ challenge[dispute[d].challenge].status # "none"
    /\ \A d \in Disputes : dispute[d].status = "none" => dispute[d] = NoDispute
    /\ \A c \in Challenges : ~Unlocked(c) => challenge[c].status = "accepted"

\* The escrow of an open project is exactly the rewards of the slots nobody
\* has been paid for, whatever mixture of approvals (publish, review) and
\* enforced dispute payouts led there; a project completes exactly when every
\* slot is paid, and keeps nothing once it is completed or closed.
EscrowCoversUnpaidSlots ==
    \A p \in Projects :
      /\ Open(p) => /\ Unpaid(p) > 0
                    /\ project[p].escrow = project[p].net * Unpaid(p)
      /\ project[p].status = "completed" => Unpaid(p) = 0
      /\ ~Open(p) => project[p].escrow = 0

\* The ledger tells the same story as the rows: what was funded and neither
\* paid out nor refunded is the escrow, and a challenge has its one payout row
\* exactly when it is approved, so the unique RewardPayoutKey never has to
\* reject a second payment by review or by dispute.
LedgerReconciles ==
    /\ \A p \in Projects :
         /\ project[p].escrow =
              ledger[p]["escrow_fund"] - ledger[p]["escrow_refund"]
              - ledger[p]["reward_transfer"] - ledger[p]["dispute_reward_transfer"]
         /\ ledger[p]["platform_fee"] = project[p].fee
         /\ project[p].status \in {"none", "draft"} => project[p].fee = 0
    /\ \A c \in Challenges :
         payouts[c] = IF challenge[c].status = "approved" THEN 1 ELSE 0

\* Quota moves between wallets and escrows (publish, close, review, tip,
\* resolve) and is neither created nor destroyed by any of them.
NoQuotaLost ==
    SumFunction(wallet) + SumFunction([p \in Projects |-> project[p].escrow])
      = SumFunction(InitialQuota)

\* The slot count of AcceptOpenSourceBounty holds for every challenge that has
\* seen at most one dispute: such challenges never occupy more slots than the
\* project has, even while rejections wait for their appeal.
SlotsNotOverbooked ==
    \A p \in Projects :
      Cardinality({c \in Occupied(p) : Cardinality(Cases(c)) <= 1})
        <= project[p].slots

\* A closed project owes nothing: no challenge is accepted or submitted, none
\* is in the middle of a submission, and no dispute is open.
ClosedIsSettled ==
    \A c \in Challenges :
      challenge[c].status # "none" /\ project[challenge[c].project].status = "closed" =>
        /\ challenge[c].status \notin {"accepted", "submitted"}
        /\ Unlocked(c)
        /\ ~HasDispute(c, {"open"})

\* Disputes: at most one is open per challenge and each party has at most one
\* case (what the unique OpenKey and CaseKey enforce), an open case stands on
\* a challenge that was not withdrawn or cancelled under it, and nobody who is
\* a party denies a case.
DisputesAreFair ==
    /\ \A d, e \in Disputes :
         (d # e /\ dispute[d].status # "none" /\ dispute[d].challenge = dispute[e].challenge) =>
            /\ ~(dispute[d].status = "open" /\ dispute[e].status = "open")
            /\ dispute[d].openedBy # dispute[e].openedBy
    /\ \A d \in Disputes :
         /\ dispute[d].status = "open" =>
              challenge[dispute[d].challenge].status
                 \in {"accepted", "submitted", "approved", "rejected"}
         /\ dispute[d].status = "resolved_denied" =>
              ~Party(dispute[d].resolvedBy, dispute[d].challenge)

\* A contributor never works on two attempts at a project, and a second
\* attempt beside a paid one exists only where a challenge was disputed twice.
OneLiveAttempt ==
    \A c, e \in Challenges :
      /\ c # e
      /\ challenge[c].status \in {"accepted", "submitted"}
      /\ challenge[e].status \in {"accepted", "submitted", "approved"}
      /\ challenge[c].project = challenge[e].project
      /\ challenge[c].user = challenge[e].user
      => challenge[e].status = "approved" /\ Cardinality(Cases(e)) > 1

\* What a step may never do to a challenge: revive a withdrawn or cancelled
\* one, take back an approval, pay a rejected one other than through a dispute
\* its contributor opened, change the promised reward, or approve without
\* crediting exactly that reward.
ChallengeStepsAreFinal ==
    [][\A c \in Challenges :
         /\ challenge[c].status \in {"approved", "withdrawn", "cancelled"} =>
              challenge'[c].status = challenge[c].status
         /\ challenge[c].status = "rejected" /\ challenge'[c].status # "rejected" =>
              /\ challenge'[c].status = "approved" /\ challenge'[c].overturned
              /\ \E d \in Disputes :
                   /\ dispute[d].challenge = c /\ dispute[d].status = "open"
                   /\ dispute[d].openedBy = challenge[c].user
                   /\ dispute'[d].status = "resolved_paid"
         /\ challenge[c].status # "none" =>
              challenge'[c].reward = challenge[c].reward
         /\ challenge[c].status # "approved" /\ challenge'[c].status = "approved" =>
              wallet'[challenge[c].user] = wallet[challenge[c].user] + challenge[c].reward
      ]_vars

\* No transaction touches the wallet of a deleted account, however long ago it
\* accepted, tipped or was promised a reward.
DeletedWalletsFrozen ==
    [][\A u \in Users : account[u] = "deleted" => wallet'[u] = wallet[u]]_vars

-----------------------------------------------------------------------------
(* What docs/open-source-bounties.md promises.                             *)

\* "The system preserves escrowed reward and slot during this period, so
\* sponsors cannot close/reconcile to remove appeal opportunity": no project
\* is closed while a contributor who never filed a case could still appeal.
AppealOutlivesClose ==
    \A c \in Challenges :
      /\ challenge[c].status = "rejected" /\ InAppealWindow(c)
      /\ \A d \in Cases(c) : dispute[d].openedBy # challenge[c].user
      => project[challenge[c].project].status # "closed"

=============================================================================
