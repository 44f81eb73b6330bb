------------------------ MODULE SubscriptionBilling ------------------------
(***************************************************************************)
(* Billing of one user's requests to subscriptions (apps/api-go): the      *)
(* managed ledger of model/subscription_billing.go, the BillingSession     *)
(* that drives it, the life of the subscriptions under it, and what is     *)
(* paid and given back outside the ledger: the turns of a realtime request *)
(* (service/quota.go) and the adjustment and refund of an asynchronous     *)
(* task (service/task_billing.go, model/task.go).                          *)
(*                                                                         *)
(* An action is a transaction: it locks the rows it changes.  A settlement *)
(* is two of them, and so are a turn, an adjustment and the refund of a    *)
(* task.  Subscriptions are numbered by end_time, the order in which they  *)
(* are tried.                                                              *)
(***************************************************************************)
EXTENDS Integers, FiniteSets, Functions

CONSTANTS Requests,
          Tasks,         \* the requests that submit an asynchronous task
          Internal,      \* the requests without a token (playground, assistant)
          Realtime,      \* the realtime requests, which pay for each turn as well
          Grant,         \* Grant[s]: the quota subscription s was bought with, 0 = unlimited
          Overflow,      \* the subscriptions that allow_wallet_overflow
          TokenQuota,    \* remain_quota of the user's token
          Unlimited,     \* its unlimited_quota
          MinWallet,     \* the lower bound of a wallet
          InitialWallet,
          MaxAmount,     \* bound: quota of a reservation, and of a request
          MaxVersion,    \* bound: quota_version
          MaxOps,        \* bound: changes of subscriptions and of the token
          MaxFaults      \* bound: failed transactions, lost answers and crashes

Subs == DOMAIN Grant

ASSUME BillingAssumption ==
    /\ IsFiniteSet(Requests) /\ Tasks \subseteq Requests /\ Internal \subseteq Requests
    /\ Realtime \subseteq Requests \ (Tasks \cup Internal)
    /\ Grant \in [Subs -> Nat] /\ Subs \subseteq Nat /\ Overflow \subseteq Subs
    /\ TokenQuota \in Nat /\ Unlimited \in BOOLEAN
    /\ MinWallet \in Int /\ InitialWallet \in Int /\ MinWallet <= InitialWallet
    /\ MaxAmount \in Nat /\ MaxVersion \in Nat /\ MaxOps \in Nat /\ MaxFaults \in Nat

VARIABLES sub,      \* sub[s]: UserSubscription; `due': next_reset_time has passed
          token,    \* the token's row; `live': not soft-deleted
          wallet,   \* the user's quota
          rec,      \* rec[r]: SubscriptionPreConsumeRecord
          sess,     \* sess[r]: the BillingSession, in memory
          task,     \* task[r]: the row of the asynchronous task; `back' is history,
                    \* the grant that something was given back to
          extra,    \* extra[r]: history of what r takes beyond its reservation: `amount'
                    \* of the grant `ver' of its subscription, `token' of the token
                    \* outside the ledger; `owed' is still to be taken of the token
          ops,
          faults

vars == <<sub, token, wallet, rec, sess, task, extra, ops, faults>>

NoRecord == [status |-> "none", sub |-> 0, pre |-> 0, actual |-> 0, wallet |-> 0,
             token |-> 0, overflow |-> FALSE, ver |-> 0]
NoTask   == [status |-> "none", quota |-> 0, back |-> -1]
NoExtra  == [ver |-> 0, amount |-> 0, token |-> 0, owed |-> 0]

Init == /\ sub = [s \in Subs |-> [status |-> "active", total |-> Grant[s], used |-> 0,
                                  ver |-> 0, due |-> FALSE]]
        /\ token = [remain |-> TokenQuota, used |-> 0, live |-> TRUE]
        /\ wallet = InitialWallet
        /\ rec = [r \in Requests |-> NoRecord]
        /\ sess = [r \in Requests |-> [pc |-> "none", tried |-> FALSE]]
        /\ task = [r \in Tasks |-> NoTask]
        /\ extra = [r \in Requests |-> NoExtra]
        /\ ops = 0
        /\ faults = 0

Begin == ops < MaxOps /\ ops' = ops + 1
Fault == faults < MaxFaults /\ faults' = faults + 1

AtLeast0(n) == IF n < 0 THEN 0 ELSE n

-----------------------------------------------------------------------------
(* The life of a subscription.                                             *)

\* A new grant: nothing is used, and what was reserved in the old one is over.
NewGrant(x) == [x EXCEPT !.used = 0, !.ver = @ + 1, !.due = FALSE]

\* maybeResetUserSubscriptionWithPlanTx
MaybeReset(x) == IF x.due THEN NewGrant(x) ELSE x

ChangeSub(s, x) ==
    /\ Begin
    /\ sub' = [sub EXCEPT ![s] = x]
    /\ UNCHANGED <<token, wallet, rec, sess, task, extra, faults>>

\* The clock reaches next_reset_time.
PeriodEnds(s) == /\ sub[s].status = "active" /\ ~sub[s].due /\ sub[s].ver < MaxVersion
                 /\ ChangeSub(s, [sub[s] EXCEPT !.due = TRUE])

\* ResetDueSubscriptionsContext: the rows are selected while they are active; what
\* is looked at again under the lock is the time, not the status.
ResetDue(s) == /\ sub[s].status # "deleted" /\ sub[s].due
               /\ ChangeSub(s, NewGrant(sub[s]))

\* An administrator or a voucher resets; the next reset is moved or stays due.
AdminReset(s) ==
    /\ sub[s].status = "active" /\ sub[s].ver < MaxVersion
    /\ \E moved \in BOOLEAN :
         ChangeSub(s, [NewGrant(sub[s]) EXCEPT !.due = ~moved /\ sub[s].due])

\* A paid renewal restores the quota that was bought.
Renew(s) ==
    /\ sub[s].status # "deleted" /\ sub[s].ver < MaxVersion
    /\ ChangeSub(s, [NewGrant(sub[s]) EXCEPT
                       !.status = "active", !.total = IF Grant[s] > 0 THEN Grant[s] ELSE @])

\* A refund of the payment revokes quota, never what is used; without any left
\* the subscription is cancelled (and, if an administrator refunds, never due).
RevokeQuota(s) ==
    /\ sub[s].status # "deleted" /\ sub[s].total > 0
    /\ \E n \in sub[s].used .. sub[s].total - 1 :
         \E cleared \in BOOLEAN :
           ChangeSub(s, IF n > sub[s].used THEN [sub[s] EXCEPT !.total = n]
                        ELSE [sub[s] EXCEPT !.total = n, !.status = "ended",
                                            !.due = @ /\ ~cleared])

\* A recovered payment makes it active again, with the quota that is left.
Recover(s) ==
    /\ sub[s].status = "ended"
    /\ ChangeSub(s, [sub[s] EXCEPT !.status = "active"])

\* It expires, or an administrator invalidates or deletes it.
EndSubscription(s) ==
    /\ sub[s].status = "active"
    /\ ChangeSub(s, [sub[s] EXCEPT !.status = "ended"])

DeleteSubscription(s) ==
    /\ sub[s].status # "deleted"
    /\ ChangeSub(s, [sub[s] EXCEPT !.status = "deleted"])

\* The user deletes the token.
DeleteToken ==
    /\ token.live /\ Begin
    /\ token' = [token EXCEPT !.live = FALSE]
    /\ UNCHANGED <<sub, wallet, rec, sess, task, extra, faults>>

-----------------------------------------------------------------------------
(* Reserving.                                                              *)

Fits(x, n) == x.total = 0 \/ x.used + n <= x.total

\* subscriptionBillingTokenDelta with reserve: the token exists and can pay.
TokenPays(r, n) == r \notin Internal => token.live /\ (Unlimited \/ n <= token.remain)

Debited(r, n) ==
    IF r \in Internal THEN token ELSE [token EXCEPT !.remain = @ - n, !.used = @ + n]

\* token_consumed of a record.
OnToken(r, n) == IF r \in Internal THEN 0 ELSE n

\* The active subscriptions that can reserve n, once they are reset.
Candidates(n) == {s \in Subs : sub[s].status = "active" /\ Fits(MaybeReset(sub[s]), n)}

\* PreConsumeSubscriptionBilling: the first candidate; those before it have been
\* reset if they were due.  The session is created, or the answer is lost.
PreConsume(r, n, overflow) ==
    /\ rec[r].status = "none" /\ sess[r].pc = "none"
    /\ TokenPays(r, n)
    /\ \E s \in Candidates(n) :
         /\ \A q \in Candidates(n) : s <= q
         /\ sub' = [q \in Subs |->
                      IF q = s THEN [MaybeReset(sub[s]) EXCEPT !.used = @ + n]
                      ELSE IF q < s /\ sub[q].status = "active" THEN MaybeReset(sub[q])
                      ELSE sub[q]]
         /\ rec' = [rec EXCEPT ![r] =
                      [status |-> "consumed", sub |-> s, pre |-> n, actual |-> 0, wallet |-> 0,
                       token |-> OnToken(r, n), overflow |-> overflow /\ r \notin Tasks,
                       ver |-> MaybeReset(sub[s]).ver]]
    /\ token' = Debited(r, n)
    /\ \/ sess' = [sess EXCEPT ![r].pc = "open"] /\ UNCHANGED faults
       \/ sess' = [sess EXCEPT ![r].pc = "closed"] /\ Fault
    /\ UNCHANGED <<wallet, task, extra, ops>>

\* ReserveSubscriptionBilling: more is reserved before the request is sent.
Reserve(r, n) ==
    LET s == rec[r].sub
        d == n - rec[r].pre IN
    /\ sess[r].pc = "open"
    /\ rec[r].status = "consumed" /\ d > 0
    /\ sub[s].status # "deleted" /\ sub[s].ver = rec[r].ver
    /\ Fits(sub[s], d) /\ TokenPays(r, d)
    /\ sub' = [sub EXCEPT ![s].used = @ + d]
    /\ token' = Debited(r, d)
    /\ rec' = [rec EXCEPT ![r].pre = n, ![r].token = @ + OnToken(r, d)]
    /\ UNCHANGED <<wallet, sess, task, extra, ops, faults>>

-----------------------------------------------------------------------------
(* Settling: the cost is recorded, and then collected.                     *)

\* The first transaction of SettleSubscriptionBilling; if it fails, the session
\* keeps that it was tried, and the record does not.
SettleIntent(r, n) ==
    /\ sess[r].pc = "open"
    /\ \/ /\ rec[r].status = "consumed"
          /\ rec' = [rec EXCEPT ![r].status = "settling", ![r].actual = n]
          /\ sess' = [sess EXCEPT ![r] = [pc |-> "settling", tried |-> TRUE]]
          /\ UNCHANGED faults
       \/ /\ sess' = [sess EXCEPT ![r] = [pc |-> "insert", tried |-> TRUE]]
          /\ Fault
          /\ UNCHANGED rec
    /\ UNCHANGED <<sub, token, wallet, task, extra, ops>>

Owing(r) == rec[r].actual - rec[r].pre

\* A bug: whatever is owed is taken from the subscription.
Excess_Never(r) == 0

\* What of the cost the subscription cannot take.
Excess(r) ==
    LET x == sub[rec[r].sub] IN
    IF x.total > 0 THEN AtLeast0(Owing(r) - AtLeast0(x.total - x.used)) ELSE 0

\* A bug: an old reservation is taken from the new grant.
Taken_AnyPeriod(r) == Owing(r) - Excess(r)

\* The history of r after it takes n more of the current grant.
Beyond(r, n) ==
    LET v == sub[rec[r].sub].ver IN
    [extra[r] EXCEPT !.ver = v, !.amount = n + IF extra[r].ver = v THEN @ ELSE 0]

\* What the subscription takes, or gives back.  A reservation of an older grant
\* is not given back to the current one.
Taken(r) == LET d == Owing(r) - Excess(r) IN
            IF d < 0 /\ sub[rec[r].sub].ver # rec[r].ver THEN 0 ELSE d

\* The wallet pays the excess only if request and every subscription allow it.
MaySplit(r) == /\ rec[r].overflow /\ rec[r].sub \in Overflow
               /\ \A s \in Subs : sub[s].status = "active" => s \in Overflow

CanCommit(r) == /\ rec[r].status = "settling"
                /\ sub[rec[r].sub].status # "deleted"
                /\ Excess(r) > 0 => MaySplit(r)
                /\ wallet - Excess(r) >= MinWallet

\* The second transaction: subscription, wallet, token and record at once.
Commit(r) ==
    LET s == rec[r].sub IN
    /\ CanCommit(r)
    /\ sub' = [sub EXCEPT ![s].used = AtLeast0(@ + Taken(r))]
    /\ wallet' = wallet - Excess(r)
    /\ token' = Debited(r, Owing(r))
    /\ rec' = [rec EXCEPT ![r].status = "settled", ![r].wallet = Excess(r),
                          ![r].token = OnToken(r, rec[r].actual)]
    /\ extra' = IF sub[s].ver # rec[r].ver
                THEN [extra EXCEPT ![r] = Beyond(r, Taken(r))] ELSE extra

\* The session's call commits, finds it done, or fails.
SettleCommit(r) ==
    /\ sess[r].pc = "settling"
    /\ \/ Commit(r) /\ UNCHANGED faults
       \/ rec[r].status = "settled" /\ UNCHANGED <<sub, token, wallet, rec, extra, faults>>
       \/ /\ rec[r].status = "settling" /\ ~CanCommit(r)
          /\ UNCHANGED <<sub, token, wallet, rec, extra, faults>>
       \/ Fault /\ UNCHANGED <<sub, token, wallet, rec, extra>>
    /\ sess' = [sess EXCEPT ![r].pc = "insert"]
    /\ UNCHANGED <<task, ops>>

\* An operator settles the recorded cost again.
Retry(r) ==
    /\ Commit(r)
    /\ UNCHANGED <<sess, task, ops, faults>>

\* The request ends; RelayTask inserts a task of this quota, whatever the
\* settlement said.
Finish(r, n) ==
    /\ sess[r].pc = "insert"
    /\ rec[r].status # "consumed" => n = rec[r].actual
    /\ sess' = [sess EXCEPT ![r].pc = "closed"]
    /\ task' = IF r \in Tasks
               THEN [task EXCEPT ![r] = [status |-> "submitted", quota |-> n, back |-> -1]]
               ELSE task
    /\ UNCHANGED <<sub, token, wallet, rec, extra, ops, faults>>

-----------------------------------------------------------------------------
(* Paying outside the ledger: the subscription first, and then the token.  *)

\* postConsumeUserSubscriptionDeltaTx, the first commit of PostConsumeQuota and
\* of RecalculateTaskQuota, for the subscription of r's record.
PostConsume(r, n) ==
    LET s == rec[r].sub
        newUsed == AtLeast0(sub[s].used + n) IN
    /\ sub[s].status # "deleted"
    /\ sub[s].total > 0 => newUsed <= sub[s].total
    /\ sub' = [sub EXCEPT ![s].used = newUsed]
    /\ extra' = [extra EXCEPT ![r] = [Beyond(r, n) EXCEPT !.owed = n]]

\* persistTokenQuotaDelta, the second commit: a deleted token is not found.
PostToken(r) ==
    /\ sub' = sub
    /\ \/ /\ token.live
          /\ token' = Debited(r, extra[r].owed)
          /\ extra' = [extra EXCEPT ![r].token = @ + OnToken(r, extra[r].owed), ![r].owed = 0]
          /\ UNCHANGED faults
       \/ /\ \/ ~token.live /\ UNCHANGED faults
             \/ Fault
          /\ extra' = [extra EXCEPT ![r].owed = 0]
          /\ UNCHANGED token

\* PreWssConsumeQuota: a turn of a realtime request is paid at once, whatever
\* is reserved and will be settled.  The wallet is looked at in a cache.
Stream(r, n) ==
    /\ r \in Realtime /\ sess[r].pc = "open"
    /\ \E cached \in wallet .. InitialWallet : n <= cached
    /\ TokenPays(r, n)
    /\ PostConsume(r, n)
    /\ sess' = [sess EXCEPT ![r].pc = "stream"]
    /\ UNCHANGED <<token, wallet, rec, task, ops, faults>>

StreamToken(r) ==
    /\ sess[r].pc = "stream"
    /\ PostToken(r)
    /\ sess' = [sess EXCEPT ![r].pc = "open"]
    /\ UNCHANGED <<wallet, rec, task, ops>>

\* RecalculateTaskQuota: the poller finds the task done and its cost is n.  (A
\* task that is done at the cost it was submitted with stays as it is.)
Recalculate(r, n) ==
    LET d == n - task[r].quota IN
    /\ task[r].status = "submitted" /\ d # 0
    /\ PostConsume(r, d)
    /\ task' = [task EXCEPT ![r].status = "adjusting",
                            ![r].back = IF d < 0 THEN sub[rec[r].sub].ver ELSE @]
    /\ UNCHANGED <<token, wallet, rec, sess, ops, faults>>

RecalculateToken(r) ==
    /\ task[r].status = "adjusting"
    /\ PostToken(r)
    /\ task' = [task EXCEPT ![r].status = "done", ![r].quota = @ + extra[r].owed]
    /\ UNCHANGED <<wallet, rec, sess, ops>>

-----------------------------------------------------------------------------
(* Giving back.                                                            *)

\* A bug: a cost that is recorded but not collected is refunded.
Refund_Settling(r) ==
    LET s == rec[r].sub IN
    /\ sess[r].pc \in {"open", "insert"}
    /\ rec[r].status \in {"consumed", "settling"}
    /\ sub[s].status # "deleted"
    /\ sub' = IF sub[s].ver = rec[r].ver
              THEN [sub EXCEPT ![s].used = AtLeast0(@ - rec[r].pre)] ELSE sub
    /\ token' = Debited(r, -rec[r].token)
    /\ rec' = [rec EXCEPT ![r].status = "refunded", ![r].token = 0]
    /\ sess' = [sess EXCEPT ![r].pc = "closed"]
    /\ UNCHANGED <<wallet, task, extra, ops, faults>>

\* BillingSession.Refund, unless a settlement was tried, and
\* RefundSubscriptionBilling.
Refund(r) ==
    LET s == rec[r].sub IN
    /\ sess[r].pc = "open"
    /\ rec[r].status = "consumed"
    /\ sub[s].status # "deleted"
    /\ sub' = IF sub[s].ver = rec[r].ver
              THEN [sub EXCEPT ![s].used = AtLeast0(@ - rec[r].pre)] ELSE sub
    /\ token' = Debited(r, -rec[r].token)
    /\ rec' = [rec EXCEPT ![r].status = "refunded", ![r].token = 0]
    /\ sess' = [sess EXCEPT ![r].pc = "closed"]
    /\ UNCHANGED <<wallet, task, extra, ops, faults>>

\* The refund fails three times, or the process dies: nobody comes back.
Abandon(r) ==
    /\ \/ sess[r].pc = "open" /\ sub[rec[r].sub].status = "deleted" /\ UNCHANGED faults
       \/ sess[r].pc \in {"open", "stream", "settling", "insert"} /\ Fault
    /\ sess' = [sess EXCEPT ![r].pc = "closed"]
    /\ UNCHANGED <<sub, token, wallet, rec, task, extra, ops>>

\* The task fails, and PrepareTaskRefundIntent records what it must get back.
PrepareTaskRefund(r) ==
    /\ task[r].status = "submitted" /\ task[r].quota > 0
    /\ task' = [task EXCEPT ![r].status = "pending"]
    /\ UNCHANGED <<sub, token, wallet, rec, sess, extra, ops, faults>>

\* ApplyPreparedTaskRefund, by the poller or by a later sweep.
ApplyTaskRefund(r) ==
    LET s == rec[r].sub
        back == IF token.live THEN OnToken(r, task[r].quota) ELSE 0 IN
    /\ task[r].status = "pending"
    /\ sub[s].status # "deleted"
    /\ sub' = [sub EXCEPT ![s].used = AtLeast0(@ - task[r].quota)]
    /\ token' = Debited(r, -back)
    /\ extra' = [extra EXCEPT ![r].token = @ - back]
    /\ task' = [task EXCEPT ![r] = [status |-> "refunded", quota |-> 0, back |-> sub[s].ver]]
    /\ UNCHANGED <<wallet, rec, sess, ops, faults>>

-----------------------------------------------------------------------------
SubStep == \E s \in Subs :
    PeriodEnds(s) \/ ResetDue(s) \/ AdminReset(s) \/ Renew(s) \/ RevokeQuota(s)
      \/ Recover(s) \/ EndSubscription(s) \/ DeleteSubscription(s)

RequestStep == \E r \in Requests :
    \/ \E n \in 1 .. MaxAmount : \E overflow \in BOOLEAN : PreConsume(r, n, overflow)
    \/ \E n \in 1 .. MaxAmount : Reserve(r, n) \/ Stream(r, n)
    \/ \E n \in 0 .. MaxAmount : SettleIntent(r, n) \/ Finish(r, n)
    \/ SettleCommit(r) \/ Retry(r) \/ StreamToken(r) \/ Refund(r) \/ Abandon(r)

TaskStep == \E r \in Tasks :
    \/ RecalculateToken(r) \/ PrepareTaskRefund(r) \/ ApplyTaskRefund(r)
    \/ \E n \in 1 .. MaxAmount : Recalculate(r, n)

Next == SubStep \/ DeleteToken \/ RequestStep \/ TaskStep

Spec == Init /\ [][Next]_vars

-----------------------------------------------------------------------------
(* Properties.                                                             *)

\* Every row is well formed, and no subscription with a quota left gives more
\* than that quota, whatever is reserved, settled late, paid outside the ledger,
\* revoked or renewed.  A quota that a refund has revoked to 0 reads as unlimited
\* to every one of these operations, and is excepted.
TypeOK ==
    /\ sub \in [Subs -> [status : {"active", "ended", "deleted"}, total : Nat, used : Nat,
                         ver : Nat, due : BOOLEAN]]
    /\ \A s \in Subs : sub[s].total > 0 => sub[s].used <= sub[s].total
    /\ token \in [remain : Int, used : Int, live : BOOLEAN]
    /\ wallet \in Int /\ wallet >= MinWallet
    /\ rec \in [Requests -> [status : {"none", "consumed", "settling", "settled", "refunded"},
                             sub : Nat, pre : Nat, actual : Nat, wallet : Nat, token : Nat,
                             overflow : BOOLEAN, ver : Nat]]
    /\ sess \in [Requests -> [pc : {"none", "open", "stream", "settling", "insert", "closed"},
                              tried : BOOLEAN]]
    /\ task \in [Tasks -> [status : {"none", "submitted", "adjusting", "done", "pending",
                                     "refunded"}, quota : Int, back : Int]]
    /\ extra \in [Requests -> [ver : Nat, amount : Int, token : Int, owed : Int]]
    /\ ops \in 0 .. MaxOps /\ faults \in 0 .. MaxFaults

\* SubscriptionQuota of subscriptionBillingResult: what request r has of its
\* subscription, in the grant it was reserved in.
Charge(r) == CASE rec[r].status \in {"consumed", "settling"} -> rec[r].pre
               [] rec[r].status = "settled" -> rec[r].actual - rec[r].wallet
               [] OTHER -> 0

\* What request r has of the current grant of s: by its reservation, and beyond it.
ChargeNow(r, s) ==
    IF rec[r].status = "none" \/ rec[r].sub # s THEN 0
    ELSE (IF rec[r].ver = sub[s].ver THEN Charge(r) ELSE 0)
           + (IF extra[r].ver = sub[s].ver THEN extra[r].amount ELSE 0)

\* Everybody's charges.
Charges(s) == [r \in Requests |-> ChargeNow(r, s)]

\* Something of the current grant of s was given back to a task.
GivenBack(r, s) == r \in Tasks /\ rec[r].sub = s /\ task[r].back = sub[s].ver

\* Every balance is explained: what is used of a grant is what its requests were
\* charged by the ledger and outside it, until a task is given something back;
\* the token holds what the ledger's records, the turns of realtime requests and
\* the adjustments and refunds of tasks did not take; the wallet pays the
\* overflow of settlements, and nothing else of what these requests cost.
BooksBalance ==
    /\ \A s \in Subs : (\A r \in Requests : ~GivenBack(r, s)) =>
         sub[s].used = SumFunction(Charges(s))
    /\ token.used = SumFunction([r \in Requests |-> rec[r].token])
                      + SumFunction([r \in Requests |-> extra[r].token])
    /\ token.remain + token.used = TokenQuota
    /\ wallet + SumFunction([r \in Requests |-> rec[r].wallet]) = InitialWallet

\* A delivered request is paid for: once its cost is recorded it is never
\* refunded by the session nor changed by a retry, it is collected once, and a
\* request whose settlement was tried is not refunded.
CostIsFinal ==
    [][ \A r \in Requests :
          /\ rec[r].status = "settling" =>
               /\ rec'[r].status \in {"settling", "settled"}
               /\ rec'[r].actual = rec[r].actual /\ rec'[r].pre = rec[r].pre
          /\ rec[r].status \in {"settled", "refunded"} => rec'[r] = rec[r]
          /\ sess[r].tried => rec'[r].status # "refunded" ]_vars

\* subscription_billing.go: "A refund of an expired grant must not erase another
\* request's usage in the current grant."  What is used of a grant covers the
\* requests that were charged to it and given nothing of it back.
UsageIsKept ==
    \A s \in Subs : sub[s].status # "deleted" =>
        sub[s].used >= SumFunctionOnSet(Charges(s), {r \in Requests : ~GivenBack(r, s)})

=============================================================================
