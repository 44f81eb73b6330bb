---------------------- MODULE SubscriptionBillingProofs ----------------------
(***************************************************************************)
(* Theorems about SubscriptionBilling for any number of requests,          *)
(* subscriptions, grants and failures: no quota that is left is overdrawn, *)
(* a cost that was recorded is final, and the books balance.               *)
(***************************************************************************)
EXTENDS SubscriptionBilling, SumProofs, TLAPS

SubType  == [status : {"active", "ended", "deleted"}, total : Nat, used : Nat,
             ver : Nat, due : BOOLEAN]
RecType  == [status : {"none", "consumed", "settling", "settled", "refunded"},
             sub : Nat, pre : Nat, actual : Nat, wallet : Nat, token : Nat,
             overflow : BOOLEAN, ver : Nat]
SessType == [pc : {"none", "open", "stream", "settling", "insert", "closed"}, tried : BOOLEAN]
TaskType == [status : {"none", "submitted", "adjusting", "done", "pending", "refunded"},
             quota : Int, back : Int]
ExtraType == [ver : Nat, amount : Int, token : Int, owed : Int]
TokType  == [remain : Int, used : Int, live : BOOLEAN]

\* A subscription that is not overdrawn.
Kept(x) == x.total > 0 => x.used <= x.total

\* A request that is open or was to be settled has not been refunded.
Unrefunded(r) ==
    sess[r].tried \/ sess[r].pc \in {"open", "stream"} => rec[r].status # "refunded"

\* A session and a task have a record, and a pending refund has an amount.
Recorded(r) ==
    /\ sess[r].pc # "none" => rec[r].status # "none"
    /\ r \in Tasks => /\ task[r].status # "none" => rec[r].status # "none"
                      /\ task[r].status = "pending" => task[r].quota > 0

\* A record names a subscription; a session that tried to settle is not open.
BillInv == /\ TypeOK
           /\ \A r \in Requests : rec[r].status # "none" => rec[r].sub \in Subs
           /\ \A r \in Requests : sess[r].tried => sess[r].pc \notin {"none", "open", "stream"}
           /\ \A r \in Requests : Unrefunded(r) /\ Recorded(r)

\* A step that keeps every row and every bound keeps the type invariant.
LEMMA Typed ==
    ASSUME sub' \in [Subs -> SubType], \A s \in Subs : Kept(sub'[s]),
           token' \in TokType, wallet' \in Int, wallet' >= MinWallet,
           rec' \in [Requests -> RecType], sess' \in [Requests -> SessType],
           task' \in [Tasks -> TaskType], extra' \in [Requests -> ExtraType],
           ops' \in 0 .. MaxOps, faults' \in 0 .. MaxFaults
    PROVE  TypeOK'
BY DEF TypeOK, Kept, SubType, TokType, RecType, SessType, TaskType, ExtraType

\* What TypeOK says, row by row.
LEMMA Rows ==
    ASSUME TypeOK
    PROVE  /\ sub \in [Subs -> SubType] /\ \A s \in Subs : Kept(sub[s])
           /\ token \in TokType /\ wallet \in Int /\ wallet >= MinWallet
           /\ rec \in [Requests -> RecType] /\ sess \in [Requests -> SessType]
           /\ task \in [Tasks -> TaskType] /\ extra \in [Requests -> ExtraType]
           /\ ops \in 0 .. MaxOps /\ faults \in 0 .. MaxFaults
BY DEF TypeOK, Kept, SubType, TokType, RecType, SessType, TaskType, ExtraType

\* The counters of the bounds stay inside them.
LEMMA Counted ==
    ASSUME TypeOK
    PROVE  /\ Begin => ops' \in 0 .. MaxOps
           /\ Fault => faults' \in 0 .. MaxFaults
BY BillingAssumption DEF TypeOK, Begin, Fault

\* Replacing a subscription by one that is not overdrawn.
LEMMA Replaced ==
    ASSUME TypeOK, NEW s \in Subs, NEW x \in SubType, Kept(x),
           sub' = [sub EXCEPT ![s] = x]
    PROVE  sub' \in [Subs -> SubType] /\ \A q \in Subs : Kept(sub'[q])
<1>1. sub' \in [Subs -> SubType]
      BY Rows
<1>2. \A q \in Subs : sub'[q] = IF q = s THEN x ELSE sub[q]
      BY Rows
<1> QED  BY <1>1, <1>2, Rows

\* A reset grants anew.
LEMMA Reset ==
    ASSUME NEW x \in SubType
    PROVE  /\ NewGrant(x) \in SubType /\ NewGrant(x).used = 0
           /\ NewGrant(x).total = x.total /\ NewGrant(x).status = x.status
           /\ Kept(NewGrant(x))
           /\ MaybeReset(x) \in SubType /\ MaybeReset(x).total = x.total
           /\ Kept(x) => Kept(MaybeReset(x))
<1>1. /\ NewGrant(x) \in SubType /\ NewGrant(x).used = 0
      /\ NewGrant(x).total = x.total /\ NewGrant(x).status = x.status
  <2>1. NewGrant(x) \in SubType
    <3>1. [x EXCEPT !.used = 0] \in SubType /\ [x EXCEPT !.used = 0].ver = x.ver
          BY DEF SubType
    <3>2. \A y \in SubType : [y EXCEPT !.ver = y.ver + 1] \in SubType
          BY DEF SubType
    <3>3. \A y \in SubType : [y EXCEPT !.due = FALSE] \in SubType
          BY DEF SubType
    <3> QED  BY <3>1, <3>2, <3>3 DEF NewGrant
  <2>2. NewGrant(x).used = 0
        BY DEF NewGrant, SubType
  <2>3. NewGrant(x).total = x.total
        BY DEF NewGrant, SubType
  <2>4. NewGrant(x).status = x.status
        BY DEF NewGrant, SubType
  <2> QED  BY <2>1, <2>2, <2>3, <2>4
<1>2. Kept(NewGrant(x))
      BY <1>1 DEF Kept, SubType
<1>3. CASE x.due
      BY <1>1, <1>2, <1>3 DEF MaybeReset
<1>4. CASE ~x.due
      BY <1>1, <1>2, <1>4 DEF MaybeReset
<1> QED  BY <1>3, <1>4

\* A change of one subscription, none of them overdrawn.
LEMMA Changed ==
    ASSUME BillInv, NEW s \in Subs, NEW x \in SubType, Kept(x), ChangeSub(s, x)
    PROVE  BillInv'
<1> USE DEF BillInv
<1>1. sub' \in [Subs -> SubType] /\ \A q \in Subs : Kept(sub'[q])
      BY Replaced DEF ChangeSub
<1>2. /\ ops' \in 0 .. MaxOps
      /\ UNCHANGED <<token, wallet, rec, sess, task, extra, faults>>
      BY Counted DEF ChangeSub
<1>3. TypeOK'
  <2> HIDE DEF BillInv
  <2>1. TypeOK
        BY DEF BillInv
  <2> QED  BY <1>1, <1>2, <2>1, Rows, Typed
<1> QED  BY <1>2, <1>3 DEF Unrefunded, Recorded

\* The life of a subscription never overdraws it.
LEMMA SubKeeps ==
    ASSUME BillInv, SubStep
    PROVE  BillInv'
<1>1. PICK s \in Subs : PeriodEnds(s) \/ ResetDue(s) \/ AdminReset(s) \/ Renew(s)
                          \/ RevokeQuota(s) \/ Recover(s) \/ EndSubscription(s)
                          \/ DeleteSubscription(s)
      BY DEF SubStep
<1>2. sub[s] \in SubType /\ Kept(sub[s])
      BY Rows DEF BillInv
<1>3. NewGrant(sub[s]) \in SubType /\ Kept(NewGrant(sub[s]))
      /\ NewGrant(sub[s]).used = 0
      BY <1>2, Reset
<1>4. CASE PeriodEnds(s)
  <2>1. [sub[s] EXCEPT !.due = TRUE] \in SubType /\ Kept([sub[s] EXCEPT !.due = TRUE])
        BY <1>2 DEF SubType, Kept
  <2> QED  BY <1>4, <2>1, Changed DEF PeriodEnds
<1>5. CASE ResetDue(s)
      BY <1>3, <1>5, Changed DEF ResetDue
<1>6. CASE AdminReset(s)
  <2>1. PICK moved \in BOOLEAN :
            ChangeSub(s, [NewGrant(sub[s]) EXCEPT !.due = ~moved /\ sub[s].due])
        BY <1>6 DEF AdminReset
  <2>2. (~moved /\ sub[s].due) \in BOOLEAN
        BY <1>2 DEF SubType
  <2>3. \A b \in BOOLEAN : /\ [NewGrant(sub[s]) EXCEPT !.due = b] \in SubType
                           /\ Kept([NewGrant(sub[s]) EXCEPT !.due = b])
        BY <1>3 DEF SubType, Kept
  <2> QED  BY <2>1, <2>2, <2>3, Changed
<1>7. CASE Renew(s)
  <2>1. PICK g \in Nat : ChangeSub(s, [NewGrant(sub[s]) EXCEPT !.status = "active", !.total = g])
    <3>1. (IF Grant[s] > 0 THEN Grant[s] ELSE NewGrant(sub[s]).total) \in Nat
          BY <1>3, BillingAssumption DEF SubType
    <3>2. [NewGrant(sub[s]) EXCEPT !.status = "active",
                                   !.total = IF Grant[s] > 0 THEN Grant[s] ELSE @]
            = [NewGrant(sub[s]) EXCEPT !.status = "active",
                 !.total = IF Grant[s] > 0 THEN Grant[s] ELSE NewGrant(sub[s]).total]
          BY <1>3 DEF SubType
    <3> QED  BY <1>7, <3>1, <3>2 DEF Renew
  <2>2. /\ [NewGrant(sub[s]) EXCEPT !.status = "active", !.total = g] \in SubType
        /\ Kept([NewGrant(sub[s]) EXCEPT !.status = "active", !.total = g])
    <3>1. [NewGrant(sub[s]) EXCEPT !.status = "active", !.total = g] \in SubType
          BY <1>3 DEF SubType
    <3>2. [NewGrant(sub[s]) EXCEPT !.status = "active", !.total = g].used = 0
          BY <1>3 DEF SubType
    <3> QED  BY <3>1, <3>2 DEF SubType, Kept
  <2> QED  BY <2>1, <2>2, Changed
<1>8. CASE RevokeQuota(s)
  <2>1. PICK n \in sub[s].used .. sub[s].total - 1 : \E cleared \in BOOLEAN :
           ChangeSub(s, IF n > sub[s].used THEN [sub[s] EXCEPT !.total = n]
                        ELSE [sub[s] EXCEPT !.total = n, !.status = "ended",
                                            !.due = @ /\ ~cleared])
        BY <1>8 DEF RevokeQuota
  <2>2. PICK cleared \in BOOLEAN :
           ChangeSub(s, IF n > sub[s].used THEN [sub[s] EXCEPT !.total = n]
                        ELSE [sub[s] EXCEPT !.total = n, !.status = "ended",
                                            !.due = @ /\ ~cleared])
        BY <2>1
  <2>3. n \in Nat /\ sub[s].used <= n
        BY <1>2 DEF SubType
  <2>4. [sub[s] EXCEPT !.total = n] \in SubType /\ Kept([sub[s] EXCEPT !.total = n])
        BY <1>2, <2>3 DEF SubType, Kept
  <2>5. (sub[s].due /\ ~cleared) \in BOOLEAN
        BY <1>2 DEF SubType
  <2>6. \A b \in BOOLEAN :
            /\ [sub[s] EXCEPT !.total = n, !.status = "ended", !.due = b] \in SubType
            /\ Kept([sub[s] EXCEPT !.total = n, !.status = "ended", !.due = b])
        BY <1>2, <2>3 DEF SubType, Kept
  <2>7. CASE n > sub[s].used
        BY <2>2, <2>4, <2>7, Changed
  <2>8. CASE ~(n > sub[s].used)
        BY <2>2, <2>5, <2>6, <2>8, Changed
  <2> QED  BY <2>7, <2>8
<1>11. CASE Recover(s)
  <2>1. /\ [sub[s] EXCEPT !.status = "active"] \in SubType
        /\ Kept([sub[s] EXCEPT !.status = "active"])
        BY <1>2 DEF SubType, Kept
  <2> QED  BY <1>11, <2>1, Changed DEF Recover
<1>9. CASE EndSubscription(s)
  <2>1. /\ [sub[s] EXCEPT !.status = "ended"] \in SubType
        /\ Kept([sub[s] EXCEPT !.status = "ended"])
        BY <1>2 DEF SubType, Kept
  <2> QED  BY <1>9, <2>1, Changed DEF EndSubscription
<1>10. CASE DeleteSubscription(s)
  <2>1. /\ [sub[s] EXCEPT !.status = "deleted"] \in SubType
        /\ Kept([sub[s] EXCEPT !.status = "deleted"])
        BY <1>2 DEF SubType, Kept
  <2> QED  BY <1>10, <2>1, Changed DEF DeleteSubscription
<1> QED  BY <1>1, <1>4, <1>5, <1>6, <1>7, <1>8, <1>9, <1>10, <1>11

-----------------------------------------------------------------------------
(* Requests and tasks.                                                     *)

\* The rows a payment changes stay rows.
LEMMA TokenTyped ==
    ASSUME TypeOK, NEW r \in Requests, NEW n \in Int
    PROVE  /\ Debited(r, n) \in TokType
           /\ n >= 0 => OnToken(r, n) \in Nat
<1>1. token \in TokType
      BY Rows
<1>2. /\ [token EXCEPT !.remain = token.remain - n] \in TokType
      /\ [token EXCEPT !.remain = token.remain - n].used = token.used
      BY <1>1 DEF TokType
<1>3. \A y \in TokType : \A k \in Int : [y EXCEPT !.used = k] \in TokType
      BY DEF TokType
<1>4. token.used + n \in Int
      BY <1>1 DEF TokType
<1>5. Debited(r, n) \in TokType
      BY <1>1, <1>2, <1>3, <1>4 DEF Debited
<1> QED  BY <1>5 DEF OnToken

\* A step that leaves records and sessions of the other requests alone, and
\* gives this one's a subscription and no open session after a settlement.
LEMMA OneRequest ==
    ASSUME BillInv, TypeOK', NEW r \in Requests,
           rec' = [rec EXCEPT ![r] = rec'[r]], sess' = [sess EXCEPT ![r] = sess'[r]],
           rec'[r].status # "none" => rec'[r].sub \in Subs,
           sess'[r].tried => sess'[r].pc \notin {"none", "open", "stream"}, Unrefunded(r)',
           \A t \in Tasks : t # r => task'[t] = task[t], Recorded(r)'
    PROVE  BillInv'
<1>1. \A q \in Requests : q # r => rec'[q] = rec[q] /\ sess'[q] = sess[q]
      BY Rows DEF BillInv
<1>2. ASSUME NEW q \in Requests, q # r PROVE Unrefunded(q)' /\ Recorded(q)'
      BY <1>1, <1>2 DEF BillInv, Unrefunded, Recorded
<1> QED  BY <1>1, <1>2 DEF BillInv

\* A reservation fits the subscription it is made in.
LEMMA PreConsumeKeeps ==
    ASSUME BillInv, NEW r \in Requests, NEW n \in 1 .. MaxAmount, NEW o \in BOOLEAN,
           PreConsume(r, n, o)
    PROVE  BillInv'
<1> n \in Nat /\ n > 0
    BY BillingAssumption
<1>0. TypeOK
      BY DEF BillInv
<1>1. PICK s \in Candidates(n) :
         /\ sub' = [q \in Subs |->
                      IF q = s THEN [MaybeReset(sub[s]) EXCEPT !.used = @ + n]
                      ELSE IF q < s /\ sub[q].status = "active" THEN MaybeReset(sub[q])
                      ELSE sub[q]]
         /\ rec' = [rec EXCEPT ![r] =
                      [status |-> "consumed", sub |-> s, pre |-> n, actual |-> 0, wallet |-> 0,
                       token |-> OnToken(r, n), overflow |-> o /\ r \notin Tasks,
                       ver |-> MaybeReset(sub[s]).ver]]
      BY DEF PreConsume
<1>2. s \in Subs /\ s \in Nat /\ Fits(MaybeReset(sub[s]), n)
      BY BillingAssumption DEF Candidates
<1>3. \A q \in Subs : MaybeReset(sub[q]) \in SubType /\ Kept(MaybeReset(sub[q]))
      BY <1>0, Rows, Reset
<1>4. \A x \in SubType : Fits(x, n) => /\ [x EXCEPT !.used = x.used + n] \in SubType
                                       /\ Kept([x EXCEPT !.used = x.used + n])
  <2> SUFFICES ASSUME NEW x \in SubType, Fits(x, n)
               PROVE  /\ [x EXCEPT !.used = x.used + n] \in SubType
                      /\ Kept([x EXCEPT !.used = x.used + n])
      OBVIOUS
  <2>1. [x EXCEPT !.used = x.used + n] \in SubType
        BY DEF SubType
  <2>2. [x EXCEPT !.used = x.used + n].used = x.used + n
        BY DEF SubType
  <2>3. [x EXCEPT !.used = x.used + n].total = x.total
        BY DEF SubType
  <2> QED  BY <2>1, <2>2, <2>3 DEF Kept, Fits, SubType
<1>5. sub' \in [Subs -> SubType] /\ \A q \in Subs : Kept(sub'[q])
  <2>1. \A q \in Subs : sub[q] \in SubType /\ Kept(sub[q])
        BY <1>0, Rows
  <2>2. /\ [MaybeReset(sub[s]) EXCEPT !.used = MaybeReset(sub[s]).used + n] \in SubType
        /\ Kept([MaybeReset(sub[s]) EXCEPT !.used = MaybeReset(sub[s]).used + n])
        BY <1>2, <1>3, <1>4
  <2>3. \A q \in Subs : sub'[q] \in SubType /\ Kept(sub'[q])
        BY <1>1, <1>3, <2>1, <2>2, Zenon
  <2> QED  BY <1>1, <2>3
<1>6. rec' \in [Requests -> RecType] /\ rec'[r].sub = s /\ rec'[r].status = "consumed"
  <2>1. OnToken(r, n) \in Nat /\ MaybeReset(sub[s]).ver \in Nat
        BY <1>0, <1>2, <1>3, TokenTyped DEF SubType
  <2>2. (o /\ r \notin Tasks) \in BOOLEAN
        OBVIOUS
  <2>3. rec \in [Requests -> RecType]
        BY <1>0, Rows
  <2>4. \A b \in BOOLEAN :
          [status |-> "consumed", sub |-> s, pre |-> n, actual |-> 0, wallet |-> 0,
           token |-> OnToken(r, n), overflow |-> b, ver |-> MaybeReset(sub[s]).ver] \in RecType
        BY <1>2, <2>1 DEF RecType
  <2> QED  BY <1>1, <2>2, <2>3, <2>4
<1>7. /\ sess' \in [Requests -> SessType]
      /\ sess' = [sess EXCEPT ![r] = sess'[r]]
      /\ sess'[r].tried = sess[r].tried /\ sess[r].pc = "none"
      /\ faults' \in 0 .. MaxFaults
  <2>1. PICK pc \in {"open", "closed"} : sess' = [sess EXCEPT ![r].pc = pc]
        BY DEF PreConsume
  <2>2. faults' \in 0 .. MaxFaults /\ sess[r].pc = "none"
        BY <1>0, Rows, Counted DEF PreConsume
  <2>3. sess \in [Requests -> SessType] /\ sess[r] \in SessType
        BY <1>0, Rows
  <2>4. /\ [sess[r] EXCEPT !.pc = pc] \in SessType
        /\ [sess[r] EXCEPT !.pc = pc].tried = sess[r].tried
        BY <2>3 DEF SessType
  <2> QED  BY <2>1, <2>2, <2>3, <2>4
<1>8. token' \in TokType /\ UNCHANGED <<wallet, task, extra, ops>>
      BY <1>0, TokenTyped DEF PreConsume
<1>9. TypeOK'
      BY <1>0, <1>5, <1>6, <1>7, <1>8, Rows, Typed
<1>10. rec' = [rec EXCEPT ![r] = rec'[r]]
      BY <1>0, <1>1, Rows
<1>11. Unrefunded(r)' /\ Recorded(r)' /\ task' = task
      BY <1>6, <1>7, <1>8 DEF BillInv, Unrefunded, Recorded
<1> QED  BY <1>2, <1>6, <1>7, <1>9, <1>10, <1>11, OneRequest DEF BillInv

\* A larger reservation fits as well.
LEMMA ReserveKeeps ==
    ASSUME BillInv, NEW r \in Requests, NEW n \in 1 .. MaxAmount, Reserve(r, n)
    PROVE  BillInv'
<1> n \in Nat
    BY BillingAssumption
<1>0. TypeOK /\ rec[r] \in RecType /\ sess[r] \in SessType
      BY Rows DEF BillInv
<1> DEFINE s == rec[r].sub
           d == n - rec[r].pre
<1>1. s \in Subs /\ d \in Nat /\ Fits(sub[s], d)
      BY <1>0 DEF Reserve, BillInv, RecType
<1>2. sub[s] \in SubType /\ Kept(sub[s])
      BY <1>0, <1>1, Rows
<1>3. /\ [sub[s] EXCEPT !.used = sub[s].used + d] \in SubType
      /\ Kept([sub[s] EXCEPT !.used = sub[s].used + d])
  <2> HIDE DEF s, d
  <2>1. [sub[s] EXCEPT !.used = sub[s].used + d] \in SubType
        BY <1>1, <1>2 DEF SubType
  <2>2. [sub[s] EXCEPT !.used = sub[s].used + d].used = sub[s].used + d
        BY <1>2 DEF SubType
  <2>3. [sub[s] EXCEPT !.used = sub[s].used + d].total = sub[s].total
        BY <1>2 DEF SubType
  <2> QED  BY <1>1, <1>2, <2>1, <2>2, <2>3 DEF Kept, Fits, SubType
<1>4. sub' = [sub EXCEPT ![s] = [sub[s] EXCEPT !.used = sub[s].used + d]]
      BY DEF Reserve
<1>5. sub' \in [Subs -> SubType] /\ \A q \in Subs : Kept(sub'[q])
  <2> HIDE DEF s, d
  <2> QED  BY <1>0, <1>1, <1>3, <1>4, Replaced
<1>6. rec' \in [Requests -> RecType] /\ rec'[r].sub = s /\ rec' = [rec EXCEPT ![r] = rec'[r]]
  <2>1. OnToken(r, d) \in Nat
        BY <1>0, <1>1, TokenTyped
  <2>2. rec' = [rec EXCEPT ![r] = [rec[r] EXCEPT !.pre = n, !.token = rec[r].token + OnToken(r, d)]]
        BY <1>0, Rows DEF Reserve, RecType
  <2>3. /\ [rec[r] EXCEPT !.pre = n, !.token = rec[r].token + OnToken(r, d)] \in RecType
        /\ [rec[r] EXCEPT !.pre = n, !.token = rec[r].token + OnToken(r, d)].sub = rec[r].sub
    <3> HIDE DEF d
    <3>1. rec[r].token + OnToken(r, d) \in Nat
          BY <1>0, <2>1 DEF RecType
    <3>2. \A k \in Nat : [rec[r] EXCEPT !.pre = n, !.token = k] \in RecType
          BY <1>0 DEF RecType
    <3>3. \A k \in Nat : [rec[r] EXCEPT !.pre = n, !.token = k].sub = rec[r].sub
          BY <1>0 DEF RecType
    <3> QED  BY <3>1, <3>2, <3>3
  <2> QED  BY <1>0, <2>2, <2>3, Rows
<1>7. token' \in TokType /\ UNCHANGED <<wallet, sess, task, extra, ops, faults>>
      BY <1>0, <1>1, TokenTyped DEF Reserve
<1>8. TypeOK'
      BY <1>0, <1>5, <1>6, <1>7, Rows, Typed
<1>9. sess' = [sess EXCEPT ![r] = sess'[r]]
      BY <1>0, <1>7, Rows
<1>10. rec'[r].status = "consumed"
      BY <1>0, Rows DEF Reserve, RecType
<1>11. Unrefunded(r)' /\ Recorded(r)' /\ task' = task
      BY <1>7, <1>10 DEF BillInv, Unrefunded, Recorded
<1> QED  BY <1>1, <1>6, <1>7, <1>8, <1>9, <1>11, OneRequest DEF BillInv

\* Recording the cost marks the session as tried.
LEMMA SettleIntentKeeps ==
    ASSUME BillInv, NEW r \in Requests, NEW n \in 0 .. MaxAmount, SettleIntent(r, n)
    PROVE  BillInv'
<1> n \in Nat
    BY BillingAssumption
<1>0. TypeOK /\ rec[r] \in RecType /\ sess[r] \in SessType
      BY Rows DEF BillInv
<1>1. UNCHANGED <<sub, token, wallet, task, extra, ops>>
      BY DEF SettleIntent
<1>2. /\ sess' \in [Requests -> SessType] /\ sess' = [sess EXCEPT ![r] = sess'[r]]
      /\ sess'[r].pc \notin {"none", "open", "stream"}
  <2>1. PICK pc \in {"settling", "insert"} :
            sess' = [sess EXCEPT ![r] = [pc |-> pc, tried |-> TRUE]]
        BY DEF SettleIntent
  <2>2. [pc |-> pc, tried |-> TRUE] \in SessType
        BY DEF SessType
  <2> QED  BY <1>0, <2>1, <2>2, Rows
<1>3. faults' \in 0 .. MaxFaults
      BY <1>0, Rows, Counted DEF SettleIntent
<1>4. /\ rec' \in [Requests -> RecType] /\ rec' = [rec EXCEPT ![r] = rec'[r]]
      /\ rec'[r].status # "none" => rec'[r].sub \in Subs
      /\ rec'[r].status # "refunded"
  <2>1. CASE UNCHANGED rec
        BY <1>0, <2>1, Rows DEF BillInv, Unrefunded, SettleIntent
  <2>2. CASE rec[r].status = "consumed"
             /\ rec' = [rec EXCEPT ![r].status = "settling", ![r].actual = n]
    <3>1. rec' = [rec EXCEPT ![r] = [rec[r] EXCEPT !.status = "settling", !.actual = n]]
          BY <1>0, <2>2, Rows DEF RecType
    <3>2. [rec[r] EXCEPT !.status = "settling", !.actual = n] \in RecType
          BY <1>0 DEF RecType
    <3>3. /\ [rec[r] EXCEPT !.status = "settling", !.actual = n].sub = rec[r].sub
          /\ [rec[r] EXCEPT !.status = "settling", !.actual = n].status = "settling"
          BY <1>0 DEF RecType
    <3>4. rec[r].sub \in Subs
          BY <2>2 DEF BillInv
    <3> QED  BY <1>0, <3>1, <3>2, <3>3, <3>4, Rows
  <2> QED  BY <2>1, <2>2 DEF SettleIntent
<1>5. TypeOK'
      BY <1>0, <1>1, <1>2, <1>3, <1>4, Rows, Typed
<1>6. Unrefunded(r)' /\ Recorded(r)' /\ task' = task
  <2>1. rec[r].status # "none" /\ (rec[r].status # "none" => rec'[r].status # "none")
    <3>1. CASE UNCHANGED rec
          BY <3>1 DEF BillInv, Recorded, SettleIntent
    <3>2. CASE rec' = [rec EXCEPT ![r].status = "settling", ![r].actual = n]
          BY <1>0, <3>2, Rows DEF BillInv, Recorded, SettleIntent, RecType
    <3> QED  BY <3>1, <3>2 DEF SettleIntent
  <2> QED  BY <1>1, <1>4, <2>1 DEF BillInv, Unrefunded, Recorded
<1> QED  BY <1>2, <1>4, <1>5, <1>6, OneRequest

\* What a settlement takes of a grant is there, and what it takes of a newer
\* one is not negative.
LEMMA Settlement ==
    ASSUME BillInv, NEW r \in Requests, rec[r].status = "settling"
    PROVE  /\ Excess(r) \in Nat /\ Owing(r) \in Int /\ Taken(r) \in Int
           /\ sub[rec[r].sub].ver # rec[r].ver => Taken(r) \in Nat
           /\ AtLeast0(sub[rec[r].sub].used + Taken(r)) \in Nat
           /\ sub[rec[r].sub].total > 0 =>
                AtLeast0(sub[rec[r].sub].used + Taken(r)) <= sub[rec[r].sub].total
<1> DEFINE x == sub[rec[r].sub]
<1>1. x \in SubType /\ Kept(x) /\ rec[r] \in RecType
      BY Rows DEF BillInv
<1>2. /\ x.total \in Nat /\ x.used \in Nat /\ (x.total > 0 => x.used <= x.total)
      /\ rec[r].actual \in Nat /\ rec[r].pre \in Nat
      BY <1>1 DEF SubType, RecType, Kept
<1>3. Owing(r) \in Int
      BY <1>2 DEF Owing
<1>4. Excess(r) = IF x.total > 0 THEN AtLeast0(Owing(r) - AtLeast0(x.total - x.used)) ELSE 0
      BY DEF Excess
<1>5. Taken(r) = IF Owing(r) - Excess(r) < 0 /\ x.ver # rec[r].ver THEN 0
                 ELSE Owing(r) - Excess(r)
      BY DEF Taken
<1> HIDE DEF x
<1>6. Excess(r) \in Nat /\ (x.total > 0 => Owing(r) - Excess(r) <= x.total - x.used)
      BY <1>2, <1>3, <1>4 DEF AtLeast0
<1>7. Taken(r) \in Int /\ (x.ver # rec[r].ver => Taken(r) \in Nat)
      /\ (x.total > 0 => Taken(r) <= x.total - x.used)
      BY <1>2, <1>3, <1>5, <1>6
<1>8. /\ AtLeast0(x.used + Taken(r)) \in Nat
      /\ x.total > 0 => AtLeast0(x.used + Taken(r)) <= x.total
      BY <1>2, <1>7 DEF AtLeast0
<1> QED  BY <1>3, <1>6, <1>7, <1>8 DEF x

\* The history of a request stays one.
LEMMA BeyondTyped ==
    ASSUME TypeOK, NEW r \in Requests, rec[r].sub \in Subs, NEW n \in Int
    PROVE  /\ Beyond(r, n) \in ExtraType
           /\ Beyond(r, n).ver = sub[rec[r].sub].ver
           /\ Beyond(r, n).amount =
                n + IF extra[r].ver = sub[rec[r].sub].ver THEN extra[r].amount ELSE 0
           /\ Beyond(r, n).token = extra[r].token
           /\ Beyond(r, n).owed = extra[r].owed
<1> DEFINE v == sub[rec[r].sub].ver
           a == n + IF extra[r].ver = v THEN extra[r].amount ELSE 0
<1>1. extra[r] \in ExtraType /\ v \in Nat
      BY Rows DEF SubType
<1>2. a \in Int
      BY <1>1 DEF ExtraType
<1>3. Beyond(r, n) = [extra[r] EXCEPT !.ver = v, !.amount = a]
      BY <1>1 DEF Beyond, ExtraType
<1> HIDE DEF v, a
<1>4. [extra[r] EXCEPT !.ver = v, !.amount = a] \in ExtraType
      BY <1>1, <1>2 DEF ExtraType
<1>5. LET z == [extra[r] EXCEPT !.ver = v, !.amount = a] IN
        z.ver = v /\ z.amount = a /\ z.token = extra[r].token /\ z.owed = extra[r].owed
      BY <1>1 DEF ExtraType
<1> QED  BY <1>3, <1>4, <1>5 DEF v, a

\* The second transaction keeps every row.
LEMMA CommitKeeps ==
    ASSUME BillInv, NEW r \in Requests, Commit(r)
    PROVE  /\ sub' \in [Subs -> SubType] /\ \A q \in Subs : Kept(sub'[q])
           /\ token' \in TokType /\ wallet' \in Int /\ wallet' >= MinWallet
           /\ rec' \in [Requests -> RecType] /\ rec' = [rec EXCEPT ![r] = rec'[r]]
           /\ rec'[r].sub \in Subs /\ rec'[r].status = "settled"
           /\ extra' \in [Requests -> ExtraType]
<1>0. TypeOK /\ rec[r] \in RecType /\ rec[r].status = "settling"
      BY Rows DEF BillInv, Commit, CanCommit
<1> DEFINE s == rec[r].sub
           k == AtLeast0(sub[s].used + Taken(r))
<1>1. s \in Subs /\ sub[s] \in SubType
      BY <1>0, Rows DEF BillInv
<1>2. k \in Nat /\ (sub[s].total > 0 => k <= sub[s].total)
      BY <1>0, Settlement
<1>3. sub' = [sub EXCEPT ![s] = [sub[s] EXCEPT !.used = k]]
      BY DEF Commit
<1>4. [sub[s] EXCEPT !.used = k] \in SubType /\ Kept([sub[s] EXCEPT !.used = k])
  <2> HIDE DEF k, s
  <2>1. [sub[s] EXCEPT !.used = k] \in SubType
        BY <1>1, <1>2 DEF SubType
  <2>2. [sub[s] EXCEPT !.used = k].used = k /\ [sub[s] EXCEPT !.used = k].total = sub[s].total
        BY <1>1 DEF SubType
  <2> QED  BY <1>2, <2>1, <2>2 DEF Kept
<1>5. sub' \in [Subs -> SubType] /\ \A q \in Subs : Kept(sub'[q])
  <2> HIDE DEF k, s
  <2> QED  BY <1>0, <1>1, <1>3, <1>4, Replaced
<1>6. wallet' \in Int /\ wallet' >= MinWallet
      BY <1>0, Settlement, Rows, BillingAssumption DEF Commit, CanCommit
<1>7. token' \in TokType
      BY <1>0, Settlement, TokenTyped DEF Commit
<1>8. /\ rec' \in [Requests -> RecType] /\ rec' = [rec EXCEPT ![r] = rec'[r]]
      /\ rec'[r].sub \in Subs /\ rec'[r].status = "settled"
  <2>1. rec' = [rec EXCEPT ![r] = [rec[r] EXCEPT !.status = "settled", !.wallet = Excess(r),
                                     !.token = OnToken(r, rec[r].actual)]]
        BY <1>0, Rows DEF Commit, RecType
  <2>2. Excess(r) \in Nat /\ OnToken(r, rec[r].actual) \in Nat
        BY <1>0, Settlement DEF OnToken, RecType
  <2>3. \A a, b \in Nat :
          [rec[r] EXCEPT !.status = "settled", !.wallet = a, !.token = b] \in RecType
        BY <1>0 DEF RecType
  <2>4. \A a, b \in Nat :
          [rec[r] EXCEPT !.status = "settled", !.wallet = a, !.token = b].sub = s
        BY <1>0 DEF RecType
  <2>5. \A a, b \in Nat :
          [rec[r] EXCEPT !.status = "settled", !.wallet = a, !.token = b].status = "settled"
        BY <1>0 DEF RecType
  <2> QED  BY <1>0, <1>1, <2>1, <2>2, <2>3, <2>4, <2>5, Rows
<1>9. extra' \in [Requests -> ExtraType]
  <2>1. extra \in [Requests -> ExtraType] /\ Beyond(r, Taken(r)) \in ExtraType
        BY <1>0, <1>1, Settlement, BeyondTyped, Rows
  <2> QED  BY <2>1 DEF Commit
<1> QED  BY <1>1, <1>5, <1>6, <1>7, <1>8, <1>9

\* The session's second transaction, or its failure.
LEMMA SettleCommitKeeps ==
    ASSUME BillInv, NEW r \in Requests, SettleCommit(r)
    PROVE  BillInv'
<1>0. TypeOK /\ sess[r] \in SessType
      BY Rows DEF BillInv
<1>1. /\ sess' \in [Requests -> SessType] /\ sess' = [sess EXCEPT ![r] = sess'[r]]
      /\ sess'[r].pc = "insert" /\ sess'[r].tried = sess[r].tried
  <2>1. [sess[r] EXCEPT !.pc = "insert"] \in SessType
        /\ [sess[r] EXCEPT !.pc = "insert"].pc = "insert"
        /\ [sess[r] EXCEPT !.pc = "insert"].tried = sess[r].tried
        BY <1>0 DEF SessType
  <2> QED  BY <1>0, <2>1, Rows DEF SettleCommit
<1>2. UNCHANGED <<task, ops>> /\ faults' \in 0 .. MaxFaults
      BY <1>0, Rows, Counted DEF SettleCommit
<1>3. CASE Commit(r)
  <2>1. TypeOK'
        BY <1>0, <1>1, <1>2, <1>3, CommitKeeps, Rows, Typed
  <2>2. Unrefunded(r)' /\ Recorded(r)' /\ task' = task
        BY <1>2, <1>3, CommitKeeps DEF BillInv, Unrefunded, Recorded
  <2> QED  BY <1>1, <1>3, <2>1, <2>2, CommitKeeps, OneRequest
<1>4. CASE UNCHANGED <<sub, token, wallet, rec, extra>>
  <2>1. TypeOK'
        BY <1>0, <1>1, <1>2, <1>4, Rows, Typed
  <2>2. rec' = [rec EXCEPT ![r] = rec'[r]]
        BY <1>0, <1>4, Rows
  <2>3. rec'[r].status # "none" => rec'[r].sub \in Subs
        BY <1>4 DEF BillInv
  <2>4. Unrefunded(r)' /\ Recorded(r)' /\ task' = task
        BY <1>1, <1>2, <1>4 DEF BillInv, Unrefunded, Recorded, SettleCommit
  <2> QED  BY <1>1, <2>1, <2>2, <2>3, <2>4, OneRequest
<1> QED  BY <1>3, <1>4 DEF SettleCommit

\* The same transaction by an operator.
LEMMA RetryKeeps ==
    ASSUME BillInv, NEW r \in Requests, Retry(r)
    PROVE  BillInv'
<1>0. TypeOK /\ Commit(r) /\ UNCHANGED <<sess, task, ops, faults>>
      BY DEF BillInv, Retry
<1>1. TypeOK'
      BY <1>0, CommitKeeps, Rows, Typed
<1>2. sess' = [sess EXCEPT ![r] = sess'[r]]
      BY <1>0, Rows
<1>3. sess'[r].tried => sess'[r].pc \notin {"none", "open", "stream"}
      BY <1>0 DEF BillInv
<1>4. Unrefunded(r)' /\ Recorded(r)' /\ task' = task
      BY <1>0, CommitKeeps DEF BillInv, Unrefunded, Recorded
<1> QED  BY <1>0, <1>1, <1>2, <1>3, <1>4, CommitKeeps, OneRequest

\* The session of r closes.
LEMMA Closed ==
    ASSUME TypeOK, NEW r \in Requests, sess' = [sess EXCEPT ![r].pc = "closed"]
    PROVE  /\ sess' \in [Requests -> SessType] /\ sess' = [sess EXCEPT ![r] = sess'[r]]
           /\ sess'[r].pc = "closed" /\ sess'[r].tried = sess[r].tried
<1>1. sess \in [Requests -> SessType] /\ sess[r] \in SessType
      BY Rows
<1>2. /\ [sess[r] EXCEPT !.pc = "closed"] \in SessType
      /\ [sess[r] EXCEPT !.pc = "closed"].pc = "closed"
      /\ [sess[r] EXCEPT !.pc = "closed"].tried = sess[r].tried
      BY <1>1 DEF SessType
<1> QED  BY <1>1, <1>2

\* The end of a request, with its task.
LEMMA FinishKeeps ==
    ASSUME BillInv, NEW r \in Requests, NEW n \in 0 .. MaxAmount, Finish(r, n)
    PROVE  BillInv'
<1> n \in Nat
    BY BillingAssumption
<1>0. TypeOK /\ UNCHANGED <<sub, token, wallet, rec, extra, ops, faults>>
      BY DEF BillInv, Finish
<1>1. task' \in [Tasks -> TaskType]
  <2>1. [status |-> "submitted", quota |-> n, back |-> -1] \in TaskType
        BY DEF TaskType
  <2>2. CASE r \in Tasks
        BY <1>0, <2>1, <2>2, Rows DEF Finish
  <2>3. CASE r \notin Tasks
        BY <1>0, <2>3, Rows DEF Finish
  <2> QED  BY <2>2, <2>3
<1>2. TypeOK'
      BY <1>0, <1>1, Closed, Rows, Typed DEF Finish
<1>3. rec' = [rec EXCEPT ![r] = rec'[r]] /\ (rec'[r].status # "none" => rec'[r].sub \in Subs)
      BY <1>0, Rows DEF BillInv
<1>4. /\ \A t \in Tasks : t # r => task'[t] = task[t]
      /\ r \in Tasks => task'[r].status = "submitted"
      BY <1>0, Rows DEF Finish
<1>5. Unrefunded(r)' /\ Recorded(r)'
      BY <1>0, <1>4, Closed DEF Finish, BillInv, Unrefunded, Recorded
<1> QED  BY <1>0, <1>2, <1>3, <1>4, <1>5, Closed, OneRequest DEF Finish, BillInv

\* A grant that gives something back is not overdrawn.
LEMMA LessUsed ==
    ASSUME TypeOK, NEW s \in Nat, NEW n \in Nat,
           sub' = [sub EXCEPT ![s].used = AtLeast0(@ - n)]
    PROVE  sub' \in [Subs -> SubType] /\ \A q \in Subs : Kept(sub'[q])
<1>1. CASE s \notin Subs
      BY <1>1, Rows
<1>2. CASE s \in Subs
  <2>1. sub[s] \in SubType /\ Kept(sub[s])
        BY <1>2, Rows
  <2>2. PICK k \in Nat : k = AtLeast0(sub[s].used - n) /\ k <= sub[s].used
        BY <2>1 DEF SubType, AtLeast0
  <2>3. [sub[s] EXCEPT !.used = k] \in SubType
        BY <2>1 DEF SubType
  <2>4. [sub[s] EXCEPT !.used = k].used = k /\ [sub[s] EXCEPT !.used = k].total = sub[s].total
        BY <2>1 DEF SubType
  <2>5. Kept([sub[s] EXCEPT !.used = k])
        BY <2>1, <2>2, <2>4 DEF Kept, SubType
  <2>6. sub' = [sub EXCEPT ![s] = [sub[s] EXCEPT !.used = k]]
        BY <2>2
  <2> QED  BY <1>2, <2>3, <2>5, <2>6, Replaced
<1> QED  BY <1>1, <1>2

\* A refund gives back no more than is used.
LEMMA RefundKeeps ==
    ASSUME BillInv, NEW r \in Requests, Refund(r)
    PROVE  BillInv'
<1>0. TypeOK /\ rec[r] \in RecType /\ UNCHANGED <<wallet, task, extra, ops, faults>>
      BY Rows DEF BillInv, Refund
<1>1. rec[r].sub \in Nat /\ rec[r].pre \in Nat /\ -rec[r].token \in Int /\ rec[r].sub \in Subs
      BY <1>0 DEF RecType, Refund, BillInv
<1>2. sub' \in [Subs -> SubType] /\ \A q \in Subs : Kept(sub'[q])
  <2>1. CASE sub' = sub
        BY <1>0, <2>1, Rows
  <2>2. CASE sub' = [sub EXCEPT ![rec[r].sub].used = AtLeast0(@ - rec[r].pre)]
        BY <1>0, <1>1, <2>2, LessUsed
  <2> QED  BY <2>1, <2>2 DEF Refund
<1>3. /\ rec' \in [Requests -> RecType] /\ rec' = [rec EXCEPT ![r] = rec'[r]]
      /\ rec'[r].sub = rec[r].sub
  <2>1. rec' = [rec EXCEPT ![r] = [rec[r] EXCEPT !.status = "refunded", !.token = 0]]
        BY <1>0, Rows DEF Refund, RecType
  <2>2. [rec[r] EXCEPT !.status = "refunded", !.token = 0] \in RecType
        BY <1>0 DEF RecType
  <2>3. [rec[r] EXCEPT !.status = "refunded", !.token = 0].sub = rec[r].sub
        BY <1>0 DEF RecType
  <2> QED  BY <1>0, <2>1, <2>2, <2>3, Rows
<1>4. token' \in TokType
      BY <1>0, <1>1, TokenTyped DEF Refund
<1>5. TypeOK'
      BY <1>0, <1>2, <1>3, <1>4, Closed, Rows, Typed DEF Refund
<1>6. rec'[r].status = "refunded"
      BY <1>0, Rows DEF Refund, RecType
<1>7. Unrefunded(r)' /\ Recorded(r)' /\ task' = task
      BY <1>0, <1>6, Closed DEF Refund, BillInv, Unrefunded, Recorded
<1> QED  BY <1>0, <1>1, <1>3, <1>5, <1>7, Closed, OneRequest DEF Refund, BillInv

\* A session that is left alone changes no row.
LEMMA AbandonKeeps ==
    ASSUME BillInv, NEW r \in Requests, Abandon(r)
    PROVE  BillInv'
<1>0. TypeOK /\ UNCHANGED <<sub, token, wallet, rec, task, extra, ops>>
      BY DEF BillInv, Abandon
<1>1. faults' \in 0 .. MaxFaults
      BY <1>0, Rows, Counted DEF Abandon
<1>2. TypeOK'
      BY <1>0, <1>1, Closed, Rows, Typed DEF Abandon
<1>3. rec' = [rec EXCEPT ![r] = rec'[r]] /\ (rec'[r].status # "none" => rec'[r].sub \in Subs)
      BY <1>0, Rows DEF BillInv
<1>4. Unrefunded(r)' /\ Recorded(r)' /\ task' = task
      BY <1>0, Closed DEF Abandon, BillInv, Unrefunded, Recorded
<1> QED  BY <1>0, <1>2, <1>3, <1>4, Closed, OneRequest DEF Abandon, BillInv

\* A payment outside the ledger fits its subscription.
LEMMA PostConsumeKeeps ==
    ASSUME BillInv, NEW r \in Requests, rec[r].status # "none", NEW n \in Int,
           PostConsume(r, n)
    PROVE  /\ sub' \in [Subs -> SubType] /\ \A q \in Subs : Kept(sub'[q])
           /\ extra' \in [Requests -> ExtraType]
<1>0. TypeOK /\ rec[r].sub \in Subs
      BY DEF BillInv
<1> DEFINE s == rec[r].sub
           k == AtLeast0(sub[s].used + n)
<1>1. sub[s] \in SubType
      BY <1>0, Rows
<1>2. k \in Nat /\ (sub[s].total > 0 => k <= sub[s].total)
      BY <1>1 DEF PostConsume, SubType, AtLeast0
<1>3. sub' = [sub EXCEPT ![s] = [sub[s] EXCEPT !.used = k]]
      BY DEF PostConsume
<1>4. [sub[s] EXCEPT !.used = k] \in SubType /\ Kept([sub[s] EXCEPT !.used = k])
  <2> HIDE DEF k, s
  <2>1. [sub[s] EXCEPT !.used = k] \in SubType
        BY <1>1, <1>2 DEF SubType
  <2>2. [sub[s] EXCEPT !.used = k].used = k /\ [sub[s] EXCEPT !.used = k].total = sub[s].total
        BY <1>1 DEF SubType
  <2> QED  BY <1>2, <2>1, <2>2 DEF Kept
<1>5. sub' \in [Subs -> SubType] /\ \A q \in Subs : Kept(sub'[q])
  <2> HIDE DEF k, s
  <2>1. s \in Subs
        BY <1>0 DEF s
  <2> QED  BY <1>0, <1>3, <1>4, <2>1, Replaced
<1>6. extra' \in [Requests -> ExtraType]
  <2>1. extra \in [Requests -> ExtraType] /\ Beyond(r, n) \in ExtraType
        BY <1>0, BeyondTyped, Rows
  <2>2. \A y \in ExtraType : [y EXCEPT !.owed = n] \in ExtraType
        BY DEF ExtraType
  <2> QED  BY <2>1, <2>2 DEF PostConsume
<1> QED  BY <1>5, <1>6

\* Its second commit takes what is owed of the token, or nothing.
LEMMA PostTokenTakes ==
    ASSUME TypeOK, NEW r \in Requests, PostToken(r)
    PROVE  \E a \in {OnToken(r, extra[r].owed), 0} :
             /\ a \in Int /\ token'.used = token.used + a /\ token'.remain = token.remain - a
             /\ extra' = [extra EXCEPT ![r] = [extra[r] EXCEPT !.token = extra[r].token + a,
                                                               !.owed = 0]]
<1> DEFINE y == extra[r]
           n == extra[r].owed
<1>1. extra \in [Requests -> ExtraType] /\ y \in ExtraType /\ token \in TokType
      BY Rows
<1>2. y.token \in Int /\ n \in Int /\ OnToken(r, n) \in Int /\ token.used \in Int
      /\ token.remain \in Int
      BY <1>1 DEF ExtraType, OnToken, TokType
<1>3. CASE /\ token' = Debited(r, extra[r].owed)
           /\ extra' = [extra EXCEPT ![r].token = @ + OnToken(r, extra[r].owed), ![r].owed = 0]
  <2>1. extra' = [extra EXCEPT ![r] = [y EXCEPT !.token = y.token + OnToken(r, n), !.owed = 0]]
        BY <1>1, <1>3
  <2>2. /\ Debited(r, n).used = token.used + OnToken(r, n)
        /\ Debited(r, n).remain = token.remain - OnToken(r, n)
        BY <1>1, <1>2 DEF Debited, OnToken, TokType
  <2> QED  BY <1>2, <1>3, <2>1, <2>2
<1>4. CASE token' = token /\ extra' = [extra EXCEPT ![r].owed = 0]
  <2>1. [y EXCEPT !.token = y.token + 0, !.owed = 0] = [y EXCEPT !.owed = 0]
    <3> HIDE DEF y
    <3>1. y.token + 0 = y.token /\ y.token = y["token"]
          BY <1>2
    <3>2. [y EXCEPT !.token = y.token] = y
          BY <1>1 DEF ExtraType
    <3> QED  BY <3>1, <3>2
  <2>2. extra' = [extra EXCEPT ![r] = [y EXCEPT !.token = y.token + 0, !.owed = 0]]
        BY <1>1, <1>4, <2>1
  <2>3. token'.used = token.used + 0 /\ token'.remain = token.remain - 0
        BY <1>2, <1>4
  <2> QED  BY <2>2, <2>3
<1> QED  BY <1>3, <1>4 DEF PostToken

\* It keeps every row as well.
LEMMA PostTokenKeeps ==
    ASSUME BillInv, NEW r \in Requests, PostToken(r)
    PROVE  /\ sub' = sub /\ token' \in TokType /\ extra' \in [Requests -> ExtraType]
           /\ faults' \in 0 .. MaxFaults
<1>0. TypeOK
      BY DEF BillInv
<1>1. extra \in [Requests -> ExtraType] /\ extra[r] \in ExtraType /\ extra[r].owed \in Int
      /\ extra[r].token \in Int
      BY <1>0, Rows DEF ExtraType
<1>2. sub' = sub /\ faults' \in 0 .. MaxFaults
      BY <1>0, Rows, Counted DEF PostToken
<1>3. token' \in TokType
      BY <1>0, <1>1, Rows, TokenTyped DEF PostToken
<1>4. extra' \in [Requests -> ExtraType]
  <2>1. PICK a \in Int : extra' = [extra EXCEPT ![r] = [extra[r] EXCEPT
                                     !.token = extra[r].token + a, !.owed = 0]]
        BY <1>0, PostTokenTakes
  <2>2. extra[r].token + a \in Int
        BY <1>1
  <2>3. [extra[r] EXCEPT !.token = extra[r].token + a, !.owed = 0] \in ExtraType
    <3>1. \A b \in Int : [extra[r] EXCEPT !.token = b] \in ExtraType
          BY <1>1 DEF ExtraType
    <3>2. \A z \in ExtraType : [z EXCEPT !.owed = 0] \in ExtraType
          BY DEF ExtraType
    <3> QED  BY <2>2, <3>1, <3>2
  <2> QED  BY <1>1, <2>1, <2>3
<1> QED  BY <1>2, <1>3, <1>4

\* A turn of a realtime request leaves its record alone.
LEMMA StreamKeeps ==
    ASSUME BillInv, NEW r \in Requests,
           (\E n \in 1 .. MaxAmount : Stream(r, n)) \/ StreamToken(r)
    PROVE  BillInv'
<1>0. TypeOK /\ sess[r] \in SessType /\ UNCHANGED <<wallet, rec, task, ops>>
      /\ rec[r].status # "none"
      BY Rows DEF BillInv, Recorded, Stream, StreamToken
<1>1. PICK pc \in {"open", "stream"} : sess' = [sess EXCEPT ![r].pc = pc]
      BY DEF Stream, StreamToken
<1>2. /\ sess' \in [Requests -> SessType] /\ sess' = [sess EXCEPT ![r] = sess'[r]]
      /\ sess'[r].pc = pc /\ sess'[r].tried = sess[r].tried
  <2>1. /\ [sess[r] EXCEPT !.pc = pc] \in SessType
        /\ [sess[r] EXCEPT !.pc = pc].pc = pc
        /\ [sess[r] EXCEPT !.pc = pc].tried = sess[r].tried
        BY <1>0 DEF SessType
  <2> QED  BY <1>0, <1>1, <2>1, Rows
<1>3. /\ sub' \in [Subs -> SubType] /\ \A q \in Subs : Kept(sub'[q])
      /\ extra' \in [Requests -> ExtraType] /\ token' \in TokType /\ faults' \in 0 .. MaxFaults
  <2>1. CASE \E n \in 1 .. MaxAmount : Stream(r, n)
    <3>1. PICK n \in 1 .. MaxAmount : Stream(r, n)
          BY <2>1
    <3>2. n \in Int /\ PostConsume(r, n) /\ UNCHANGED <<token, faults>>
          BY <3>1 DEF Stream
    <3> QED  BY <1>0, <3>2, PostConsumeKeeps, Rows
  <2>2. CASE StreamToken(r)
        BY <1>0, <2>2, PostTokenKeeps, Rows DEF StreamToken
  <2> QED  BY <2>1, <2>2
<1>4. TypeOK'
      BY <1>0, <1>2, <1>3, Rows, Typed
<1>5. ~sess[r].tried /\ rec[r].status # "refunded"
      BY DEF BillInv, Unrefunded, Stream, StreamToken
<1>6. Unrefunded(r)' /\ Recorded(r)'
      BY <1>0, <1>2, <1>5 DEF BillInv, Unrefunded, Recorded
<1>7. rec' = [rec EXCEPT ![r] = rec'[r]] /\ rec'[r].sub \in Subs
      BY <1>0, Rows DEF BillInv
<1> QED  BY <1>0, <1>2, <1>4, <1>5, <1>6, <1>7, OneRequest

\* A step that changes the row of one task, and neither records nor sessions.
LEMMA OneTask ==
    ASSUME BillInv, NEW r \in Tasks, NEW x \in TaskType, task' = [task EXCEPT ![r] = x],
           x.status = "pending" => x.quota > 0, task[r].status # "none",
           UNCHANGED <<wallet, rec, sess, ops>>,
           sub' \in [Subs -> SubType], \A q \in Subs : Kept(sub'[q]),
           token' \in TokType, extra' \in [Requests -> ExtraType], faults' \in 0 .. MaxFaults
    PROVE  BillInv'
<1>1. TypeOK /\ r \in Requests /\ Recorded(r) /\ Unrefunded(r)
      BY BillingAssumption DEF BillInv
<1>2. /\ task' \in [Tasks -> TaskType] /\ task'[r] = x
      /\ \A t \in Tasks : t # r => task'[t] = task[t]
      BY <1>1, Rows
<1>3. TypeOK'
      BY <1>1, <1>2, Rows, Typed
<1>4. Recorded(r)' /\ Unrefunded(r)'
      BY <1>1, <1>2 DEF Recorded, Unrefunded
<1>5. rec' = [rec EXCEPT ![r] = rec'[r]] /\ sess' = [sess EXCEPT ![r] = sess'[r]]
      BY <1>1, Rows
<1>6. sess'[r].tried => sess'[r].pc \notin {"none", "open", "stream"}
      BY <1>1 DEF BillInv
<1>7. rec'[r].status # "none" => rec'[r].sub \in Subs
      BY <1>1 DEF BillInv
<1> QED  BY <1>1, <1>2, <1>3, <1>4, <1>5, <1>6, <1>7, OneRequest

\* What happens to a task changes neither records nor sessions.
LEMMA TaskKeeps ==
    ASSUME BillInv, TaskStep
    PROVE  BillInv'
<1>0. TypeOK
      BY DEF BillInv
<1>1. PICK r \in Tasks :
        \/ RecalculateToken(r) \/ PrepareTaskRefund(r) \/ ApplyTaskRefund(r)
        \/ \E n \in 1 .. MaxAmount : Recalculate(r, n)
      BY DEF TaskStep
<1>2. r \in Requests /\ task[r] \in TaskType /\ rec[r] \in RecType /\ Recorded(r)
      BY <1>0, Rows, BillingAssumption DEF BillInv
<1>3. /\ UNCHANGED <<wallet, rec, sess, ops>>
      /\ task[r].status # "none" /\ rec[r].status # "none" /\ rec[r].sub \in Subs
      BY <1>1, <1>2 DEF PrepareTaskRefund, ApplyTaskRefund, Recalculate, RecalculateToken, Recorded,
           BillInv
<1>4. PICK x : task' = [task EXCEPT ![r] = x]
      BY <1>1 DEF PrepareTaskRefund, ApplyTaskRefund, Recalculate, RecalculateToken
<1>6. CASE PrepareTaskRefund(r)
  <2>1. /\ [task[r] EXCEPT !.status = "pending"] \in TaskType
        /\ [task[r] EXCEPT !.status = "pending"].quota = task[r].quota
        BY <1>2 DEF TaskType
  <2>2. x = [task[r] EXCEPT !.status = "pending"]
        BY <1>0, <1>4, <1>6, Rows DEF PrepareTaskRefund
  <2>3. x.quota > 0 /\ UNCHANGED <<sub, token, extra, faults>>
        BY <1>6, <2>1, <2>2 DEF PrepareTaskRefund
  <2> QED  BY <1>0, <1>3, <1>4, <2>1, <2>2, <2>3, Rows, OneTask
<1>7. CASE ApplyTaskRefund(r)
  <2>1. rec[r].sub \in Nat /\ task[r].quota \in Nat
        BY <1>2, <1>7 DEF RecType, TaskType, Recorded, ApplyTaskRefund
  <2>2. PICK back \in Nat : /\ token' = Debited(r, -back)
                            /\ extra' = [extra EXCEPT ![r].token = @ - back]
    <3>1. (IF token.live THEN OnToken(r, task[r].quota) ELSE 0) \in Nat
          BY <2>1 DEF OnToken
    <3> QED  BY <1>7, <3>1 DEF ApplyTaskRefund
  <2>3. sub' \in [Subs -> SubType] /\ \A q \in Subs : Kept(sub'[q])
        BY <1>0, <1>7, <2>1, LessUsed DEF ApplyTaskRefund
  <2>4. token' \in TokType
        BY <1>0, <1>2, <2>2, TokenTyped
  <2>5. x \in TaskType /\ x.status # "pending"
    <3>1. sub[rec[r].sub].ver \in Int
          BY <1>0, <1>3, Rows DEF SubType
    <3>2. x = [status |-> "refunded", quota |-> 0, back |-> sub[rec[r].sub].ver]
          BY <1>0, <1>4, <1>7, Rows DEF ApplyTaskRefund
    <3> QED  BY <3>1, <3>2 DEF TaskType
  <2>6. extra' \in [Requests -> ExtraType]
    <3>1. extra \in [Requests -> ExtraType] /\ extra[r] \in ExtraType /\ extra[r].token - back \in Int
          BY <1>0, <1>2, Rows DEF ExtraType
    <3>2. \A a \in Int : [extra[r] EXCEPT !.token = a] \in ExtraType
          BY <3>1 DEF ExtraType
    <3> QED  BY <2>2, <3>1, <3>2
  <2>7. faults' \in 0 .. MaxFaults
        BY <1>0, <1>7, Rows DEF ApplyTaskRefund
  <2> QED  BY <1>3, <1>4, <2>3, <2>4, <2>5, <2>6, <2>7, OneTask
<1>8. CASE RecalculateToken(r)
  <2>1. x \in TaskType /\ x.status = "done"
    <3>1. x = [task[r] EXCEPT !.status = "done", !.quota = task[r].quota + extra[r].owed]
          BY <1>0, <1>4, <1>8, Rows DEF RecalculateToken
    <3>2. task[r].quota + extra[r].owed \in Int
          BY <1>0, <1>2, Rows DEF TaskType, ExtraType
    <3>3. \A a \in Int : /\ [task[r] EXCEPT !.status = "done", !.quota = a] \in TaskType
                         /\ [task[r] EXCEPT !.status = "done", !.quota = a].status = "done"
          BY <1>2 DEF TaskType
    <3> QED  BY <3>1, <3>2, <3>3
  <2>2. PostToken(r)
        BY <1>8 DEF RecalculateToken
  <2>3. /\ sub' = sub /\ token' \in TokType /\ extra' \in [Requests -> ExtraType]
        /\ faults' \in 0 .. MaxFaults
        BY <1>2, <2>2, PostTokenKeeps
  <2> QED  BY <1>0, <1>3, <1>4, <2>1, <2>3, Rows, OneTask
<1>9. CASE \E n \in 1 .. MaxAmount : Recalculate(r, n)
  <2>1. PICK n \in 1 .. MaxAmount : Recalculate(r, n)
        BY <1>9
  <2>2. n - task[r].quota \in Int
        BY <1>2 DEF TaskType
  <2>3. x \in TaskType /\ x.status = "adjusting"
    <3>1. PICK b : b \in Int /\ x = [task[r] EXCEPT !.status = "adjusting", !.back = b]
      <4>1. sub[rec[r].sub].ver \in Int /\ task[r].back \in Int
            BY <1>0, <1>2, <1>3, Rows DEF SubType, TaskType
      <4>2. x = [task[r] EXCEPT !.status = "adjusting",
                   !.back = IF n - task[r].quota < 0 THEN sub[rec[r].sub].ver ELSE task[r].back]
            BY <1>0, <1>4, <2>1, Rows DEF Recalculate, TaskType
      <4> QED  BY <4>1, <4>2
    <3>2. /\ [task[r] EXCEPT !.status = "adjusting", !.back = b] \in TaskType
          /\ [task[r] EXCEPT !.status = "adjusting", !.back = b].status = "adjusting"
          BY <1>2, <3>1 DEF TaskType
    <3> QED  BY <3>1, <3>2
  <2>4. PostConsume(r, n - task[r].quota) /\ UNCHANGED <<token, faults>>
        BY <2>1 DEF Recalculate
  <2>5. /\ sub' \in [Subs -> SubType] /\ \A q \in Subs : Kept(sub'[q])
        /\ extra' \in [Requests -> ExtraType]
        BY <1>2, <1>3, <2>2, <2>4, PostConsumeKeeps
  <2> QED  BY <1>0, <1>3, <1>4, <2>3, <2>4, <2>5, Rows, OneTask
<1> QED  BY <1>1, <1>6, <1>7, <1>8, <1>9

\* The token is deleted.
LEMMA TokenKeeps ==
    ASSUME BillInv, DeleteToken
    PROVE  BillInv'
<1>0. TypeOK /\ UNCHANGED <<sub, wallet, rec, sess, task, extra, faults>>
      BY DEF BillInv, DeleteToken
<1>1. ops' \in 0 .. MaxOps
      BY <1>0, Counted DEF DeleteToken
<1>2. token' \in TokType
      BY <1>0, Rows DEF DeleteToken, TokType
<1>3. TypeOK'
      BY <1>0, <1>1, <1>2, Rows, Typed
<1> QED  BY <1>0, <1>3 DEF BillInv, Unrefunded, Recorded

-----------------------------------------------------------------------------
(* The theorems.                                                           *)

\* Nothing is reserved at the start.
LEMMA BillInvInit == Init => BillInv
<1> SUFFICES ASSUME Init PROVE BillInv
    OBVIOUS
<1>1. \A s \in Subs : /\ sub[s] = [status |-> "active", total |-> Grant[s], used |-> 0,
                                   ver |-> 0, due |-> FALSE]
                      /\ sub[s].used = 0 /\ sub[s].total \in Nat
      BY BillingAssumption DEF Init
<1>2. TypeOK
      BY <1>1, BillingAssumption DEF Init, TypeOK, NoRecord, NoTask, NoExtra
<1> QED  BY <1>2 DEF BillInv, Init, NoRecord, NoTask, Unrefunded, Recorded

\* Every step of the specification keeps the invariant.
LEMMA BillInvNext == BillInv /\ [Next]_vars => BillInv'
<1> SUFFICES ASSUME BillInv, [Next]_vars PROVE BillInv'
    OBVIOUS
<1>1. CASE UNCHANGED vars
      BY <1>1 DEF BillInv, TypeOK, vars, Unrefunded, Recorded
<1>2. CASE RequestStep
  <2>1. PICK r \in Requests :
          \/ \E n \in 1 .. MaxAmount : \E overflow \in BOOLEAN : PreConsume(r, n, overflow)
          \/ \E n \in 1 .. MaxAmount : Reserve(r, n) \/ Stream(r, n)
          \/ \E n \in 0 .. MaxAmount : SettleIntent(r, n) \/ Finish(r, n)
          \/ SettleCommit(r) \/ Retry(r) \/ StreamToken(r) \/ Refund(r) \/ Abandon(r)
        BY <1>2 DEF RequestStep
  <2> QED  BY <2>1, PreConsumeKeeps, ReserveKeeps, SettleIntentKeeps, FinishKeeps,
              SettleCommitKeeps, RetryKeeps, StreamKeeps, RefundKeeps, AbandonKeeps
<1> QED  BY <1>1, <1>2, SubKeeps, TaskKeeps, TokenKeeps DEF Next

\* For any requests, subscriptions and grants, however reservations, late settlements,
\* payments outside the ledger, resets, revocations and refunds mix, no subscription with
\* a quota left gives more than that quota (one revoked to 0 reads as unlimited and is
\* excepted), and no wallet falls below its bound.
THEOREM BillingTypeCorrect == Spec => []TypeOK
<1>1. BillInv => TypeOK
      BY DEF BillInv
<1> QED  BY <1>1, BillInvInit, BillInvNext, PTL DEF Spec

\* A step keeps the records of all requests but one.
LEMMA CostStep ==
    ASSUME BillInv, [Next]_vars, NEW r \in Requests
    PROVE  /\ rec[r].status = "settling" =>
                /\ rec'[r].status \in {"settling", "settled"}
                /\ rec'[r].actual = rec[r].actual /\ rec'[r].pre = rec[r].pre
           /\ rec[r].status \in {"settled", "refunded"} => rec'[r] = rec[r]
           /\ sess[r].tried => rec'[r].status # "refunded"
<1>0. TypeOK /\ rec \in [Requests -> RecType] /\ rec[r] \in RecType
      BY Rows DEF BillInv
<1>7. sess[r].tried => rec[r].status # "refunded"
      BY DEF BillInv, Unrefunded
<1>1. CASE UNCHANGED rec
      BY <1>0, <1>1 DEF BillInv, Unrefunded
<1>2. CASE \E q \in Requests, n \in 1 .. MaxAmount, o \in BOOLEAN : PreConsume(q, n, o)
  <2>1. PICK q \in Requests, n \in 1 .. MaxAmount, o \in BOOLEAN : PreConsume(q, n, o)
        BY <1>2
  <2>2. rec[q].status = "none"
        BY <2>1 DEF PreConsume
  <2>3. PICK s \in Candidates(n) : rec' = [rec EXCEPT ![q] =
            [status |-> "consumed", sub |-> s, pre |-> n, actual |-> 0, wallet |-> 0,
             token |-> OnToken(q, n), overflow |-> o /\ q \notin Tasks,
             ver |-> MaybeReset(sub[s]).ver]]
        BY <2>1 DEF PreConsume
  <2>4. rec'[q].status = "consumed" /\ (q # r => rec'[r] = rec[r])
        BY <1>0, <2>3
  <2> QED  BY <1>7, <2>2, <2>4
<1>3. CASE \E q \in Requests, n \in 1 .. MaxAmount : Reserve(q, n)
  <2>1. PICK q \in Requests, n \in 1 .. MaxAmount : Reserve(q, n)
        BY <1>3
  <2>2. rec[q] \in RecType /\ rec[q].status = "consumed"
        BY <1>0, <2>1 DEF Reserve
  <2>3. \E a, b : rec' = [rec EXCEPT ![q].pre = a, ![q].token = b]
        BY <2>1 DEF Reserve
  <2>4. rec'[q].status = "consumed" /\ (q # r => rec'[r] = rec[r])
        BY <1>0, <2>2, <2>3 DEF RecType
  <2> QED  BY <1>7, <2>2, <2>4
<1>4. CASE \E q \in Requests, n \in 0 .. MaxAmount : SettleIntent(q, n) /\ ~UNCHANGED rec
  <2>1. PICK q \in Requests, n \in 0 .. MaxAmount :
          /\ rec[q].status = "consumed"
          /\ rec' = [rec EXCEPT ![q].status = "settling", ![q].actual = n]
        BY <1>4 DEF SettleIntent
  <2>2. rec'[q].status = "settling" /\ (q # r => rec'[r] = rec[r])
        BY <1>0, <2>1 DEF RecType
  <2> QED  BY <1>7, <2>1, <2>2
<1>5. CASE \E q \in Requests : Commit(q)
  <2>1. PICK q \in Requests : Commit(q)
        BY <1>5
  <2>2. rec[q].status = "settling" /\ rec[q] \in RecType
        BY <1>0, <2>1 DEF Commit, CanCommit
  <2>3. \E a, b : rec' = [rec EXCEPT ![q].status = "settled", ![q].wallet = a, ![q].token = b]
        BY <2>1 DEF Commit
  <2>4. /\ rec'[q].status = "settled" /\ rec'[q].actual = rec[q].actual
        /\ rec'[q].pre = rec[q].pre /\ (q # r => rec'[r] = rec[r])
        BY <1>0, <2>2, <2>3 DEF RecType
  <2> QED  BY <1>7, <2>2, <2>4
<1>6. CASE \E q \in Requests : Refund(q)
  <2>1. PICK q \in Requests : Refund(q)
        BY <1>6
  <2>2. rec[q].status = "consumed" /\ sess[q].pc = "open"
        BY <2>1 DEF Refund
  <2>3. ~sess[q].tried
        BY <2>2 DEF BillInv
  <2>4. q # r => rec'[r] = rec[r]
        BY <1>0, <2>1 DEF Refund
  <2> QED  BY <1>7, <2>2, <2>3, <2>4
<1> QED  BY <1>1, <1>2, <1>3, <1>4, <1>5, <1>6
         DEF Next, vars, SubStep, RequestStep, TaskStep, PeriodEnds, ResetDue, AdminReset, Renew,
             RevokeQuota, Recover, EndSubscription, DeleteSubscription, ChangeSub, DeleteToken,
             SettleIntent, SettleCommit, Retry, Stream, StreamToken, Finish, Abandon,
             Recalculate, RecalculateToken, PrepareTaskRefund, ApplyTaskRefund

\* For any requests and failures, a recorded cost is collected once, is never
\* changed and never refunded by the session, retries and crashes included.
THEOREM RecordedCostIsFinal == Spec => CostIsFinal
<1>1. BillInv /\ [Next]_vars =>
        [\A r \in Requests :
          /\ rec[r].status = "settling" =>
               /\ rec'[r].status \in {"settling", "settled"}
               /\ rec'[r].actual = rec[r].actual /\ rec'[r].pre = rec[r].pre
          /\ rec[r].status \in {"settled", "refunded"} => rec'[r] = rec[r]
          /\ sess[r].tried => rec'[r].status # "refunded"]_vars
      BY CostStep
<1> QED  BY <1>1, BillInvInit, BillInvNext, PTL DEF Spec, CostIsFinal

-----------------------------------------------------------------------------
(* The books.                                                              *)

Adjusted == {"adjusting", "done"}

\* What ties a record to the grant it was reserved in, to its token, to what was taken
\* beyond it and to its task.
LinkedRow(r) ==
    /\ rec[r].status = "none" => rec[r] = NoRecord /\ extra[r] = NoExtra
    /\ rec[r].status # "settled" => rec[r].wallet = 0
    /\ rec[r].status \in {"consumed", "settling"} => rec[r].token = OnToken(r, rec[r].pre)
    /\ rec[r].status = "settled" => rec[r].wallet <= rec[r].actual
    /\ rec[r].status # "none" =>
         rec[r].ver <= sub[rec[r].sub].ver /\ extra[r].ver <= sub[rec[r].sub].ver
    /\ extra[r].amount < 0 =>
         r \in Tasks /\ task[r].back = extra[r].ver /\ task[r].status \in Adjusted
    /\ r \in Tasks =>
         /\ sess[r].pc # "closed" => task[r].status = "none"
         /\ task[r].status = "none" => task[r].back = -1
         /\ rec[r].status # "none" => task[r].back <= sub[rec[r].sub].ver

Linked == \A r \in Requests : LinkedRow(r)

\* Nothing of the current grant of s was given back to a task.
Calm(s) == \A r \in Requests : ~GivenBack(r, s)

\* The two things that can happen to a grant beside a charge.
SameGrant(s)  == sub'[s].ver = sub[s].ver /\ sub'[s].used = sub[s].used
FreshGrant(s) == sub'[s].ver = sub[s].ver + 1 /\ sub'[s].used = 0

\* Nothing but r's record and its history changes.
OnlyOf(r) == \A q \in Requests : q # r => rec'[q] = rec[q] /\ extra'[q] = extra[q]

\* Grants never get older.
GrantsAge == \A s \in Subs : sub'[s].ver >= sub[s].ver

\* A step that gives nothing back to task t.
Steady(t) == /\ task'[t].back = task[t].back
             /\ task[t].status \in Adjusted => task'[t].status \in Adjusted
             /\ sess'[t].pc # "closed" => task'[t].status = "none"
             /\ task'[t].status = "none" => task'[t].back = -1

\* The numbers of the rows.
LEMMA Numbers ==
    ASSUME BillInv
    PROVE  /\ \A s \in Subs : sub[s].used \in Nat /\ sub[s].ver \in Nat
           /\ \A r \in Requests :
                /\ rec[r].pre \in Nat /\ rec[r].actual \in Nat /\ rec[r].wallet \in Nat
                /\ rec[r].token \in Nat /\ rec[r].ver \in Nat
                /\ extra[r].ver \in Nat /\ extra[r].amount \in Int /\ extra[r].token \in Int
           /\ \A r \in Tasks : task[r].quota \in Int /\ task[r].back \in Int
           /\ token.used \in Int /\ token.remain \in Int /\ wallet \in Int
BY DEF BillInv, TypeOK

\* A charge is a number.
LEMMA ChargeIsInt ==
    ASSUME BillInv, NEW r \in Requests
    PROVE  Charge(r) \in Int /\ \A s : ChargeNow(r, s) \in Int
<1>1. /\ rec[r].pre \in Int /\ rec[r].actual \in Int /\ rec[r].wallet \in Int
      /\ extra[r].amount \in Int
      BY Numbers
<1>2. Charge(r) \in Int
      BY <1>1 DEF Charge
<1> QED  BY <1>1, <1>2 DEF ChargeNow

\* A charge is not negative: a wallet never paid more than the cost, and only a task is
\* given back more than it took beyond its reservation.
LEMMA ChargeIsNat ==
    ASSUME BillInv, NEW r \in Requests, LinkedRow(r)
    PROVE  /\ Charge(r) \in Nat
           /\ \A s \in Subs : ~GivenBack(r, s) =>
                ChargeNow(r, s) \in Nat
                /\ (rec[r].status # "none" /\ rec[r].sub = s /\ rec[r].ver = sub[s].ver
                      => ChargeNow(r, s) >= Charge(r))
<1>1. /\ rec[r].pre \in Nat /\ rec[r].actual \in Nat /\ rec[r].wallet \in Nat
      /\ extra[r].amount \in Int
      BY Numbers
<1>2. Charge(r) \in Nat
  <2>1. CASE rec[r].status \in {"consumed", "settling"}
        BY <1>1, <2>1 DEF Charge
  <2>2. CASE rec[r].status = "settled"
    <3>1. rec[r].actual - rec[r].wallet \in Nat
          BY <1>1, <2>2 DEF LinkedRow
    <3> QED  BY <2>2, <3>1 DEF Charge
  <2>3. CASE rec[r].status \notin {"consumed", "settling", "settled"}
        BY <2>3 DEF Charge
  <2> QED  BY <2>1, <2>2, <2>3
<1>3. ASSUME NEW s \in Subs, ~GivenBack(r, s), rec[r].sub = s, extra[r].ver = sub[s].ver
      PROVE  extra[r].amount \in Nat
  <2>1. ~(extra[r].amount < 0)
        BY <1>3 DEF LinkedRow, GivenBack
  <2> QED  BY <1>1, <2>1
<1>4. ASSUME NEW s \in Subs, ~GivenBack(r, s)
      PROVE  /\ ChargeNow(r, s) \in Nat
             /\ (rec[r].status # "none" /\ rec[r].sub = s /\ rec[r].ver = sub[s].ver
                      => ChargeNow(r, s) >= Charge(r))
  <2>1. CASE rec[r].status = "none" \/ rec[r].sub # s
        BY <2>1 DEF ChargeNow
  <2>2. CASE rec[r].status # "none" /\ rec[r].sub = s
    <3>1. PICK e \in Nat : e = (IF extra[r].ver = sub[s].ver THEN extra[r].amount ELSE 0)
          BY <1>3, <1>4, <2>2
    <3>2. ChargeNow(r, s) = (IF rec[r].ver = sub[s].ver THEN Charge(r) ELSE 0) + e
          BY <2>2, <3>1 DEF ChargeNow
    <3> QED  BY <1>2, <3>2
  <2> QED  BY <2>1, <2>2
<1> QED  BY <1>2, <1>4

ChargesInt == \A r \in Requests, s \in Subs : ChargeNow(r, s) \in Int

\* The same as one formula, to be used of the next state.
LEMMA ChargesAreInt == BillInv => ChargesInt
BY ChargeIsInt DEF ChargesInt

\* One request's charge is part of what is used.
LEMMA ChargeIsUsed ==
    ASSUME BillInv, Linked, NEW s \in Subs, Calm(s), sub[s].used = SumFunction(Charges(s)),
           NEW r \in Requests
    PROVE  ChargeNow(r, s) \in Nat /\ ChargeNow(r, s) <= sub[s].used
<1> DEFINE f == Charges(s)
<1>1. f \in [Requests -> Nat] /\ f[r] = ChargeNow(r, s)
      BY ChargeIsNat DEF Charges, Linked, Calm
<1> HIDE DEF f
<1>2. f[r] <= SumFunction(f)
      BY <1>1, SumBoundsEntries, BillingAssumption
<1> QED  BY <1>1, <1>2 DEF f

\* So is what it has reserved in the current grant.
LEMMA ReservedIsUsed ==
    ASSUME BillInv, Linked, NEW s \in Subs, Calm(s), sub[s].used = SumFunction(Charges(s)),
           NEW r \in Requests, rec[r].status \in {"consumed", "settling"},
           rec[r].sub = s, rec[r].ver = sub[s].ver
    PROVE  rec[r].pre <= sub[s].used
<1>1. ChargeNow(r, s) \in Nat /\ ChargeNow(r, s) <= sub[s].used
      BY ChargeIsUsed
<1>2. ChargeNow(r, s) >= Charge(r) /\ Charge(r) = rec[r].pre
      BY ChargeIsNat DEF Linked, Calm, Charge
<1>3. rec[r].pre \in Nat /\ sub[s].used \in Nat
      BY Numbers
<1> QED  BY <1>1, <1>2, <1>3

\* A grant to which nothing is given back now, and which is the same, had nothing
\* given back before.
LEMMA StaysCalm ==
    ASSUME BillInv, NEW s \in Subs, sub'[s].ver = sub[s].ver, Calm(s)',
           \A t \in Tasks : /\ task'[t].back = task[t].back
                            /\ rec'[t].sub = rec[t].sub \/ task[t].back = -1
    PROVE  Calm(s)
<1>1. sub[s].ver \in Nat
      BY Numbers
<1>2. ASSUME NEW r \in Requests, GivenBack(r, s) PROVE FALSE
  <2>1. r \in Tasks /\ rec[r].sub = s /\ task[r].back = sub[s].ver /\ task[r].back # -1
        BY <1>1, <1>2 DEF GivenBack
  <2>2. GivenBack(r, s)'
        BY <2>1 DEF GivenBack
  <2> QED  BY <2>2 DEF Calm
<1> QED  BY <1>2 DEF Calm

\* Charges of the requests that are not concerned.
LEMMA OthersCharges ==
    ASSUME BillInv, Linked, NEW q \in Requests, NEW s \in Subs,
           rec'[q] = rec[q], extra'[q] = extra[q]
    PROVE  /\ sub'[s].ver = sub[s].ver => ChargeNow(q, s)' = ChargeNow(q, s)
           /\ sub'[s].ver = sub[s].ver + 1 => ChargeNow(q, s)' = 0
<1>1. Charge(q)' = Charge(q)
      BY DEF Charge
<1>2. sub'[s].ver = sub[s].ver => ChargeNow(q, s)' = ChargeNow(q, s)
      BY <1>1 DEF ChargeNow
<1>3. ASSUME sub'[s].ver = sub[s].ver + 1 PROVE ChargeNow(q, s)' = 0
  <2>1. CASE rec[q].status = "none" \/ rec[q].sub # s
        BY <2>1 DEF ChargeNow
  <2>2. CASE rec[q].status # "none" /\ rec[q].sub = s
    <3>1. rec[q].ver <= sub[s].ver /\ extra[q].ver <= sub[s].ver
          BY <2>2 DEF Linked, LinkedRow
    <3>2. rec[q].ver # sub'[s].ver /\ extra[q].ver # sub'[s].ver
          BY <1>3, <3>1, Numbers
    <3> QED  BY <3>2 DEF ChargeNow
  <2> QED  BY <2>1, <2>2
<1> QED  BY <1>2, <1>3

\* A step that concerns one request keeps the books of a subscription when its
\* grant moves by that request's charge, or starts anew.
LEMMA UsedMoves ==
    ASSUME BillInv, Linked, BillInv', NEW r \in Requests, OnlyOf(r), NEW s \in Subs,
           \/ /\ sub[s].used = SumFunction(Charges(s))
              /\ sub'[s].ver = sub[s].ver
              /\ sub'[s].used - sub[s].used = ChargeNow(r, s)' - ChargeNow(r, s)
           \/ sub'[s].ver = sub[s].ver + 1 /\ sub'[s].used = ChargeNow(r, s)'
    PROVE  sub'[s].used = SumFunction(Charges(s)')
<1> DEFINE f == [q \in Requests |-> ChargeNow(q, s)]
           h == [q \in Requests |-> ChargeNow(q, s)']
           z == [q \in Requests |-> 0]
<1>0. Charges(s) = f /\ Charges(s)' = h
      BY DEF Charges
<1>1. /\ f \in [Requests -> Int] /\ f[r] = ChargeNow(r, s) /\ f[r] \in Int
      BY ChargeIsInt
<1>2. ASSUME NEW q \in Requests PROVE ChargeNow(q, s)' \in Int
  <2>1. (BillInv => ChargesInt)'
        BY ChargesAreInt, PTL
  <2> QED  BY <2>1 DEF ChargesInt
<1>3. h \in [Requests -> Int] /\ h[r] = ChargeNow(r, s)' /\ h[r] \in Int
      BY <1>2
<1>4. sub[s].used \in Nat /\ sub'[s].used \in Nat
  <2>1. sub'[s].used \in Nat
        BY DEF BillInv, TypeOK
  <2> QED  BY <2>1, Numbers
<1>5. CASE /\ sub[s].used = SumFunction(Charges(s))
           /\ sub'[s].ver = sub[s].ver
           /\ sub'[s].used - sub[s].used = ChargeNow(r, s)' - ChargeNow(r, s)
  <2>1. \A q \in Requests \ {r} : h[q] = f[q]
        BY <1>5, OthersCharges DEF OnlyOf
  <2> HIDE DEF f, h
  <2>2. SumFunction(h) = SumFunction(f) + h[r] - f[r]
        BY <1>1, <1>3, <2>1, SumChange, BillingAssumption
  <2> QED  BY <1>0, <1>1, <1>3, <1>4, <1>5, <2>2
<1>6. CASE sub'[s].ver = sub[s].ver + 1 /\ sub'[s].used = ChargeNow(r, s)'
  <2>1. \A q \in Requests \ {r} : h[q] = z[q]
        BY <1>6, OthersCharges DEF OnlyOf
  <2>2. z \in [Requests -> Int] /\ z[r] = 0 /\ DOMAIN z = Requests /\ \A q \in Requests : z[q] = 0
        OBVIOUS
  <2> HIDE DEF z, h
  <2>3. SumFunction(z) = 0
        BY <2>2, SumOfZeros, BillingAssumption
  <2>4. SumFunction(h) = SumFunction(z) + h[r] - z[r]
        BY <1>3, <2>1, <2>2, SumChange, BillingAssumption
  <2> QED  BY <1>0, <1>3, <1>4, <1>6, <2>2, <2>3, <2>4
<1> QED  BY <1>5, <1>6

\* What the records took from token and wallet, and what was taken of the token
\* outside the ledger.
TokenParts  == [r \in Requests |-> rec[r].token]
WalletParts == [r \in Requests |-> rec[r].wallet]
ExtraParts  == [r \in Requests |-> extra[r].token]

UsedBooks   == \A s \in Subs : Calm(s) => sub[s].used = SumFunction(Charges(s))
TokenBooks  == token.used = SumFunction(TokenParts) + SumFunction(ExtraParts)
WalletBooks == wallet + SumFunction(WalletParts) = InitialWallet

\* The property, balance by balance.
LEMMA Books ==
    BooksBalance <=> /\ UsedBooks /\ TokenBooks /\ WalletBooks
                     /\ token.remain + token.used = TokenQuota
BY DEF BooksBalance, UsedBooks, TokenBooks, WalletBooks, TokenParts, WalletParts, ExtraParts,
       Calm

\* The same of the next state.
LEMMA BooksAfter ==
    ASSUME UsedBooks', TokenBooks', WalletBooks', token'.remain + token'.used = TokenQuota
    PROVE  BooksBalance'
BY DEF BooksBalance, UsedBooks, TokenBooks, WalletBooks, TokenParts, WalletParts, ExtraParts,
       Calm

\* The parts are numbers, and so are their sums.
LEMMA PartsTyped ==
    ASSUME BillInv
    PROVE  /\ TokenParts \in [Requests -> Int] /\ SumFunction(TokenParts) \in Int
           /\ WalletParts \in [Requests -> Int] /\ SumFunction(WalletParts) \in Int
           /\ ExtraParts \in [Requests -> Int] /\ SumFunction(ExtraParts) \in Int
<1>1. /\ TokenParts \in [Requests -> Int] /\ WalletParts \in [Requests -> Int]
      /\ ExtraParts \in [Requests -> Int]
      BY Numbers DEF TokenParts, WalletParts, ExtraParts
<1>2. IsFiniteSet(Requests)
      BY BillingAssumption
<1> QED  BY <1>1, <1>2, SumInt DEF SumFunction

PartsInt == /\ TokenParts \in [Requests -> Int] /\ WalletParts \in [Requests -> Int]
            /\ ExtraParts \in [Requests -> Int]

\* The types as one formula, to be used of the next state.
LEMMA PartsAreInt == BillInv => PartsInt
BY PartsTyped DEF PartsInt

\* A step on one request keeps the books when every balance moves with it.
LEMMA RequestBooks ==
    ASSUME BillInv, BillInv', Linked, BooksBalance, NEW r \in Requests, OnlyOf(r),
           token'.used - token.used = rec'[r].token - rec[r].token
                                        + (extra'[r].token - extra[r].token),
           token'.remain + token'.used = token.remain + token.used,
           wallet' + rec'[r].wallet = wallet + rec[r].wallet,
           \A s \in Subs : Calm(s)' =>
             \/ /\ Calm(s) /\ sub'[s].ver = sub[s].ver
                /\ sub'[s].used - sub[s].used = ChargeNow(r, s)' - ChargeNow(r, s)
             \/ sub'[s].ver = sub[s].ver + 1 /\ sub'[s].used = ChargeNow(r, s)'
    PROVE  BooksBalance'
<1>0. /\ rec[r].token \in Int /\ rec[r].wallet \in Int /\ rec'[r].token \in Int
      /\ rec'[r].wallet \in Int /\ token.used \in Int /\ token'.used \in Int
      /\ wallet \in Int /\ wallet' \in Int /\ extra[r].token \in Int /\ extra'[r].token \in Int
      BY DEF BillInv, TypeOK
<1>1. PartsInt'
  <2>1. (BillInv => PartsInt)'
        BY PartsAreInt, PTL
  <2> QED  BY <2>1
<1>2. UsedBooks'
  <2>1. ASSUME NEW s \in Subs, Calm(s)' PROVE sub'[s].used = SumFunction(Charges(s)')
    <3>1. \/ /\ Calm(s) /\ sub'[s].ver = sub[s].ver
             /\ sub'[s].used - sub[s].used = ChargeNow(r, s)' - ChargeNow(r, s)
          \/ sub'[s].ver = sub[s].ver + 1 /\ sub'[s].used = ChargeNow(r, s)'
          BY <2>1
    <3>2. Calm(s) => sub[s].used = SumFunction(Charges(s))
          BY Books DEF UsedBooks
    <3> QED  BY <3>1, <3>2, UsedMoves
  <2> QED  BY <2>1 DEF UsedBooks
<1>3. TokenBooks'
  <2> DEFINE f == TokenParts
             h == [q \in Requests |-> rec'[q].token]
             g == ExtraParts
             k == [q \in Requests |-> extra'[q].token]
  <2>1. /\ f \in [Requests -> Int] /\ f[r] = rec[r].token /\ TokenParts' = h
        /\ h \in [Requests -> Int] /\ h[r] = rec'[r].token
        /\ \A q \in Requests \ {r} : h[q] = f[q]
        BY <1>1, PartsTyped DEF PartsInt, TokenParts, OnlyOf
  <2>2. /\ g \in [Requests -> Int] /\ g[r] = extra[r].token /\ ExtraParts' = k
        /\ k \in [Requests -> Int] /\ k[r] = extra'[r].token
        /\ \A q \in Requests \ {r} : k[q] = g[q]
        BY <1>1, PartsTyped DEF PartsInt, ExtraParts, OnlyOf
  <2> HIDE DEF f, h, g, k
  <2>3. SumFunction(h) = SumFunction(f) + h[r] - f[r]
        BY <2>1, SumChange, BillingAssumption
  <2>4. SumFunction(k) = SumFunction(g) + k[r] - g[r]
        BY <2>2, SumChange, BillingAssumption
  <2>5. SumFunction(f) \in Int /\ SumFunction(g) \in Int
        /\ token.used = SumFunction(f) + SumFunction(g)
        BY PartsTyped, Books DEF f, g, TokenBooks
  <2>6. token'.used = SumFunction(h) + SumFunction(k)
    <3> DEFINE n == rec'[r].token - rec[r].token
               m == extra'[r].token - extra[r].token
    <3>1. n \in Int /\ SumFunction(h) = SumFunction(f) + n
          BY <1>0, <2>1, <2>3, <2>5
    <3>2. m \in Int /\ SumFunction(k) = SumFunction(g) + m
          BY <1>0, <2>2, <2>4, <2>5
    <3>3. token'.used = token.used + n + m
          BY <1>0
    <3> HIDE DEF n, m
    <3>4. SumFunction(h) + SumFunction(k) = (SumFunction(f) + SumFunction(g)) + n + m
          BY <2>5, <3>1, <3>2
    <3> QED  BY <2>5, <3>3, <3>4
  <2> QED  BY <2>1, <2>2, <2>6 DEF TokenBooks
<1>4. WalletBooks'
  <2> DEFINE f == WalletParts
             h == [q \in Requests |-> rec'[q].wallet]
  <2>1. /\ f \in [Requests -> Int] /\ f[r] = rec[r].wallet /\ WalletParts' = h
        /\ h \in [Requests -> Int] /\ h[r] = rec'[r].wallet
        /\ \A q \in Requests \ {r} : h[q] = f[q]
        BY <1>1, PartsTyped DEF PartsInt, WalletParts, OnlyOf
  <2> HIDE DEF f, h
  <2>3. SumFunction(h) = SumFunction(f) + h[r] - f[r]
        BY <2>1, SumChange, BillingAssumption
  <2>4. SumFunction(f) \in Int /\ wallet + SumFunction(f) = InitialWallet
        BY PartsTyped, Books DEF f, WalletBooks
  <2>5. SumFunction(h) = SumFunction(f) + rec'[r].wallet - rec[r].wallet
        BY <2>1, <2>3
  <2>6. wallet' + SumFunction(h) = InitialWallet
        BY <1>0, <2>4, <2>5, BillingAssumption
  <2> QED  BY <2>1, <2>6 DEF WalletBooks
<1> QED  BY <1>2, <1>3, <1>4, Books, BooksAfter

\* A step that leaves the records alone.
LEMMA QuietBooks ==
    ASSUME BillInv, Linked, BooksBalance, UNCHANGED <<rec, extra, wallet>>,
           token'.used = token.used, token'.remain = token.remain,
           \A t \in Tasks : task'[t].back = task[t].back,
           \A s \in Subs : SameGrant(s) \/ FreshGrant(s)
    PROVE  BooksBalance'
<1>1. TokenParts' = TokenParts /\ WalletParts' = WalletParts /\ ExtraParts' = ExtraParts
      BY DEF TokenParts, WalletParts, ExtraParts
<1>2. TokenBooks' /\ WalletBooks'
      BY <1>1, Books DEF TokenBooks, WalletBooks
<1>3. ASSUME NEW s \in Subs, Calm(s)'
      PROVE  sub'[s].used = SumFunction(Charges(s)')
  <2>1. CASE SameGrant(s)
    <3>1. Charges(s)' = Charges(s)
          BY <2>1, OthersCharges DEF SameGrant, Charges
    <3>2. Calm(s)
          BY <1>3, <2>1, StaysCalm DEF SameGrant
    <3> QED  BY <2>1, <3>1, <3>2, Books DEF SameGrant, UsedBooks
  <2>2. CASE FreshGrant(s)
    <3> DEFINE h == [q \in Requests |-> ChargeNow(q, s)']
    <3>1. Charges(s)' = h /\ DOMAIN h = Requests /\ \A q \in Requests : h[q] = 0
          BY <2>2, OthersCharges DEF FreshGrant, Charges
    <3> HIDE DEF h
    <3>2. SumFunction(h) = 0
          BY <3>1, SumOfZeros, BillingAssumption
    <3> QED  BY <2>2, <3>1, <3>2 DEF FreshGrant
  <2> QED  BY <2>1, <2>2
<1>4. UsedBooks'
      BY <1>3 DEF UsedBooks
<1> QED  BY <1>2, <1>4, Books, BooksAfter

-----------------------------------------------------------------------------
\* What a token debit does.
LEMMA DebitEffect ==
    ASSUME BillInv, NEW r \in Requests, NEW n \in Int, token' = Debited(r, n)
    PROVE  /\ OnToken(r, n) \in Int
           /\ token'.used = token.used + OnToken(r, n)
           /\ token'.remain = token.remain - OnToken(r, n)
           /\ token'.remain + token'.used = token.remain + token.used
<1>1. token.used \in Int /\ token.remain \in Int /\ token \in TokType
      BY Rows DEF BillInv, TokType
<1>2. CASE r \in Internal
      BY <1>1, <1>2 DEF Debited, OnToken
<1>3. CASE r \notin Internal
  <2>1. token'.used = token.used + n /\ token'.remain = token.remain - n
        BY <1>1, <1>3 DEF Debited, TokType
  <2> QED  BY <1>1, <1>3, <2>1 DEF OnToken
<1> QED  BY <1>2, <1>3

\* A row whose record is left alone stays linked while grants age.
LEMMA RowStays ==
    ASSUME BillInv, BillInv', NEW q \in Requests, LinkedRow(q), GrantsAge,
           rec'[q] = rec[q], extra'[q] = extra[q], q \in Tasks => Steady(q)
    PROVE  LinkedRow(q)'
<1>1. ASSUME rec[q].status # "none", NEW v \in Int, v <= sub[rec[q].sub].ver
      PROVE  v <= sub'[rec[q].sub].ver
  <2>1. rec[q].sub \in Subs
        BY <1>1 DEF BillInv
  <2>2. sub[rec[q].sub].ver \in Nat /\ sub'[rec[q].sub].ver \in Nat
        BY <2>1 DEF BillInv, TypeOK
  <2>3. sub'[rec[q].sub].ver >= sub[rec[q].sub].ver
        BY <2>1 DEF GrantsAge
  <2> QED  BY <1>1, <2>2, <2>3
<1>2. rec[q].ver \in Int /\ extra[q].ver \in Int /\ (q \in Tasks => task[q].back \in Int)
      BY Numbers
<1>3. rec'[q].status # "none" =>
         rec'[q].ver <= sub'[rec'[q].sub].ver /\ extra'[q].ver <= sub'[rec'[q].sub].ver
      BY <1>1, <1>2 DEF LinkedRow
<1>4. q \in Tasks /\ rec'[q].status # "none" => task'[q].back <= sub'[rec'[q].sub].ver
      BY <1>1, <1>2 DEF LinkedRow, Steady
<1> QED  BY <1>3, <1>4 DEF LinkedRow, OnToken, Steady

BooksInv == BillInv /\ Linked /\ BooksBalance

\* A new grant is one version newer and unused.
LEMMA FreshRow ==
    ASSUME NEW x \in SubType
    PROVE  /\ NewGrant(x) \in SubType
           /\ NewGrant(x).ver = x.ver + 1 /\ NewGrant(x).used = 0
           /\ \/ MaybeReset(x).ver = x.ver /\ MaybeReset(x).used = x.used
              \/ MaybeReset(x).ver = x.ver + 1 /\ MaybeReset(x).used = 0
<1>1. NewGrant(x).ver = x.ver + 1
      BY DEF NewGrant, SubType
<1> QED  BY <1>1, Reset DEF MaybeReset

\* A row whose grant is kept or renewed.
LEMMA GrantEffect ==
    ASSUME BillInv, NEW s \in Subs, NEW x, ChangeSub(s, x),
           \/ x.ver = sub[s].ver /\ x.used = sub[s].used
           \/ x.ver = sub[s].ver + 1 /\ x.used = 0
    PROVE  \A q \in Subs : SameGrant(q) \/ FreshGrant(q)
<1>1. \A q \in Subs : sub'[q] = IF q = s THEN x ELSE sub[q]
      BY Rows DEF ChangeSub, BillInv
<1> QED  BY <1>1 DEF SameGrant, FreshGrant

\* Whatever happens to a subscription either keeps its grant or starts a new one.
LEMMA SubEffect ==
    ASSUME BillInv, SubStep
    PROVE  /\ UNCHANGED <<token, wallet, rec, sess, task, extra>>
           /\ \A q \in Subs : SameGrant(q) \/ FreshGrant(q)
<1>1. PICK s \in Subs : PeriodEnds(s) \/ ResetDue(s) \/ AdminReset(s) \/ Renew(s)
                          \/ RevokeQuota(s) \/ Recover(s) \/ EndSubscription(s)
                          \/ DeleteSubscription(s)
      BY DEF SubStep
<1>a. UNCHANGED <<token, wallet, rec, sess, task, extra>>
      BY <1>1 DEF PeriodEnds, ResetDue, AdminReset, Renew, RevokeQuota, Recover,
           EndSubscription, DeleteSubscription, ChangeSub
<1>b. SUFFICES \A q \in Subs : SameGrant(q) \/ FreshGrant(q)
      BY <1>a
<1>2. sub[s] \in SubType
      BY Rows DEF BillInv
<1>3. /\ NewGrant(sub[s]) \in SubType
      /\ NewGrant(sub[s]).ver = sub[s].ver + 1 /\ NewGrant(sub[s]).used = 0
      BY <1>2, FreshRow
<1>4. CASE PeriodEnds(s)
  <2>1. [sub[s] EXCEPT !.due = TRUE].ver = sub[s].ver /\ [sub[s] EXCEPT !.due = TRUE].used = sub[s].used
        BY <1>2 DEF SubType
  <2> QED  BY <1>4, <2>1, GrantEffect DEF PeriodEnds
<1>5. CASE ResetDue(s)
      BY <1>3, <1>5, GrantEffect DEF ResetDue
<1>6. CASE AdminReset(s)
  <2>1. PICK moved \in BOOLEAN :
            ChangeSub(s, [NewGrant(sub[s]) EXCEPT !.due = ~moved /\ sub[s].due])
        BY <1>6 DEF AdminReset
  <2>2. \A b : /\ [NewGrant(sub[s]) EXCEPT !.due = b].ver = NewGrant(sub[s]).ver
               /\ [NewGrant(sub[s]) EXCEPT !.due = b].used = NewGrant(sub[s]).used
        BY <1>3 DEF SubType
  <2> QED  BY <1>3, <2>1, <2>2, GrantEffect
<1>7. CASE Renew(s)
  <2>1. \A g : /\ [NewGrant(sub[s]) EXCEPT !.status = "active", !.total = g].ver
                    = NewGrant(sub[s]).ver
               /\ [NewGrant(sub[s]) EXCEPT !.status = "active", !.total = g].used
                    = NewGrant(sub[s]).used
        BY <1>3 DEF SubType
  <2>2. \E g : ChangeSub(s, [NewGrant(sub[s]) EXCEPT !.status = "active", !.total = g])
        BY <1>3, <1>7 DEF Renew, SubType
  <2> QED  BY <1>3, <2>1, <2>2, GrantEffect
<1>8. CASE RevokeQuota(s)
  <2>1. PICK n \in sub[s].used .. sub[s].total - 1 : \E cleared \in BOOLEAN :
           ChangeSub(s, IF n > sub[s].used THEN [sub[s] EXCEPT !.total = n]
                        ELSE [sub[s] EXCEPT !.total = n, !.status = "ended",
                                            !.due = @ /\ ~cleared])
        BY <1>8 DEF RevokeQuota
  <2>2. PICK cleared \in BOOLEAN :
           ChangeSub(s, IF n > sub[s].used THEN [sub[s] EXCEPT !.total = n]
                        ELSE [sub[s] EXCEPT !.total = n, !.status = "ended",
                                            !.due = @ /\ ~cleared])
        BY <2>1
  <2>3. \A b : /\ [sub[s] EXCEPT !.total = n, !.status = "ended", !.due = b].ver = sub[s].ver
               /\ [sub[s] EXCEPT !.total = n, !.status = "ended", !.due = b].used = sub[s].used
        BY <1>2 DEF SubType
  <2>4. [sub[s] EXCEPT !.total = n].ver = sub[s].ver /\ [sub[s] EXCEPT !.total = n].used = sub[s].used
        BY <1>2 DEF SubType
  <2>5. CASE n > sub[s].used
        BY <2>2, <2>4, <2>5, GrantEffect
  <2>6. CASE ~(n > sub[s].used)
        BY <2>2, <2>3, <2>6, GrantEffect
  <2> QED  BY <2>5, <2>6
<1>9. CASE Recover(s) \/ EndSubscription(s) \/ DeleteSubscription(s)
  <2>1. \E st : ChangeSub(s, [sub[s] EXCEPT !.status = st])
        BY <1>9 DEF Recover, EndSubscription, DeleteSubscription
  <2>2. \A st : /\ [sub[s] EXCEPT !.status = st].ver = sub[s].ver
                /\ [sub[s] EXCEPT !.status = st].used = sub[s].used
        BY <1>2 DEF SubType
  <2> QED  BY <2>1, <2>2, GrantEffect
<1> QED  BY <1>1, <1>4, <1>5, <1>6, <1>7, <1>8, <1>9

\* Kept and fresh grants do not get older.
LEMMA GrantsGrow ==
    ASSUME BillInv, \A s \in Subs : SameGrant(s) \/ FreshGrant(s)
    PROVE  GrantsAge
BY Numbers DEF GrantsAge, SameGrant, FreshGrant

\* A task that is left alone, with its session or when that closes.
LEMMA StaysSteady ==
    ASSUME NEW t \in Requests, LinkedRow(t), t \in Tasks, task'[t] = task[t],
           sess'[t].pc # "closed" => sess[t].pc # "closed"
    PROVE  Steady(t)
BY DEF LinkedRow, Steady

\* A step that changes neither records nor charges, while grants are kept or start anew.
LEMMA CalmBooks ==
    ASSUME BooksInv, BillInv', UNCHANGED <<wallet, rec, extra>>,
           token'.used = token.used, token'.remain = token.remain,
           \A t \in Tasks : Steady(t), \A s \in Subs : SameGrant(s) \/ FreshGrant(s)
    PROVE  Linked' /\ BooksBalance'
<1>1. BillInv /\ Linked /\ BooksBalance
      BY DEF BooksInv
<1>2. GrantsAge
      BY <1>1, GrantsGrow
<1>3. BooksBalance'
      BY <1>1, QuietBooks DEF Steady
<1>4. ASSUME NEW q \in Requests PROVE LinkedRow(q)'
  <2>1. LinkedRow(q)
        BY <1>1 DEF Linked
  <2> QED  BY <1>1, <1>2, <2>1, RowStays
<1> QED  BY <1>3, <1>4 DEF Linked

\* The life of a subscription keeps the books: a new grant starts with no charges.
LEMMA SubBooks ==
    ASSUME BooksInv, BillInv', SubStep
    PROVE  Linked' /\ BooksBalance'
<1>1. BillInv /\ Linked
      BY DEF BooksInv
<1>2. /\ UNCHANGED <<token, wallet, rec, sess, task, extra>>
      /\ \A q \in Subs : SameGrant(q) \/ FreshGrant(q)
      BY <1>1, SubEffect
<1>3. \A t \in Tasks : Steady(t)
      BY <1>1, <1>2, StaysSteady, BillingAssumption DEF Linked
<1> QED  BY <1>2, <1>3, CalmBooks

\* A step on one request keeps the other rows linked.
LEMMA OthersLinked ==
    ASSUME BillInv, BillInv', Linked, NEW r \in Requests, OnlyOf(r), GrantsAge,
           \A q \in Requests : q # r => sess'[q] = sess[q],
           \A q \in Tasks : q # r => task'[q] = task[q],
           LinkedRow(r)'
    PROVE  Linked'
<1>2. ASSUME NEW q \in Requests, q # r PROVE LinkedRow(q)'
  <2>1. LinkedRow(q) /\ rec'[q] = rec[q] /\ extra'[q] = extra[q] /\ sess'[q] = sess[q]
        BY <1>2 DEF Linked, OnlyOf
  <2>2. q \in Tasks => Steady(q)
        BY <1>2, <2>1, StaysSteady
  <2> QED  BY <2>1, <2>2, RowStays
<1> QED  BY <1>2 DEF Linked

\* A reservation is charged to the grant it was made in.
LEMMA PreConsumeBooks ==
    ASSUME BooksInv, BillInv', NEW r \in Requests, NEW n \in 1 .. MaxAmount, NEW o \in BOOLEAN,
           PreConsume(r, n, o)
    PROVE  Linked' /\ BooksBalance'
<1>n. n \in Nat /\ n > 0
      BY BillingAssumption
<1>0. /\ BillInv /\ Linked /\ BooksBalance /\ TypeOK /\ sub' \in [Subs -> SubType]
      /\ rec[r].status = "none" /\ sess[r].pc = "none"
      BY DEF BooksInv, BillInv, TypeOK, SubType, PreConsume
<1>1. PICK s \in Subs :
         /\ sub' = [q \in Subs |->
                      IF q = s THEN [MaybeReset(sub[s]) EXCEPT !.used = @ + n]
                      ELSE IF q < s /\ sub[q].status = "active" THEN MaybeReset(sub[q])
                      ELSE sub[q]]
         /\ rec' = [rec EXCEPT ![r] =
                      [status |-> "consumed", sub |-> s, pre |-> n, actual |-> 0, wallet |-> 0,
                       token |-> OnToken(r, n), overflow |-> o /\ r \notin Tasks,
                       ver |-> MaybeReset(sub[s]).ver]]
      BY DEF PreConsume, Candidates
<1>2. /\ rec'[r].status = "consumed" /\ rec'[r].sub = s /\ rec'[r].pre = n
      /\ rec'[r].wallet = 0 /\ rec'[r].token = OnToken(r, n)
      /\ rec'[r].ver = MaybeReset(sub[s]).ver
      /\ \A q \in Requests : q # r => rec'[q] = rec[q]
      BY <1>0, <1>1, Rows
<1>3. UNCHANGED <<wallet, task, extra>> /\ OnlyOf(r)
      BY <1>2 DEF PreConsume, OnlyOf
<1>4. /\ \A q \in Requests : q # r => sess'[q] = sess[q]
      BY <1>0, Rows DEF PreConsume
<1>5. /\ rec[r] = NoRecord /\ extra[r] = NoExtra /\ rec[r].token = 0 /\ rec[r].wallet = 0
      /\ extra[r].amount = 0 /\ extra[r].ver = 0 /\ extra[r].token = 0
      /\ (r \in Tasks => task[r].status = "none" /\ task[r].back = -1)
      BY <1>0 DEF Linked, LinkedRow, NoRecord, NoExtra
<1>6. ASSUME NEW q \in Subs, q # s PROVE SameGrant(q) \/ FreshGrant(q)
  <2>1. sub[q] \in SubType
        BY <1>0, Rows
  <2>2. sub'[q] = MaybeReset(sub[q]) \/ sub'[q] = sub[q]
        BY <1>1, <1>6
  <2> QED  BY <2>1, <2>2, FreshRow DEF SameGrant, FreshGrant
<1>7. /\ sub'[s].ver = rec'[r].ver
      /\ \/ sub'[s].ver = sub[s].ver /\ sub'[s].used = sub[s].used + n
         \/ sub'[s].ver = sub[s].ver + 1 /\ sub'[s].used = n
  <2> DEFINE x == MaybeReset(sub[s])
  <2>1. x \in SubType
        BY <1>0, Rows, Reset
  <2>2. \/ x.ver = sub[s].ver /\ x.used = sub[s].used
        \/ x.ver = sub[s].ver + 1 /\ x.used = 0
        BY <1>0, Rows, FreshRow
  <2>3. sub'[s] = [x EXCEPT !.used = x.used + n] /\ rec'[r].ver = x.ver
        BY <1>1, <1>2
  <2> HIDE DEF x
  <2>4. sub'[s].used = x.used + n /\ sub'[s].ver = x.ver
        BY <2>1, <2>3 DEF SubType
  <2> QED  BY <1>n, <2>2, <2>3, <2>4
<1>8. /\ \A q \in Subs : ChargeNow(r, q) = 0
      /\ \A q \in Subs : ChargeNow(r, q)' = IF q = s THEN n ELSE 0
  <2>1. \A q \in Subs : ChargeNow(r, q) = 0
        BY <1>0 DEF ChargeNow
  <2>2. Charge(r)' = n
        BY <1>2 DEF Charge
  <2>3. extra'[r].amount = 0
        BY <1>3, <1>5
  <2> QED  BY <1>n, <1>2, <1>7, <2>1, <2>2, <2>3 DEF ChargeNow
<1>9. GrantsAge
  <2>1. \A q \in Subs : sub[q].ver \in Nat
        BY <1>0, Numbers
  <2>2. ASSUME NEW q \in Subs PROVE sub'[q].ver >= sub[q].ver
        BY <1>6, <1>7, <2>1 DEF SameGrant, FreshGrant
  <2> QED  BY <2>2 DEF GrantsAge
<1>10. LinkedRow(r)'
  <2>1. sub'[s].ver \in Nat /\ 0 <= sub'[s].ver /\ -1 <= sub'[s].ver
        BY <1>0 DEF SubType
  <2>2. task' = task /\ extra'[r].ver = 0 /\ extra'[r].amount = 0
        BY <1>3, <1>5
  <2> QED  BY <1>2, <1>3, <1>5, <1>7, <2>1, <2>2 DEF LinkedRow, OnToken
<1>12. Linked'
      BY <1>0, <1>3, <1>4, <1>9, <1>10, OthersLinked
<1>13. /\ token'.used - token.used = rec'[r].token - rec[r].token
                                       + (extra'[r].token - extra[r].token)
       /\ token'.remain + token'.used = token.remain + token.used
  <2>1. token' = Debited(r, n) /\ n \in Int
        BY <1>n DEF PreConsume
  <2>2. /\ OnToken(r, n) \in Int /\ token'.used = token.used + OnToken(r, n)
        /\ token'.remain + token'.used = token.remain + token.used /\ token.used \in Int
        BY <1>0, <2>1, DebitEffect, Numbers
  <2> QED  BY <1>2, <1>3, <1>5, <2>2
<1>14. ASSUME NEW q \in Subs, Calm(q)'
       PROVE \/ /\ Calm(q) /\ sub'[q].ver = sub[q].ver
                /\ sub'[q].used - sub[q].used = ChargeNow(r, q)' - ChargeNow(r, q)
             \/ sub'[q].ver = sub[q].ver + 1 /\ sub'[q].used = ChargeNow(r, q)'
  <2>1. sub[q].used \in Nat
        BY <1>0, Numbers
  <2>2. \/ /\ sub'[q].ver = sub[q].ver
           /\ sub'[q].used - sub[q].used = ChargeNow(r, q)' - ChargeNow(r, q)
        \/ sub'[q].ver = sub[q].ver + 1 /\ sub'[q].used = ChargeNow(r, q)'
        BY <1>n, <1>6, <1>7, <1>8, <2>1 DEF SameGrant, FreshGrant
  <2>3. \A t \in Tasks : /\ task'[t].back = task[t].back
                         /\ rec'[t].sub = rec[t].sub \/ task[t].back = -1
        BY <1>2, <1>3, <1>5, BillingAssumption
  <2>4. sub'[q].ver = sub[q].ver => Calm(q)
        BY <1>0, <1>14, <2>3, StaysCalm
  <2> QED  BY <2>2, <2>4
<1>15. wallet' + rec'[r].wallet = wallet + rec[r].wallet
      BY <1>2, <1>3, <1>5
<1> QED  BY <1>0, <1>3, <1>12, <1>13, <1>14, <1>15, RequestBooks

\* A step that changes what is used of one grant.
LEMMA OneGrant ==
    ASSUME BillInv, NEW s \in Subs, NEW k, sub' = [sub EXCEPT ![s] = [sub[s] EXCEPT !.used = k]]
    PROVE  /\ GrantsAge
           /\ \A q \in Subs : /\ sub'[q].ver = sub[q].ver
                              /\ q = s => sub'[q].used = k
                              /\ q # s => sub'[q].used = sub[q].used
<1>1. sub \in [Subs -> SubType] /\ sub[s] \in SubType
      BY Rows DEF BillInv
<1>2. [sub[s] EXCEPT !.used = k].ver = sub[s].ver /\ [sub[s] EXCEPT !.used = k].used = k
      BY <1>1 DEF SubType
<1>3. \A q \in Subs : /\ sub'[q].ver = sub[q].ver
                      /\ q = s => sub'[q].used = k
                      /\ q # s => sub'[q].used = sub[q].used
      BY <1>1, <1>2
<1>4. \A q \in Subs : sub[q].ver \in Nat
      BY Numbers
<1> QED  BY <1>3, <1>4 DEF GrantsAge

\* More is reserved in the grant, the token and the record alike.
LEMMA ReserveBooks ==
    ASSUME BooksInv, BillInv', NEW r \in Requests, NEW n \in 1 .. MaxAmount, Reserve(r, n)
    PROVE  Linked' /\ BooksBalance'
<1> DEFINE s == rec[r].sub
           d == n - rec[r].pre
<1>0. /\ BillInv /\ Linked /\ BooksBalance /\ TypeOK /\ rec[r].status = "consumed"
      /\ s \in Subs /\ sub[s].ver = rec[r].ver /\ UNCHANGED <<wallet, sess, task, extra>>
      BY DEF BooksInv, BillInv, Reserve
<1>1. n \in Nat /\ rec[r].pre \in Nat /\ d \in Int /\ sub[s].used \in Nat
      BY <1>0, BillingAssumption, Numbers
<1>2. /\ sub' = [sub EXCEPT ![s] = [sub[s] EXCEPT !.used = sub[s].used + d]]
      /\ rec' = [rec EXCEPT ![r] = [rec[r] EXCEPT !.pre = n, !.token = @ + OnToken(r, d)]]
      /\ token' = Debited(r, d)
      BY DEF Reserve
<1> HIDE DEF s, d
<1>3. /\ GrantsAge
      /\ \A q \in Subs : /\ sub'[q].ver = sub[q].ver
                         /\ sub'[q].used = IF q = s THEN sub[s].used + d ELSE sub[q].used
  <2>1. PICK x, k : /\ x \in Subs /\ x = s /\ k = sub[s].used + d
                    /\ sub' = [sub EXCEPT ![x] = [sub[x] EXCEPT !.used = k]]
        BY <1>0, <1>2
  <2>2. /\ GrantsAge
        /\ \A q \in Subs : /\ sub'[q].ver = sub[q].ver
                           /\ q = x => sub'[q].used = k
                           /\ q # x => sub'[q].used = sub[q].used
    <3>1. BillInv
          BY <1>0
    <3>2. x \in Subs /\ sub' = [sub EXCEPT ![x] = [sub[x] EXCEPT !.used = k]]
          BY <2>1
    <3> QED  BY <3>1, <3>2, OneGrant
  <2> QED  BY <2>1, <2>2
<1>4. /\ rec'[r].pre = n /\ rec'[r].token = rec[r].token + OnToken(r, d)
      /\ rec'[r].status = "consumed" /\ rec'[r].wallet = rec[r].wallet
      /\ rec'[r].ver = rec[r].ver /\ rec'[r].sub = s /\ OnlyOf(r)
      BY <1>0, <1>2, Rows DEF RecType, OnlyOf, s
<1>5. /\ LinkedRow(r) /\ rec[r].token = OnToken(r, rec[r].pre)
      BY <1>0 DEF Linked, LinkedRow
<1>6. LinkedRow(r)'
  <2>1. rec'[r].token = OnToken(r, n)
        BY <1>1, <1>4, <1>5 DEF OnToken, d
  <2> QED  BY <1>0, <1>3, <1>4, <1>5, <2>1 DEF LinkedRow, OnToken, s
<1>7. Linked'
      BY <1>0, <1>3, <1>4, <1>6, OthersLinked
<1>8. \A q \in Subs : ChargeNow(r, q)' - ChargeNow(r, q) = IF q = s THEN d ELSE 0
  <2>1. ASSUME NEW q \in Subs, q # s PROVE ChargeNow(r, q)' = 0 /\ ChargeNow(r, q) = 0
        BY <1>4, <2>1 DEF ChargeNow, s
  <2>2. ASSUME NEW q \in Subs, q = s PROVE ChargeNow(r, q)' - ChargeNow(r, q) = d
    <3>1. Charge(r)' = n /\ Charge(r) = rec[r].pre
          BY <1>0, <1>4 DEF Charge
    <3>2. PICK e \in Int : e = IF extra[r].ver = sub[q].ver THEN extra[r].amount ELSE 0
          BY <1>0, Numbers
    <3>3. ChargeNow(r, q) = rec[r].pre + e /\ ChargeNow(r, q)' = n + e
          BY <1>0, <1>3, <1>4, <2>2, <3>1, <3>2 DEF ChargeNow, s
    <3>4. d = n - rec[r].pre
          BY DEF d
    <3> QED  BY <1>1, <3>2, <3>3, <3>4
  <2> QED  BY <2>1, <2>2
<1>9. /\ token'.used - token.used = rec'[r].token - rec[r].token
                                      + (extra'[r].token - extra[r].token)
      /\ token'.remain + token'.used = token.remain + token.used
  <2>1. /\ OnToken(r, d) \in Int /\ token'.used = token.used + OnToken(r, d)
        /\ token'.remain + token'.used = token.remain + token.used
        /\ token.used \in Int /\ rec[r].token \in Int /\ extra[r].token \in Int
        BY <1>0, <1>1, <1>2, DebitEffect, Numbers
  <2> QED  BY <1>0, <1>4, <2>1
<1>10. ASSUME NEW q \in Subs, Calm(q)'
       PROVE  /\ Calm(q) /\ sub'[q].ver = sub[q].ver
              /\ sub'[q].used - sub[q].used = ChargeNow(r, q)' - ChargeNow(r, q)
  <2>1. \A p \in Subs : sub[p].used \in Nat
        BY <1>0, Numbers
  <2>2. \A t \in Tasks : task'[t].back = task[t].back /\ rec'[t].sub = rec[t].sub
        BY <1>0, <1>4, BillingAssumption DEF OnlyOf, s
  <2>3. Calm(q)
        BY <1>0, <1>3, <1>10, <2>2, StaysCalm
  <2> QED  BY <1>0, <1>1, <1>3, <1>8, <2>1, <2>3
<1>11. wallet' + rec'[r].wallet = wallet + rec[r].wallet
      BY <1>0, <1>4
<1> QED  BY <1>0, <1>3, <1>4, <1>7, <1>9, <1>10, <1>11, RequestBooks

\* Recording the cost charges nothing yet.
LEMMA SettleIntentBooks ==
    ASSUME BooksInv, BillInv', NEW r \in Requests, NEW n \in 0 .. MaxAmount, SettleIntent(r, n)
    PROVE  Linked' /\ BooksBalance'
<1>0. /\ BillInv /\ Linked /\ BooksBalance /\ TypeOK /\ sess[r].pc = "open"
      /\ UNCHANGED <<sub, token, wallet, task, extra>>
      BY DEF BooksInv, BillInv, SettleIntent
<1>1. \A q \in Requests : q # r => sess'[q] = sess[q]
      BY <1>0, Rows DEF SettleIntent
<1>2. LinkedRow(r)
      BY <1>0 DEF Linked
<1>3. CASE UNCHANGED rec
  <2>1. ASSUME NEW t \in Tasks PROVE Steady(t)
    <3>1. t \in Requests /\ LinkedRow(t) /\ (t # r => sess'[t] = sess[t])
          BY <1>0, <1>1, BillingAssumption DEF Linked
    <3> QED  BY <1>0, <3>1, StaysSteady
  <2> QED  BY <1>0, <1>3, <2>1, CalmBooks DEF SameGrant
<1>4. CASE rec[r].status = "consumed" /\ rec' = [rec EXCEPT ![r].status = "settling", ![r].actual = n]
  <2>1. /\ rec'[r].status = "settling" /\ rec'[r].pre = rec[r].pre
        /\ rec'[r].token = rec[r].token /\ rec'[r].wallet = rec[r].wallet
        /\ rec'[r].ver = rec[r].ver /\ rec'[r].sub = rec[r].sub /\ OnlyOf(r)
        BY <1>0, <1>4, Rows DEF RecType, OnlyOf
  <2>2. LinkedRow(r)'
        BY <1>0, <1>2, <1>4, <2>1 DEF LinkedRow, OnToken
  <2>3. GrantsAge
        BY <1>0, Numbers DEF GrantsAge
  <2>4. Linked'
        BY <1>0, <1>1, <2>1, <2>2, <2>3, OthersLinked
  <2>5. \A q \in Subs : ChargeNow(r, q)' = ChargeNow(r, q)
        BY <1>0, <1>4, <2>1 DEF ChargeNow, Charge
  <2>6. ASSUME NEW q \in Subs, Calm(q)'
        PROVE  /\ Calm(q) /\ sub'[q].ver = sub[q].ver
               /\ sub'[q].used - sub[q].used = ChargeNow(r, q)' - ChargeNow(r, q)
    <3>1. sub[q].used \in Nat /\ ChargeNow(r, q) \in Int
          BY <1>0, Numbers, ChargeIsInt
    <3>2. \A t \in Tasks : task'[t].back = task[t].back /\ rec'[t].sub = rec[t].sub
          BY <1>0, <2>1, BillingAssumption DEF OnlyOf
    <3>3. Calm(q)
          BY <1>0, <2>6, <3>2, StaysCalm
    <3> QED  BY <1>0, <2>5, <3>1, <3>3
  <2>7. token.used \in Int /\ rec[r].token \in Int /\ extra[r].token \in Int
        BY <1>0, Numbers
  <2> QED  BY <1>0, <2>1, <2>4, <2>6, <2>7, RequestBooks
<1> QED  BY <1>3, <1>4 DEF SettleIntent

\* What a settlement moves: the wallet pays no more than the cost, and the grant gives
\* back no more than was reserved.
LEMMA SettlementAmounts ==
    ASSUME BillInv, NEW r \in Requests, rec[r].status = "settling"
    PROVE  /\ Excess(r) \in Nat /\ Excess(r) <= rec[r].actual
           /\ Taken(r) \in Int /\ Taken(r) + rec[r].pre >= 0
           /\ sub[rec[r].sub].ver = rec[r].ver =>
                Taken(r) + rec[r].pre = rec[r].actual - Excess(r)
           /\ sub[rec[r].sub].ver # rec[r].ver => Taken(r) \in Nat
<1> DEFINE x == sub[rec[r].sub]
<1>1. x \in SubType /\ rec[r] \in RecType
      BY Rows DEF BillInv
<1>2. x.total \in Nat /\ x.used \in Nat /\ rec[r].actual \in Nat /\ rec[r].pre \in Nat
      BY <1>1 DEF SubType, RecType
<1>3. Owing(r) = rec[r].actual - rec[r].pre
      BY DEF Owing
<1>4. Excess(r) = IF x.total > 0 THEN AtLeast0(Owing(r) - AtLeast0(x.total - x.used)) ELSE 0
      BY DEF Excess
<1>5. Taken(r) = IF Owing(r) - Excess(r) < 0 /\ x.ver # rec[r].ver THEN 0
                 ELSE Owing(r) - Excess(r)
      BY DEF Taken
<1> HIDE DEF x
<1>6. Excess(r) \in Nat /\ Excess(r) <= rec[r].actual /\ Owing(r) - Excess(r) + rec[r].pre >= 0
      BY <1>2, <1>3, <1>4 DEF AtLeast0
<1>7. /\ Taken(r) \in Int /\ Taken(r) + rec[r].pre >= 0
      /\ x.ver = rec[r].ver => Taken(r) + rec[r].pre = rec[r].actual - Excess(r)
      /\ x.ver # rec[r].ver => Taken(r) \in Nat
      BY <1>2, <1>3, <1>5, <1>6
<1> QED  BY <1>6, <1>7 DEF x

\* The second transaction of a settlement, by the session or by an operator.
LEMMA CommitBooks ==
    ASSUME BooksInv, BillInv', NEW r \in Requests, Commit(r), UNCHANGED task,
           \A q \in Requests : q # r => sess'[q] = sess[q],
           sess'[r].pc # "closed" => sess[r].pc # "closed"
    PROVE  Linked' /\ BooksBalance'
<1> DEFINE s == rec[r].sub
           k == AtLeast0(sub[s].used + Taken(r))
<1>0. /\ BillInv /\ Linked /\ BooksBalance /\ TypeOK /\ rec[r].status = "settling"
      /\ LinkedRow(r) /\ s \in Subs
      BY DEF BooksInv, BillInv, Linked, Commit, CanCommit
<1>1. /\ Excess(r) \in Nat /\ Excess(r) <= rec[r].actual
      /\ Taken(r) \in Int /\ Taken(r) + rec[r].pre >= 0
      /\ sub[s].ver = rec[r].ver => Taken(r) + rec[r].pre = rec[r].actual - Excess(r)
      /\ sub[s].ver # rec[r].ver => Taken(r) \in Nat
      BY <1>0, SettlementAmounts
<1>2. /\ rec[r].actual \in Nat /\ rec[r].pre \in Nat /\ sub[s].used \in Nat /\ sub[s].ver \in Nat
      /\ Owing(r) = rec[r].actual - rec[r].pre /\ wallet \in Int /\ token.used \in Int
      BY <1>0, Numbers DEF Owing
<1>3. /\ sub' = [sub EXCEPT ![s] = [sub[s] EXCEPT !.used = k]]
      /\ wallet' = wallet - Excess(r) /\ token' = Debited(r, Owing(r))
      /\ rec' = [rec EXCEPT ![r] = [rec[r] EXCEPT !.status = "settled", !.wallet = Excess(r),
                                     !.token = OnToken(r, rec[r].actual)]]
      BY DEF Commit
<1>4. /\ rec'[r].status = "settled" /\ rec'[r].wallet = Excess(r)
      /\ rec'[r].token = OnToken(r, rec[r].actual) /\ rec'[r].actual = rec[r].actual
      /\ rec'[r].ver = rec[r].ver /\ rec'[r].sub = s
      /\ \A q \in Requests : q # r => rec'[q] = rec[q]
  <2>1. rec \in [Requests -> RecType] /\ rec[r] \in RecType
        BY <1>0, Rows
  <2>2. \A a, b : LET z == [rec[r] EXCEPT !.status = "settled", !.wallet = a, !.token = b] IN
          /\ z.status = "settled" /\ z.wallet = a /\ z.token = b /\ z.actual = rec[r].actual
          /\ z.ver = rec[r].ver /\ z.sub = s
        BY <2>1 DEF RecType
  <2> QED  BY <1>3, <2>1, <2>2
<1>5. /\ sub[s].ver # rec[r].ver => /\ extra'[r].ver = sub[s].ver
                                    /\ extra'[r].amount = Taken(r)
                                         + IF extra[r].ver = sub[s].ver THEN extra[r].amount ELSE 0
      /\ sub[s].ver = rec[r].ver => extra'[r] = extra[r]
      /\ extra'[r].token = extra[r].token
      /\ \A q \in Requests : q # r => extra'[q] = extra[q]
  <2>1. extra \in [Requests -> ExtraType]
        BY <1>0, Rows
  <2>2. /\ Beyond(r, Taken(r)).ver = sub[s].ver
        /\ Beyond(r, Taken(r)).amount =
             Taken(r) + IF extra[r].ver = sub[s].ver THEN extra[r].amount ELSE 0
        /\ Beyond(r, Taken(r)).token = extra[r].token
        BY <1>0, <1>1, BeyondTyped
  <2>3. extra' = (IF sub[s].ver # rec[r].ver THEN [extra EXCEPT ![r] = Beyond(r, Taken(r))] ELSE extra)
        BY DEF Commit
  <2> HIDE DEF s
  <2> QED  BY <2>1, <2>2, <2>3
<1>6. OnlyOf(r) /\ rec[r].wallet = 0 /\ rec[r].token = OnToken(r, rec[r].pre)
      BY <1>0, <1>4, <1>5 DEF OnlyOf, LinkedRow
<1>7. /\ GrantsAge
      /\ \A q \in Subs : /\ sub'[q].ver = sub[q].ver
                         /\ q = s => sub'[q].used = k
                         /\ q # s => sub'[q].used = sub[q].used
  <2> HIDE DEF s, k
  <2>1. PICK x, m : /\ x \in Subs /\ x = s /\ m = k
                    /\ sub' = [sub EXCEPT ![x] = [sub[x] EXCEPT !.used = m]]
        BY <1>0, <1>3
  <2>2. /\ GrantsAge
        /\ \A q \in Subs : /\ sub'[q].ver = sub[q].ver
                           /\ q = x => sub'[q].used = m
                           /\ q # x => sub'[q].used = sub[q].used
    <3>1. BillInv
          BY <1>0
    <3>2. x \in Subs /\ sub' = [sub EXCEPT ![x] = [sub[x] EXCEPT !.used = m]]
          BY <2>1
    <3> QED  BY <3>1, <3>2, OneGrant
  <2> QED  BY <2>1, <2>2
<1> HIDE DEF s, k
<1>8. LinkedRow(r)'
  <2>1. rec[r].ver <= sub[s].ver /\ extra[r].ver <= sub[s].ver
        BY <1>0 DEF LinkedRow, s
  <2>2. rec'[r].ver <= sub'[s].ver /\ extra'[r].ver <= sub'[s].ver
        BY <1>0, <1>2, <1>4, <1>5, <1>7, <2>1
  <2>3. r \in Tasks => /\ sess'[r].pc # "closed" => task'[r].status = "none"
                       /\ task'[r].status = "none" => task'[r].back = -1
                       /\ task'[r].back <= sub'[s].ver
        BY <1>0, <1>7 DEF LinkedRow, s
  <2>4. extra[r].amount \in Int
        BY <1>0, Numbers
  <2>5. extra'[r].amount < 0 =>
          r \in Tasks /\ task'[r].back = extra'[r].ver /\ task'[r].status \in Adjusted
    <3>1. CASE sub[s].ver = rec[r].ver
          BY <1>0, <1>5, <3>1 DEF LinkedRow
    <3>2. CASE sub[s].ver # rec[r].ver
      <4>1. extra'[r].amount < 0 => extra[r].amount < 0 /\ extra[r].ver = sub[s].ver
            BY <1>1, <1>5, <2>4, <3>2
      <4> QED  BY <1>0, <1>5, <3>2, <4>1 DEF LinkedRow
    <3> QED  BY <3>1, <3>2
  <2> QED  BY <1>1, <1>4, <2>2, <2>3, <2>5 DEF LinkedRow
<1>9. Linked'
      BY <1>0, <1>6, <1>7, <1>8, OthersLinked
<1>10. /\ token'.used - token.used = rec'[r].token - rec[r].token
                                      + (extra'[r].token - extra[r].token)
       /\ token'.remain + token'.used = token.remain + token.used
  <2>1. /\ token'.used = token.used + OnToken(r, Owing(r))
        /\ token'.remain + token'.used = token.remain + token.used
    <3>1. Owing(r) \in Int
          BY <1>2
    <3> QED  BY <1>0, <1>3, <3>1, DebitEffect
  <2>2. extra[r].token \in Int /\ extra'[r].token = extra[r].token
        BY <1>0, <1>5, Numbers
  <2>3. token'.used - token.used = rec'[r].token - rec[r].token
        BY <1>2, <1>4, <1>6, <2>1 DEF OnToken
  <2>4. rec'[r].token \in Int /\ rec[r].token \in Int
        BY <1>2, <1>4, <1>6 DEF OnToken
  <2> QED  BY <2>1, <2>2, <2>3, <2>4
<1>11. wallet' + rec'[r].wallet = wallet + rec[r].wallet
      BY <1>1, <1>2, <1>3, <1>4, <1>6
<1>12. ASSUME NEW q \in Subs, Calm(q)'
       PROVE  /\ Calm(q) /\ sub'[q].ver = sub[q].ver
              /\ sub'[q].used - sub[q].used = ChargeNow(r, q)' - ChargeNow(r, q)
  <2>0. sub[q].used \in Nat /\ sub'[q].ver = sub[q].ver
        BY <1>0, <1>7, Numbers
  <2>4. \A t \in Tasks : task'[t].back = task[t].back /\ rec'[t].sub = rec[t].sub
        BY <1>4, BillingAssumption DEF s
  <2>5. Calm(q)
        BY <1>0, <1>12, <2>0, <2>4, StaysCalm
  <2>6. PICK e \in Int : e = IF extra[r].ver = sub[q].ver THEN extra[r].amount ELSE 0
        BY <1>0, Numbers
  <2>1. CASE q # s
    <3>1. ChargeNow(r, q)' = 0 /\ ChargeNow(r, q) = 0
          BY <1>4, <2>1 DEF ChargeNow, s
    <3> QED  BY <1>7, <2>0, <2>1, <2>5, <3>1
  <2>2. CASE q = s /\ sub[s].ver = rec[r].ver
    <3>0. Charge(r) = rec[r].pre /\ Charge(r)' = rec[r].actual - Excess(r)
          BY <1>0, <1>4 DEF Charge
    <3>1. ChargeNow(r, q) = rec[r].pre + e
          BY <1>0, <2>2, <2>6, <3>0 DEF ChargeNow, s
    <3>2. ChargeNow(r, q)' = (rec[r].actual - Excess(r)) + e
          BY <1>4, <1>5, <2>0, <2>2, <2>6, <3>0 DEF ChargeNow
    <3>3. sub[q].used = SumFunction(Charges(q))
          BY <1>0, <2>5, Books DEF UsedBooks
    <3>4. rec[r].pre <= sub[q].used
          BY <1>0, <2>2, <2>5, <3>3, ReservedIsUsed DEF s
    <3>5. sub'[q].used = sub[q].used + Taken(r)
          BY <1>1, <1>2, <1>7, <2>0, <2>2, <3>4 DEF k, AtLeast0
    <3> QED  BY <1>1, <1>2, <2>0, <2>2, <2>5, <2>6, <3>1, <3>2, <3>5
  <2>3. CASE q = s /\ sub[s].ver # rec[r].ver
    <3>1. ChargeNow(r, q) = e
          BY <1>0, <2>3, <2>6 DEF ChargeNow, s
    <3>2. ChargeNow(r, q)' = Taken(r) + e
          BY <1>1, <1>4, <1>5, <2>0, <2>3, <2>6 DEF ChargeNow
    <3>3. sub'[q].used = sub[q].used + Taken(r)
          BY <1>1, <1>7, <2>0, <2>3 DEF k, AtLeast0
    <3> QED  BY <1>1, <2>0, <2>3, <2>5, <2>6, <3>1, <3>2, <3>3
  <2> QED  BY <2>1, <2>2, <2>3
<1> QED  BY <1>0, <1>6, <1>9, <1>10, <1>11, <1>12, RequestBooks

\* The session's settlement keeps the books whether it commits or fails.
LEMMA SettleCommitBooks ==
    ASSUME BooksInv, BillInv', NEW r \in Requests, SettleCommit(r)
    PROVE  Linked' /\ BooksBalance'
<1>0. /\ BillInv /\ Linked /\ TypeOK /\ UNCHANGED task /\ sess[r].pc = "settling"
      BY DEF BooksInv, BillInv, SettleCommit
<1>1. \A q \in Requests : q # r => sess'[q] = sess[q]
      BY <1>0, Rows DEF SettleCommit
<1>2. CASE Commit(r)
      BY <1>0, <1>1, <1>2, CommitBooks
<1>3. CASE UNCHANGED <<sub, token, wallet, rec, extra>>
  <2>1. ASSUME NEW t \in Tasks PROVE Steady(t)
    <3>1. t \in Requests /\ LinkedRow(t) /\ (t # r => sess'[t] = sess[t])
          BY <1>0, <1>1, BillingAssumption DEF Linked
    <3> QED  BY <1>0, <3>1, StaysSteady
  <2> QED  BY <1>3, <2>1, CalmBooks DEF SameGrant
<1> QED  BY <1>2, <1>3 DEF SettleCommit

\* So does an operator's.
LEMMA RetryBooks ==
    ASSUME BooksInv, BillInv', NEW r \in Requests, Retry(r)
    PROVE  Linked' /\ BooksBalance'
BY CommitBooks DEF Retry

\* The task of a request is inserted once, when its session closes.
LEMMA FinishBooks ==
    ASSUME BooksInv, BillInv', NEW r \in Requests, NEW n \in 0 .. MaxAmount, Finish(r, n)
    PROVE  Linked' /\ BooksBalance'
<1>0. /\ BillInv /\ Linked /\ TypeOK /\ UNCHANGED <<sub, token, wallet, rec, extra>>
      /\ sess[r].pc = "insert"
      BY DEF BooksInv, BillInv, Finish
<1>1. sess'[r].pc = "closed" /\ \A q \in Requests : q # r => sess'[q] = sess[q]
      BY <1>0, Rows DEF Finish, SessType
<1>2. /\ \A t \in Tasks : t # r => task'[t] = task[t]
      /\ r \in Tasks => task'[r].status = "submitted" /\ task'[r].back = -1
      BY <1>0, Rows DEF Finish
<1>3. ASSUME NEW t \in Tasks PROVE Steady(t)
  <2>1. t \in Requests /\ LinkedRow(t)
        BY <1>0, BillingAssumption DEF Linked
  <2>2. CASE t = r
        BY <1>0, <1>1, <1>2, <2>1, <2>2 DEF LinkedRow, Steady, Adjusted
  <2>3. CASE t # r
        BY <1>1, <1>2, <2>1, <2>3, StaysSteady
  <2> QED  BY <2>2, <2>3
<1> QED  BY <1>0, <1>3, CalmBooks DEF SameGrant

\* A session that is given up leaves the books as they are.
LEMMA AbandonBooks ==
    ASSUME BooksInv, BillInv', NEW r \in Requests, Abandon(r)
    PROVE  Linked' /\ BooksBalance'
<1>0. /\ BillInv /\ Linked /\ TypeOK /\ UNCHANGED <<sub, token, wallet, rec, task, extra>>
      BY DEF BooksInv, BillInv, Abandon
<1>1. sess'[r].pc = "closed" /\ \A q \in Requests : q # r => sess'[q] = sess[q]
      BY <1>0, Rows DEF Abandon, SessType
<1>2. ASSUME NEW t \in Tasks PROVE Steady(t)
  <2>1. t \in Requests /\ LinkedRow(t)
        BY <1>0, BillingAssumption DEF Linked
  <2> QED  BY <1>0, <1>1, <2>1, StaysSteady
<1> QED  BY <1>0, <1>2, CalmBooks DEF SameGrant

\* A refund gives back what was reserved, to the grant it was reserved in.
LEMMA RefundBooks ==
    ASSUME BooksInv, BillInv', NEW r \in Requests, Refund(r)
    PROVE  Linked' /\ BooksBalance'
<1> DEFINE s == rec[r].sub
           k == AtLeast0(sub[s].used - rec[r].pre)
<1>0. /\ BillInv /\ Linked /\ BooksBalance /\ TypeOK /\ rec[r].status = "consumed"
      /\ LinkedRow(r) /\ s \in Subs /\ UNCHANGED <<wallet, task, extra>> /\ sess[r].pc = "open"
      BY DEF BooksInv, BillInv, Linked, Refund
<1>1. /\ rec[r].pre \in Nat /\ sub[s].used \in Nat /\ rec[r].token \in Nat /\ token.used \in Int
      BY <1>0, Numbers
<1>2. /\ sub[s].ver = rec[r].ver => sub' = [sub EXCEPT ![s] = [sub[s] EXCEPT !.used = k]]
      /\ sub[s].ver # rec[r].ver => sub' = sub
      /\ token' = Debited(r, -rec[r].token)
      /\ rec' = [rec EXCEPT ![r] = [rec[r] EXCEPT !.status = "refunded", !.token = 0]]
      BY DEF Refund
<1>3. /\ rec'[r].status = "refunded" /\ rec'[r].token = 0 /\ rec'[r].wallet = rec[r].wallet
      /\ rec'[r].ver = rec[r].ver /\ rec'[r].sub = s
      /\ \A q \in Requests : q # r => rec'[q] = rec[q]
      BY <1>0, <1>2, Rows DEF RecType
<1>4. /\ sess'[r].pc = "closed" /\ \A q \in Requests : q # r => sess'[q] = sess[q]
      BY <1>0, Rows DEF Refund, SessType
<1>5. OnlyOf(r) /\ rec[r].wallet = 0 /\ rec[r].token = OnToken(r, rec[r].pre)
      BY <1>0, <1>3 DEF OnlyOf, LinkedRow
<1> HIDE DEF s, k
<1>6. /\ GrantsAge
      /\ \A q \in Subs : /\ sub'[q].ver = sub[q].ver
                         /\ q = s /\ sub[s].ver = rec[r].ver => sub'[q].used = k
                         /\ q # s \/ sub[s].ver # rec[r].ver => sub'[q].used = sub[q].used
  <2>1. CASE sub[s].ver = rec[r].ver
    <3>1. PICK x, m : /\ x \in Subs /\ x = s /\ m = k
                      /\ sub' = [sub EXCEPT ![x] = [sub[x] EXCEPT !.used = m]]
          BY <1>0, <1>2, <2>1
    <3>2. /\ GrantsAge
          /\ \A q \in Subs : /\ sub'[q].ver = sub[q].ver
                             /\ q = x => sub'[q].used = m
                             /\ q # x => sub'[q].used = sub[q].used
      <4>1. BillInv
            BY <1>0
      <4>2. x \in Subs /\ sub' = [sub EXCEPT ![x] = [sub[x] EXCEPT !.used = m]]
            BY <3>1
      <4> QED  BY <4>1, <4>2, OneGrant
    <3> QED  BY <2>1, <3>1, <3>2
  <2>2. CASE sub[s].ver # rec[r].ver
        BY <1>0, <1>2, <2>2, Numbers DEF GrantsAge
  <2> QED  BY <2>1, <2>2
<1>7. LinkedRow(r)'
      BY <1>0, <1>3, <1>4, <1>5, <1>6 DEF LinkedRow, s
<1>8. Linked'
      BY <1>0, <1>4, <1>5, <1>6, <1>7, OthersLinked
<1>9. /\ token'.used - token.used = rec'[r].token - rec[r].token
                                      + (extra'[r].token - extra[r].token)
      /\ token'.remain + token'.used = token.remain + token.used
  <2>1. -rec[r].token \in Int
        BY <1>1
  <2>2. /\ token'.used = token.used + OnToken(r, -rec[r].token)
        /\ token'.remain + token'.used = token.remain + token.used
        BY <1>0, <1>2, <2>1, DebitEffect
  <2>3. OnToken(r, -rec[r].token) = -rec[r].token
        BY <1>1, <1>5 DEF OnToken
  <2>4. extra[r].token \in Int /\ extra' = extra
        BY <1>0, Numbers
  <2> QED  BY <1>1, <1>3, <2>2, <2>3, <2>4
<1>10. ASSUME NEW q \in Subs, Calm(q)'
       PROVE  /\ Calm(q) /\ sub'[q].ver = sub[q].ver
              /\ sub'[q].used - sub[q].used = ChargeNow(r, q)' - ChargeNow(r, q)
  <2>0. sub[q].used \in Nat /\ sub'[q].ver = sub[q].ver
        BY <1>0, <1>6, Numbers
  <2>1. \A t \in Tasks : task'[t].back = task[t].back /\ rec'[t].sub = rec[t].sub
        BY <1>0, <1>3, BillingAssumption DEF s
  <2>2. Calm(q)
        BY <1>0, <1>10, <2>0, <2>1, StaysCalm
  <2>3. PICK e \in Int : e = IF extra[r].ver = sub[q].ver THEN extra[r].amount ELSE 0
        BY <1>0, Numbers
  <2>4. Charge(r) = rec[r].pre /\ Charge(r)' = 0
        BY <1>0, <1>3 DEF Charge
  <2>5. CASE q = s /\ sub[s].ver = rec[r].ver
    <3>1. ChargeNow(r, q) = rec[r].pre + e /\ ChargeNow(r, q)' = e
          BY <1>0, <1>3, <2>0, <2>3, <2>4, <2>5 DEF ChargeNow, s
    <3>2. sub[q].used = SumFunction(Charges(q))
          BY <1>0, <2>2, Books DEF UsedBooks
    <3>3. rec[r].pre <= sub[q].used
          BY <1>0, <2>2, <2>5, <3>2, ReservedIsUsed DEF s
    <3>4. sub'[q].used = sub[q].used - rec[r].pre
          BY <1>1, <1>6, <2>0, <2>5, <3>3 DEF k, AtLeast0
    <3> QED  BY <1>1, <2>0, <2>2, <2>3, <3>1, <3>4
  <2>6. CASE q # s \/ sub[s].ver # rec[r].ver
    <3>1. ChargeNow(r, q)' = ChargeNow(r, q) /\ ChargeNow(r, q) \in Int
          BY <1>0, <1>3, <2>0, <2>6, ChargeIsInt DEF ChargeNow, s
    <3> QED  BY <1>6, <2>0, <2>2, <2>6, <3>1
  <2> QED  BY <2>5, <2>6
<1>11. wallet' + rec'[r].wallet = wallet + rec[r].wallet
      BY <1>0, <1>3
<1> QED  BY <1>0, <1>5, <1>8, <1>9, <1>10, <1>11, RequestBooks

-----------------------------------------------------------------------------
\* What the first commit outside the ledger moves.
LEMMA PostConsumeEffect ==
    ASSUME BillInv, NEW r \in Requests, rec[r].sub \in Subs, NEW n \in Int, PostConsume(r, n)
    PROVE  /\ GrantsAge
           /\ \A q \in Subs : /\ sub'[q].ver = sub[q].ver
                              /\ q = rec[r].sub => sub'[q].used = AtLeast0(sub[q].used + n)
                              /\ q # rec[r].sub => sub'[q].used = sub[q].used
           /\ extra'[r].ver = sub[rec[r].sub].ver
           /\ extra'[r].amount =
                n + IF extra[r].ver = sub[rec[r].sub].ver THEN extra[r].amount ELSE 0
           /\ extra'[r].token = extra[r].token
           /\ \A q \in Requests : q # r => extra'[q] = extra[q]
<1>0. TypeOK /\ extra \in [Requests -> ExtraType]
      BY Rows DEF BillInv
<1>1. PICK s, k : /\ s \in Subs /\ s = rec[r].sub /\ k = AtLeast0(sub[s].used + n)
                  /\ sub' = [sub EXCEPT ![s] = [sub[s] EXCEPT !.used = k]]
      BY DEF PostConsume
<1>2. /\ GrantsAge
      /\ \A q \in Subs : /\ sub'[q].ver = sub[q].ver
                         /\ q = s => sub'[q].used = k
                         /\ q # s => sub'[q].used = sub[q].used
  <2>1. s \in Subs /\ sub' = [sub EXCEPT ![s] = [sub[s] EXCEPT !.used = k]]
        BY <1>1
  <2> QED  BY <2>1, OneGrant
<1>3. PICK y \in ExtraType : /\ y = Beyond(r, n)
                             /\ extra' = [extra EXCEPT ![r] = [y EXCEPT !.owed = n]]
      BY <1>0, BeyondTyped DEF PostConsume
<1>4. LET z == [y EXCEPT !.owed = n] IN
        z.ver = y.ver /\ z.amount = y.amount /\ z.token = y.token
      BY DEF ExtraType
<1>5. /\ y.ver = sub[s].ver /\ y.token = extra[r].token
      /\ y.amount = n + IF extra[r].ver = sub[s].ver THEN extra[r].amount ELSE 0
      BY <1>0, <1>1, <1>3, BeyondTyped
<1>6. extra'[r] = [y EXCEPT !.owed = n] /\ \A q \in Requests : q # r => extra'[q] = extra[q]
      BY <1>0, <1>3
<1> QED  BY <1>1, <1>2, <1>4, <1>5, <1>6

\* A payment outside the ledger moves the charge of its request as much as its grant.
LEMMA PostConsumeCharge ==
    ASSUME BillInv, NEW r \in Requests, rec[r].sub \in Subs, rec[r].status # "none",
           NEW n \in Nat, PostConsume(r, n), UNCHANGED rec, NEW q \in Subs
    PROVE  sub'[q].used - sub[q].used = ChargeNow(r, q)' - ChargeNow(r, q)
<1>1. /\ sub'[q].ver = sub[q].ver
      /\ q = rec[r].sub => sub'[q].used = AtLeast0(sub[q].used + n)
      /\ q # rec[r].sub => sub'[q].used = sub[q].used
      /\ extra'[r].ver = sub[rec[r].sub].ver
      /\ extra'[r].amount =
           n + IF extra[r].ver = sub[rec[r].sub].ver THEN extra[r].amount ELSE 0
      BY PostConsumeEffect
<1>2. sub[q].used \in Nat /\ extra[r].amount \in Int
      BY Numbers
<1>3. CASE q # rec[r].sub
      BY <1>1, <1>2, <1>3 DEF ChargeNow
<1>4. CASE q = rec[r].sub
  <2>1. PICK c \in Int : c = IF rec[r].ver = sub[q].ver THEN Charge(r) ELSE 0
        BY ChargeIsInt
  <2>2. PICK e \in Int : e = IF extra[r].ver = sub[q].ver THEN extra[r].amount ELSE 0
        BY <1>2
  <2>3. ChargeNow(r, q) = c + e
        BY <1>4, <2>1, <2>2 DEF ChargeNow
  <2>4. Charge(r)' = Charge(r)
        BY DEF Charge
  <2>5. ChargeNow(r, q)' = c + (n + e)
        BY <1>1, <1>4, <2>1, <2>2, <2>4 DEF ChargeNow
  <2>6. sub'[q].used = sub[q].used + n
        BY <1>1, <1>2, <1>4 DEF AtLeast0
  <2> QED  BY <1>2, <2>1, <2>2, <2>3, <2>5, <2>6
<1> QED  BY <1>3, <1>4

\* A turn of a realtime request is charged to the grant that pays it.
LEMMA StreamBooks ==
    ASSUME BooksInv, BillInv', NEW r \in Requests, NEW n \in 1 .. MaxAmount, Stream(r, n)
    PROVE  Linked' /\ BooksBalance'
<1>n. n \in Nat /\ n \in Int /\ n > 0
      BY BillingAssumption
<1>0. /\ BillInv /\ Linked /\ BooksBalance /\ TypeOK /\ LinkedRow(r) /\ r \notin Tasks
      /\ UNCHANGED <<token, wallet, rec, task>> /\ PostConsume(r, n) /\ sess[r].pc = "open"
      BY BillingAssumption DEF BooksInv, BillInv, Linked, Stream
<1>1. rec[r].status # "none" /\ rec[r].sub \in Subs
      BY <1>0 DEF BillInv, Recorded
<1>2. /\ GrantsAge /\ \A q \in Subs : sub'[q].ver = sub[q].ver
      /\ extra'[r].ver = sub[rec[r].sub].ver
      /\ extra'[r].amount =
           n + IF extra[r].ver = sub[rec[r].sub].ver THEN extra[r].amount ELSE 0
      /\ extra'[r].token = extra[r].token
      /\ \A q \in Requests : q # r => extra'[q] = extra[q]
      BY <1>n, <1>0, <1>1, PostConsumeEffect
<1>3. OnlyOf(r) /\ \A q \in Requests : q # r => sess'[q] = sess[q]
      BY <1>0, <1>2, Rows DEF OnlyOf, Stream
<1>4. LinkedRow(r)'
  <2>1. extra[r].amount \in Int /\ ~(extra[r].amount < 0)
        BY <1>0, Numbers DEF LinkedRow
  <2>2. ~(extra'[r].amount < 0)
        BY <1>n, <1>2, <2>1
  <2>3. sub[rec[r].sub].ver \in Nat
        BY <1>0, <1>1, Numbers
  <2>4. /\ rec'[r] = rec[r] /\ sub'[rec[r].sub].ver = sub[rec[r].sub].ver
        /\ extra'[r].ver <= sub'[rec[r].sub].ver
        BY <1>0, <1>1, <1>2, <2>3
  <2> QED  BY <1>0, <1>1, <2>2, <2>4 DEF LinkedRow, OnToken
<1>5. Linked'
      BY <1>0, <1>2, <1>3, <1>4, OthersLinked
<1>6. ASSUME NEW q \in Subs, Calm(q)'
      PROVE  /\ Calm(q) /\ sub'[q].ver = sub[q].ver
             /\ sub'[q].used - sub[q].used = ChargeNow(r, q)' - ChargeNow(r, q)
  <2>1. Calm(q)
        BY <1>0, <1>2, <1>6, StaysCalm
  <2> QED  BY <1>n, <1>0, <1>1, <1>2, <2>1, PostConsumeCharge
<1>7. token.used \in Int /\ rec[r].token \in Int /\ extra[r].token \in Int
      BY <1>0, Numbers
<1>8. token'.used - token.used = rec'[r].token - rec[r].token
                                    + (extra'[r].token - extra[r].token)
      BY <1>0, <1>2, <1>7
<1> QED  BY <1>0, <1>3, <1>5, <1>6, <1>8, RequestBooks

\* The second commit outside the ledger is in the history of its request.
LEMMA PostTokenBooks ==
    ASSUME BooksInv, BillInv', NEW r \in Requests, PostToken(r), UNCHANGED <<wallet, rec>>,
           \A t \in Tasks : Steady(t)
    PROVE  Linked' /\ BooksBalance'
<1>0. /\ BillInv /\ Linked /\ BooksBalance /\ TypeOK /\ LinkedRow(r) /\ sub' = sub
      /\ rec' = rec
      BY DEF BooksInv, BillInv, Linked, PostToken
<1>1. PICK a \in Int :
        /\ a \in {OnToken(r, extra[r].owed), 0}
        /\ token'.used = token.used + a /\ token'.remain = token.remain - a
        /\ extra' = [extra EXCEPT ![r] = [extra[r] EXCEPT !.token = extra[r].token + a,
                                                          !.owed = 0]]
      BY <1>0, PostTokenTakes
<1>2. /\ extra'[r].token = extra[r].token + a /\ extra'[r].ver = extra[r].ver
      /\ extra'[r].amount = extra[r].amount /\ OnlyOf(r)
  <2>1. extra \in [Requests -> ExtraType] /\ extra[r] \in ExtraType
        BY <1>0, Rows
  <2>2. \A b : LET z == [extra[r] EXCEPT !.token = b, !.owed = 0] IN
               z.token = b /\ z.ver = extra[r].ver /\ z.amount = extra[r].amount
        BY <2>1 DEF ExtraType
  <2> QED  BY <1>1, <2>1, <2>2 DEF OnlyOf
<1>3. GrantsAge
      BY <1>0, Numbers DEF GrantsAge
<1>4. ASSUME NEW q \in Requests, rec[q].status # "none" PROVE LinkedRow(q)'
  <2>1. /\ LinkedRow(q) /\ rec'[q] = rec[q] /\ sub' = sub
        /\ extra'[q].ver = extra[q].ver /\ extra'[q].amount = extra[q].amount
        BY <1>0, <1>2 DEF Linked, OnlyOf
  <2>2. q \in Tasks => Steady(q)
        OBVIOUS
  <2> QED  BY <1>4, <2>1, <2>2 DEF LinkedRow, OnToken, Steady
<1>5. ASSUME NEW q \in Requests, rec[q].status = "none" PROVE LinkedRow(q)'
  <2>1. LinkedRow(q) /\ rec'[q] = rec[q] /\ (q \in Tasks => Steady(q))
        BY <1>0 DEF Linked
  <2>2. extra'[q] = extra[q]
    <3>1. CASE q # r
          BY <1>2, <3>1 DEF OnlyOf
    <3>2. CASE q = r
      <4>1. extra[r] = NoExtra
            BY <1>5, <2>1, <3>2 DEF LinkedRow
      <4>2. a = 0
            BY <1>1, <4>1 DEF NoExtra, OnToken
      <4>3. [extra[r] EXCEPT !.token = extra[r].token + a, !.owed = 0] = extra[r]
        <5>1. extra[r] \in ExtraType
              BY <1>0, Rows
        <5>2. extra[r].token + a = extra[r].token /\ extra[r].owed = 0
              BY <4>1, <4>2 DEF NoExtra
        <5>3. [extra[r] EXCEPT !.token = extra[r].token] = extra[r]
              BY <5>1 DEF ExtraType
        <5>4. [extra[r] EXCEPT !.owed = extra[r].owed] = extra[r]
              BY <5>1 DEF ExtraType
        <5> QED  BY <5>2, <5>3, <5>4
      <4> QED  BY <1>0, <1>1, <3>2, <4>3, Rows
    <3> QED  BY <3>1, <3>2
  <2> QED  BY <1>0, <1>3, <2>1, <2>2, RowStays
<1>6. Linked'
      BY <1>4, <1>5 DEF Linked
<1>7. \A q \in Subs : ChargeNow(r, q)' = ChargeNow(r, q)
      BY <1>0, <1>2 DEF ChargeNow, Charge
<1>8. ASSUME NEW q \in Subs, Calm(q)'
      PROVE  /\ Calm(q) /\ sub'[q].ver = sub[q].ver
             /\ sub'[q].used - sub[q].used = ChargeNow(r, q)' - ChargeNow(r, q)
  <2>1. Calm(q)
        BY <1>0, <1>8, StaysCalm DEF Steady
  <2>2. sub[q].used \in Int /\ ChargeNow(r, q) \in Int
        BY <1>0, Numbers, ChargeIsInt
  <2> QED  BY <1>0, <1>7, <2>1, <2>2
<1>9. /\ token'.used - token.used = rec'[r].token - rec[r].token
                                      + (extra'[r].token - extra[r].token)
      /\ token'.remain + token'.used = token.remain + token.used
  <2>1. /\ token.used \in Int /\ token.remain \in Int /\ rec[r].token \in Int
        /\ extra[r].token \in Int
        BY <1>0, Numbers
  <2>2. rec'[r].token - rec[r].token + (extra'[r].token - extra[r].token) = a
        BY <1>0, <1>2, <2>1
  <2> QED  BY <1>1, <2>1, <2>2
<1> QED  BY <1>0, <1>2, <1>6, <1>8, <1>9, RequestBooks

\* So is the second commit of a turn.
LEMMA StreamTokenBooks ==
    ASSUME BooksInv, BillInv', NEW r \in Requests, StreamToken(r)
    PROVE  Linked' /\ BooksBalance'
<1>0. /\ BillInv /\ Linked /\ TypeOK /\ UNCHANGED <<wallet, rec, task>> /\ PostToken(r)
      /\ sess[r].pc = "stream"
      BY DEF BooksInv, BillInv, StreamToken
<1>1. \A q \in Requests : q # r => sess'[q] = sess[q]
      BY <1>0, Rows DEF StreamToken
<1>2. ASSUME NEW t \in Tasks PROVE Steady(t)
  <2>1. t \in Requests /\ LinkedRow(t) /\ (t # r => sess'[t] = sess[t])
        BY <1>0, <1>1, BillingAssumption DEF Linked
  <2> QED  BY <1>0, <2>1, StaysSteady
<1> QED  BY <1>0, <1>2, PostTokenBooks

\* The second commit of an adjustment ends it.
LEMMA RecalculateTokenBooks ==
    ASSUME BooksInv, BillInv', NEW r \in Tasks, RecalculateToken(r)
    PROVE  Linked' /\ BooksBalance'
<1>0. /\ BillInv /\ Linked /\ TypeOK /\ UNCHANGED <<wallet, rec, sess>> /\ PostToken(r)
      /\ task[r].status = "adjusting" /\ r \in Requests
      BY BillingAssumption DEF BooksInv, BillInv, RecalculateToken
<1>1. /\ \A t \in Tasks : t # r => task'[t] = task[t]
      /\ task'[r].status = "done" /\ task'[r].back = task[r].back
  <2>1. task \in [Tasks -> TaskType] /\ task[r] \in TaskType
        BY <1>0, Rows
  <2>2. PICK b : task' = [task EXCEPT ![r] = [task[r] EXCEPT !.status = "done", !.quota = b]]
        BY <2>1 DEF RecalculateToken
  <2>3. /\ [task[r] EXCEPT !.status = "done", !.quota = b].status = "done"
        /\ [task[r] EXCEPT !.status = "done", !.quota = b].back = task[r].back
        BY <2>1 DEF TaskType
  <2> QED  BY <2>1, <2>2, <2>3
<1>2. ASSUME NEW t \in Tasks PROVE Steady(t)
  <2>1. t \in Requests /\ LinkedRow(t)
        BY <1>0, BillingAssumption DEF Linked
  <2>2. CASE t = r
        BY <1>0, <1>1, <2>1, <2>2 DEF LinkedRow, Steady, Adjusted
  <2>3. CASE t # r
        BY <1>0, <1>1, <2>1, <2>3, StaysSteady
  <2> QED  BY <2>2, <2>3
<1> QED  BY <1>0, <1>2, PostTokenBooks

\* An adjustment is charged like a turn, or gives something of the grant back.
LEMMA RecalculateBooks ==
    ASSUME BooksInv, BillInv', NEW r \in Tasks, NEW n \in 1 .. MaxAmount, Recalculate(r, n)
    PROVE  Linked' /\ BooksBalance'
<1>0. /\ BillInv /\ Linked /\ BooksBalance /\ TypeOK /\ LinkedRow(r) /\ r \in Requests
      /\ UNCHANGED <<token, wallet, rec, sess>> /\ task[r].status = "submitted"
      BY BillingAssumption DEF BooksInv, BillInv, Linked, Recalculate
<1>1. rec[r].status # "none" /\ rec[r].sub \in Subs /\ sess[r].pc = "closed"
      BY <1>0 DEF BillInv, Recorded, LinkedRow
<1>2. PICK d \in Int : /\ d # 0 /\ PostConsume(r, d)
                       /\ task' = [task EXCEPT ![r].status = "adjusting",
                             ![r].back = IF d < 0 THEN sub[rec[r].sub].ver ELSE @]
  <2>1. n - task[r].quota \in Int
        BY <1>0, Numbers
  <2> QED  BY <2>1 DEF Recalculate
<1>3. /\ \A t \in Tasks : t # r => task'[t] = task[t]
      /\ task'[r].status = "adjusting"
      /\ task'[r].back = IF d < 0 THEN sub[rec[r].sub].ver ELSE task[r].back
  <2>1. task \in [Tasks -> TaskType] /\ task[r] \in TaskType
        BY <1>0, Rows
  <2>2. PICK b : /\ b = (IF d < 0 THEN sub[rec[r].sub].ver ELSE task[r].back)
                 /\ task' = [task EXCEPT ![r] = [task[r] EXCEPT !.status = "adjusting", !.back = b]]
        BY <1>2, <2>1 DEF TaskType
  <2>3. /\ [task[r] EXCEPT !.status = "adjusting", !.back = b].status = "adjusting"
        /\ [task[r] EXCEPT !.status = "adjusting", !.back = b].back = b
        BY <2>1 DEF TaskType
  <2> QED  BY <2>1, <2>2, <2>3
<1>4. /\ GrantsAge /\ \A q \in Subs : sub'[q].ver = sub[q].ver
      /\ \A q \in Subs : q # rec[r].sub => sub'[q].used = sub[q].used
      /\ extra'[r].ver = sub[rec[r].sub].ver
      /\ extra'[r].amount =
           d + IF extra[r].ver = sub[rec[r].sub].ver THEN extra[r].amount ELSE 0
      /\ extra'[r].token = extra[r].token
      /\ \A q \in Requests : q # r => extra'[q] = extra[q]
      BY <1>0, <1>1, <1>2, PostConsumeEffect
<1>5. OnlyOf(r)
      BY <1>0, <1>4 DEF OnlyOf
<1>6. LinkedRow(r)'
  <2>1. extra[r].amount \in Int /\ ~(extra[r].amount < 0) /\ sub[rec[r].sub].ver \in Nat
        BY <1>0, <1>1, Numbers DEF LinkedRow, Adjusted
  <2>2. extra'[r].amount < 0 => task'[r].back = extra'[r].ver /\ task'[r].status \in Adjusted
        BY <1>2, <1>3, <1>4, <2>1 DEF Adjusted
  <2>3. /\ rec'[r] = rec[r] /\ sub'[rec[r].sub].ver = sub[rec[r].sub].ver
        /\ extra'[r].ver <= sub'[rec[r].sub].ver
        BY <1>0, <1>1, <1>4, <2>1
  <2>4. task'[r].back <= sub'[rec[r].sub].ver
        BY <1>0, <1>1, <1>3, <2>1, <2>3 DEF LinkedRow
  <2>5. sess'[r].pc = "closed" /\ task'[r].status # "none"
        BY <1>0, <1>1, <1>3
  <2> QED  BY <1>0, <1>1, <2>2, <2>3, <2>4, <2>5 DEF LinkedRow, OnToken
<1>7. Linked'
      BY <1>0, <1>3, <1>4, <1>5, <1>6, OthersLinked
<1>8. ASSUME NEW q \in Subs, Calm(q)'
      PROVE  /\ Calm(q) /\ sub'[q].ver = sub[q].ver
             /\ sub'[q].used - sub[q].used = ChargeNow(r, q)' - ChargeNow(r, q)
  <2>1. CASE d > 0
    <3>1. \A t \in Tasks : task'[t].back = task[t].back
          BY <1>3, <2>1
    <3>2. Calm(q)
          BY <1>0, <1>4, <1>8, <3>1, StaysCalm
    <3> QED  BY <1>0, <1>1, <1>2, <1>4, <2>1, <3>2, PostConsumeCharge
  <2>2. CASE d < 0
    <3>1. q # rec[r].sub
      <4>1. q = rec[r].sub => GivenBack(r, q)'
            BY <1>0, <1>3, <1>4, <2>2 DEF GivenBack
      <4> QED  BY <1>0, <1>8, <4>1 DEF Calm
    <3>2. ASSUME NEW t \in Requests PROVE ~GivenBack(t, q)
      <4>1. CASE t = r
            BY <3>1, <4>1 DEF GivenBack
      <4>2. CASE t # r
        <5>1. GivenBack(t, q) => GivenBack(t, q)'
              BY <1>0, <1>3, <1>4, <4>2 DEF GivenBack
        <5> QED  BY <1>8, <5>1 DEF Calm
      <4> QED  BY <4>1, <4>2
    <3>3. ChargeNow(r, q) = 0 /\ ChargeNow(r, q)' = 0
          BY <1>0, <3>1 DEF ChargeNow
    <3>4. sub[q].used \in Nat /\ sub'[q].used = sub[q].used
          BY <1>0, <1>4, <3>1, Numbers
    <3> QED  BY <1>4, <3>2, <3>3, <3>4 DEF Calm
  <2> QED  BY <1>2, <2>1, <2>2
<1>9. token'.used - token.used = rec'[r].token - rec[r].token
                                    + (extra'[r].token - extra[r].token)
  <2>1. token.used \in Int /\ rec[r].token \in Int /\ extra[r].token \in Int
        BY <1>0, Numbers
  <2> QED  BY <1>0, <1>4, <2>1
<1> QED  BY <1>0, <1>5, <1>7, <1>8, <1>9, RequestBooks

\* The refund of a task returns to the token what its row says, once.
LEMMA ApplyBooks ==
    ASSUME BooksInv, BillInv', NEW r \in Tasks, ApplyTaskRefund(r)
    PROVE  Linked' /\ BooksBalance'
<1>0. /\ BillInv /\ Linked /\ BooksBalance /\ TypeOK /\ LinkedRow(r) /\ r \in Requests
      /\ UNCHANGED <<wallet, rec, sess>> /\ task[r].status = "pending"
      BY BillingAssumption DEF BooksInv, BillInv, Linked, ApplyTaskRefund
<1>1. /\ rec[r].status # "none" /\ rec[r].sub \in Subs /\ sess[r].pc = "closed"
      /\ task[r].quota \in Nat
      BY <1>0, Numbers DEF BillInv, Recorded, LinkedRow
<1>2. PICK back \in Nat :
        /\ OnToken(r, back) = back /\ token' = Debited(r, -back)
        /\ extra' = [extra EXCEPT ![r] = [extra[r] EXCEPT !.token = extra[r].token - back]]
  <2>1. (IF token.live THEN OnToken(r, task[r].quota) ELSE 0) \in Nat
        BY <1>1 DEF OnToken
  <2>2. OnToken(r, IF token.live THEN OnToken(r, task[r].quota) ELSE 0)
          = IF token.live THEN OnToken(r, task[r].quota) ELSE 0
        BY DEF OnToken
  <2> QED  BY <2>1, <2>2 DEF ApplyTaskRefund
<1>3. /\ extra'[r].token = extra[r].token - back /\ extra'[r].ver = extra[r].ver
      /\ extra'[r].amount = extra[r].amount /\ OnlyOf(r)
  <2>1. extra \in [Requests -> ExtraType] /\ extra[r] \in ExtraType
        BY <1>0, Rows
  <2>2. \A b : LET z == [extra[r] EXCEPT !.token = b] IN
               z.token = b /\ z.ver = extra[r].ver /\ z.amount = extra[r].amount
        BY <2>1 DEF ExtraType
  <2> QED  BY <1>0, <1>2, <2>1, <2>2 DEF OnlyOf
<1>4. /\ task'[r].status = "refunded" /\ task'[r].back = sub[rec[r].sub].ver
      /\ \A t \in Tasks : t # r => task'[t] = task[t]
      BY <1>0, Rows DEF ApplyTaskRefund
<1>5. /\ GrantsAge /\ \A q \in Subs : sub'[q].ver = sub[q].ver
      /\ \A q \in Subs : q # rec[r].sub => sub'[q].used = sub[q].used
  <2>1. PICK s, k : /\ s \in Subs /\ s = rec[r].sub
                    /\ sub' = [sub EXCEPT ![s] = [sub[s] EXCEPT !.used = k]]
        BY <1>1 DEF ApplyTaskRefund
  <2>2. BillInv
        BY <1>0
  <2>3. /\ GrantsAge
        /\ \A q \in Subs : sub'[q].ver = sub[q].ver /\ (q # s => sub'[q].used = sub[q].used)
    <3>1. s \in Subs /\ sub' = [sub EXCEPT ![s] = [sub[s] EXCEPT !.used = k]]
          BY <2>1
    <3> QED  BY <2>2, <3>1, OneGrant
  <2> QED  BY <2>1, <2>3
<1>6. LinkedRow(r)'
  <2>1. ~(extra[r].amount < 0)
        BY <1>0 DEF LinkedRow, Adjusted
  <2>2. sub[rec[r].sub].ver \in Nat
        BY <1>0, <1>1, Numbers
  <2>3. /\ rec'[r] = rec[r] /\ sub'[rec[r].sub].ver = sub[rec[r].sub].ver
        /\ task'[r].back <= sub'[rec[r].sub].ver
        BY <1>0, <1>1, <1>4, <1>5, <2>2
  <2>4. sess'[r].pc = "closed"
        BY <1>0, <1>1
  <2> QED  BY <1>0, <1>1, <1>3, <1>4, <2>1, <2>3, <2>4 DEF LinkedRow, OnToken
<1>7. Linked'
      BY <1>0, <1>3, <1>4, <1>5, <1>6, OthersLinked
<1>8. ASSUME NEW q \in Subs, Calm(q)'
      PROVE  /\ Calm(q) /\ sub'[q].ver = sub[q].ver
             /\ sub'[q].used - sub[q].used = ChargeNow(r, q)' - ChargeNow(r, q)
  <2>1. q # rec[r].sub
    <3>1. q = rec[r].sub => GivenBack(r, q)'
          BY <1>0, <1>4, <1>5 DEF GivenBack
    <3> QED  BY <1>0, <1>8, <3>1 DEF Calm
  <2>2. ASSUME NEW t \in Requests PROVE ~GivenBack(t, q)
    <3>1. CASE t = r
          BY <2>1, <3>1 DEF GivenBack
    <3>2. CASE t # r
      <4>1. GivenBack(t, q) => GivenBack(t, q)'
            BY <1>0, <1>4, <1>5, <3>2 DEF GivenBack
      <4> QED  BY <1>8, <4>1 DEF Calm
    <3> QED  BY <3>1, <3>2
  <2>3. ChargeNow(r, q) = 0 /\ ChargeNow(r, q)' = 0
        BY <1>0, <2>1 DEF ChargeNow
  <2>4. sub[q].used \in Nat /\ sub'[q].used = sub[q].used
        BY <1>0, <1>5, <2>1, Numbers
  <2> QED  BY <1>5, <2>2, <2>3, <2>4 DEF Calm
<1>9. /\ token'.used - token.used = rec'[r].token - rec[r].token
                                      + (extra'[r].token - extra[r].token)
      /\ token'.remain + token'.used = token.remain + token.used
  <2>1. /\ -back \in Int /\ OnToken(r, -back) = -back /\ token.used \in Int
        /\ rec[r].token \in Int /\ extra[r].token \in Int
        BY <1>0, <1>2, Numbers DEF OnToken
  <2>2. /\ token'.used = token.used + OnToken(r, -back)
        /\ token'.remain + token'.used = token.remain + token.used
        BY <1>0, <1>2, <2>1, DebitEffect
  <2> QED  BY <1>0, <1>3, <2>1, <2>2
<1> QED  BY <1>0, <1>3, <1>7, <1>8, <1>9, RequestBooks

\* A task is adjusted, marked for its refund, or refunded.
LEMMA TaskBooks ==
    ASSUME BooksInv, BillInv', TaskStep
    PROVE  Linked' /\ BooksBalance'
<1>1. PICK r \in Tasks :
        \/ RecalculateToken(r) \/ PrepareTaskRefund(r) \/ ApplyTaskRefund(r)
        \/ \E n \in 1 .. MaxAmount : Recalculate(r, n)
      BY DEF TaskStep
<1>2. CASE PrepareTaskRefund(r)
  <2>0. /\ BillInv /\ Linked /\ TypeOK /\ UNCHANGED <<sub, token, wallet, rec, sess, extra>>
        /\ task[r].status = "submitted"
        BY <1>2 DEF BooksInv, BillInv, PrepareTaskRefund
  <2>1. /\ \A t \in Tasks : t # r => task'[t] = task[t]
        /\ task'[r].status = "pending" /\ task'[r].back = task[r].back
        BY <1>2, <2>0, Rows DEF PrepareTaskRefund, TaskType
  <2>2. ASSUME NEW t \in Tasks PROVE Steady(t)
    <3>1. t \in Requests /\ LinkedRow(t)
          BY <2>0, BillingAssumption DEF Linked
    <3>2. CASE t = r
          BY <2>0, <2>1, <3>1, <3>2 DEF LinkedRow, Steady, Adjusted
    <3>3. CASE t # r
          BY <2>0, <2>1, <3>1, <3>3, StaysSteady
    <3> QED  BY <3>2, <3>3
  <2> QED  BY <2>0, <2>2, CalmBooks DEF SameGrant
<1> QED  BY <1>1, <1>2, ApplyBooks, RecalculateBooks, RecalculateTokenBooks

\* A deleted token keeps its balance, and a step that changes nothing keeps the books.
LEMMA IdleBooks ==
    ASSUME BooksInv, BillInv', DeleteToken \/ UNCHANGED vars
    PROVE  Linked' /\ BooksBalance'
<1>1. /\ BillInv /\ Linked /\ TypeOK /\ UNCHANGED <<sub, wallet, rec, sess, task, extra>>
      BY DEF BooksInv, BillInv, DeleteToken, vars
<1>2. token'.used = token.used /\ token'.remain = token.remain
      BY <1>1, Rows DEF DeleteToken, vars, TokType
<1>3. \A t \in Tasks : Steady(t)
      BY <1>1, StaysSteady, BillingAssumption DEF Linked
<1> QED  BY <1>1, <1>2, <1>3, CalmBooks DEF SameGrant

\* Nothing is charged at the start.
LEMMA BooksInit == Init => BooksInv
<1> SUFFICES ASSUME Init PROVE BooksInv
    OBVIOUS
<1>1. BillInv
      BY BillInvInit
<1>2. /\ \A r \in Requests : rec[r] = NoRecord /\ extra[r] = NoExtra
      /\ \A r \in Tasks : task[r] = NoTask
      BY DEF Init
<1>3. Linked
      BY <1>2 DEF Linked, LinkedRow, NoRecord, NoTask, NoExtra
<1>4. \A s \in Subs : sub[s].used = 0
      BY DEF Init
<1>5. ASSUME NEW s \in Subs PROVE SumFunction(Charges(s)) = 0
  <2>1. DOMAIN Charges(s) = Requests /\ \A r \in Requests : Charges(s)[r] = 0
        BY <1>2 DEF Charges, ChargeNow, NoRecord
  <2> QED  BY <2>1, SumOfZeros, BillingAssumption
<1>6. SumFunction(TokenParts) = 0
  <2>1. DOMAIN TokenParts = Requests /\ \A r \in Requests : TokenParts[r] = 0
        BY <1>2 DEF TokenParts, NoRecord
  <2> QED  BY <2>1, SumOfZeros, BillingAssumption
<1>7. SumFunction(WalletParts) = 0
  <2>1. DOMAIN WalletParts = Requests /\ \A r \in Requests : WalletParts[r] = 0
        BY <1>2 DEF WalletParts, NoRecord
  <2> QED  BY <2>1, SumOfZeros, BillingAssumption
<1>8. SumFunction(ExtraParts) = 0
  <2>1. DOMAIN ExtraParts = Requests /\ \A r \in Requests : ExtraParts[r] = 0
        BY <1>2 DEF ExtraParts, NoExtra
  <2> QED  BY <2>1, SumOfZeros, BillingAssumption
<1>9. /\ token.used = 0 /\ token.remain = TokenQuota /\ wallet = InitialWallet
      BY DEF Init
<1>10. UsedBooks /\ TokenBooks /\ WalletBooks /\ token.remain + token.used = TokenQuota
      BY <1>4, <1>5, <1>6, <1>7, <1>8, <1>9, BillingAssumption
         DEF UsedBooks, TokenBooks, WalletBooks
<1> QED  BY <1>1, <1>3, <1>10, Books DEF BooksInv

\* Every step of the specification keeps the books.
LEMMA BooksNext == BooksInv /\ [Next]_vars => BooksInv'
<1> SUFFICES ASSUME BooksInv, [Next]_vars PROVE BooksInv'
    OBVIOUS
<1>1. BillInv'
      BY BillInvNext DEF BooksInv
<1>2. SUFFICES Linked' /\ BooksBalance'
      BY <1>1 DEF BooksInv
<1>3. CASE RequestStep
  <2>1. PICK r \in Requests :
          \/ \E n \in 1 .. MaxAmount : \E overflow \in BOOLEAN : PreConsume(r, n, overflow)
          \/ \E n \in 1 .. MaxAmount : Reserve(r, n) \/ Stream(r, n)
          \/ \E n \in 0 .. MaxAmount : SettleIntent(r, n) \/ Finish(r, n)
          \/ SettleCommit(r) \/ Retry(r) \/ StreamToken(r) \/ Refund(r) \/ Abandon(r)
        BY <1>3 DEF RequestStep
  <2> QED  BY <1>1, <2>1, PreConsumeBooks, ReserveBooks, SettleIntentBooks, FinishBooks,
              SettleCommitBooks, RetryBooks, StreamBooks, StreamTokenBooks, RefundBooks,
              AbandonBooks
<1> QED  BY <1>1, <1>3, SubBooks, TaskBooks, IdleBooks DEF Next

\* For any number of requests, subscriptions and tasks, whatever transactions fail and
\* however settlements, turns, adjustments, resets, retries and refunds mix, every balance is
\* explained: what is used of a grant is what its requests were charged by the ledger of
\* subscription_billing.go and outside it (until something of the grant is given back to a
\* task), and token and wallet hold what was not taken from them.
THEOREM BooksCorrect == Spec => []BooksBalance
<1>1. BooksInv => BooksBalance
      BY DEF BooksInv
<1> QED  BY <1>1, BooksInit, BooksNext, PTL DEF Spec

=============================================================================
