# TLA+ specifications of api.lmm.best

This directory holds a verification project for the web console in `apps/web` and
the Go service in `apps/api-go`: TLA+ modules for their stateful parts, TLC
configurations that model-check them on small instances, and theorems that TLAPS
proves for every value of the constants. Paths are relative to the repository's
root (`src/` in `PROJECT.json`).

    tlc -workers 2 -config MCAuthSession_tabs.cfg MCAuthSession   # one run
    tlapm AuthSessionProofs.tla                                   # one proof module

## 1. Inventory

The program is a gateway to AI models: it relays requests to providers and bills
them against wallets and subscriptions, runs a market for open-source bounties on
the same wallets, and has a browser console with an assistant and a drawing
workbench. The table lists its parts, the state each keeps, and what makes it hard.

| Part | State | Operations | What is hard |
|---|---|---|---|
| Browser sessions (`web/src/lib/auth-session.ts`, `auth-session-sync.ts`, `http-client.ts`) | per tab: store, query cache, refresh run, requests; per profile: cookie, Web Lock, channel | bootstrap, refresh, retry, rotate, login, logout, broadcast | tabs that share one rotating token, answers that come late, accounts that change under a request |
| Server sessions (`model/user_session.go`, `service/auth_session.go`) | session rows with the current and the previous token | create, rotate, revoke | a replayed token inside and outside its grace window |
| Drawing workbench (`web/src/features/drawing`) | history per tab, one IndexedDB store per browser, the active task | generate, download, save, load, clear, leave, return | transactions that outlive the tab state they belong to; a clear in another tab |
| Assistant key creation (`web/src/features/assistant`, `controller/assistant_key_creation_*.go`) | the panel's action, the tool's phase and operation, confirmation tokens | prepare, warn, review, confirm, type a confirmation | operations that outlive their tool, lost answers, a catalogue that changes |
| Relay billing (`model/subscription_billing.go`, `model/subscription.go`, `service/billing_session.go`, `service/quota.go`) | subscriptions with grants, tokens, wallets, one record per request, session flags | pre-consume, reserve, settle, refund, pay a realtime turn, reset, renew, revoke, recover | two transactions of a settlement, grants that end in between, payments outside the ledger |
| Asynchronous media tasks (`model/task.go`, `service/task_billing.go`) | tasks, refund intents | insert, adjust, fail, refund | a refund long after the grant |
| Bounty market (`model/open_source_bounty.go`, `..._dispute.go`) | project, challenge, dispute and ledger rows; wallets | draft, publish, pause, archive, close, accept, submit, cancel, withdraw, review, rate, tip, open and resolve disputes | escrow shared by many claims, appeal windows that expire, three parties acting at once, accounts that disappear |
| Guarded wallets (`model/wallet_quota.go`, `model/locking.go`) | `users.quota` | conditional UPDATE, `FOR UPDATE` | limits enforced inside the statement |
| System tasks (`model/system_task.go`, `service/system_task.go`) | task rows, one lease row per task type, runner loops, handler goroutines | create, schedule, claim, heartbeat, report, finish, expire, prune | no transactions: claims and expiry are several statements; crashes; clocks |
| MCP confirmations, REST idempotency, PostgreSQL leadership, payments | confirmation and idempotency rows, advisory locks, orders | | not modelled, see section 9 |
| Relay adapters, console pages, Rust port, deployment tooling | little shared state | conversion, forms, scripts | not protocol problems; not modelled |

How the parts interact. On the server everything stateful meets in the database:
bounties and billing move `users.quota` through the same guarded UPDATE, the
pollers and cleanups run as system tasks. In the browser, every request of the
workbench and of the assistant passes the interceptors of `http-client.ts`; tabs
meet in the cookie jar, the Web Lock, the broadcast channel and IndexedDB. A change
of account is the one event that crosses all of it: it clears the query cache and
disposes of the drawing history (`SwitchAccount`).

What makes each part correct, in a sentence: a tab shows one account's data and a
live session can always be refreshed; a cleared drawing stays cleared and a saved
one is stored; a confirmation makes one key, for what was confirmed; a request is
charged what it used, once, to the grant it was reserved in; the market never loses
or invents quota and can pay what it has promised; a task runs on one runner at a
time, and what has ended stays ended.

`PROJECT.json` lists the hazards of this code, each at its line, with the
properties that watch it.

## 2. Modules

| Module | Models | Proofs | Runs |
|---|---|---|---|
| `AuthSession` | browser sessions and the server's token rotation, composed | `AuthSessionProofs` | `auth`, `CacheIsOneAccounts` |
| `DrawingHistory` | the workbench in several tabs over one store; implements `DrawingArchive` | `DrawingHistoryProofs` | `drawing` |
| `DrawingArchive` | abstract: drawings are kept or dropped, a clear is final | | `drawing` |
| `KeyCreation` | panel, tool and the server's confirmation tokens, composed | `KeyCreationProofs` | `keys`, `ShownBeforePreparing` |
| `SubscriptionBilling` | ledger, sessions, subscriptions, realtime turns, task adjustments and refunds | `SubscriptionBillingProofs`, `SumProofs` | `billing`, `UsageIsKept` |
| `Bounty` | market and wallets | `BountyProofs`, `BountySafetyProofs`, `SumProofs` | `core`, `wallets`, `AppealOutlivesClose` |
| `SystemTask` | lease protocol of one task type | `SystemTaskProofs` | `tasks`, `ExpiredRunsEnd` |

Every run says `CHECK_DEADLOCK FALSE` except the two of `SystemTask`, whose clock never
stops: the bounded operations are used up and the others really stop.

## 3. Bounty

A row that has not been inserted has status `"none"`; row ids, users and pull
requests are model values; texts are left out, evidence is the issue URL as a flag
and a pull request. `ledger[p]` keeps the sum per kind of the project's ledger rows,
`payouts[c]` the number of rows with the unique payout key of challenge `c`.

One action is one transaction, from the first guard to the last write. The row
locks justify that: every transaction that reads several rows locks the project
row first, then the challenge row, then disputes, so two transactions on one
project are serial and none waits in a circle. Transactions that lock only a
challenge (withdraw, rate) read nothing else that others write. The exception is
`SubmitOpenSourceBountyChallenge`, which compares its pull request with challenges
it has not locked: it is `SubmitCheck` followed by `SubmitCommit` or
`SubmitRollback`, and `submitting[c]` is the row lock it holds meanwhile.
On SQLite `lockForUpdate` adds no clause, and the single writer serialises the
transactions instead.

Decisions that are wider than the code, so that what is proved covers it: the fee
recipient is any enabled root (the code takes the lowest id); the fee option may
change between any two publications; an account may be disabled, enabled or
deleted at any time. Left out: texts and notifications, the queries, tips' REST
idempotency and the Redis copy of the wallets.

Run `core` has one project with 1 or 2 slots, 2 challenges, 2 disputes, a sponsor,
2 contributors who are also administrators, a root, and appeals that expire (about
750,000 states). Two challenges and two disputes are the smallest instance in which
contributors compete, a contributor retries, both parties of a challenge file a
case, and a project of two slots is paid in both ways (review and dispute). Projects
share nothing but wallets, so one is enough for everything except sums of quota,
which are linear in the projects. `MaxTime` ends the clock one tick after the appeal
window of the last rejection can expire. Challenges, disputes and the two
contributors are interchangeable, and the run uses that symmetry. Run `wallets` has
one challenge, tips, fees, wallets at the cap and below zero, and accounts that are
disabled and deleted.

`EscrowCoversUnpaidSlots`, `LedgerReconciles` and `NoQuotaLost` are the accounting;
`SlotsNotOverbooked` and `ClosedIsSettled` say that promises are covered;
`DisputesAreFair` and `OneLiveAttempt` constrain who may claim what;
`ChallengeStepsAreFinal` and `DeletedWalletsFrozen` say what a step may never do. The
conditions "at most one dispute" in `SlotsNotOverbooked` and `OneLiveAttempt` mark
exactly where the code stops keeping the promise: the second case of a challenge.

Finding `AppealOutlivesClose`: any resolved case, also one the sponsor opened, ends
the protection of the appeal window, and the sponsor can close and be refunded while
the contributor could still appeal. Three more sentences of
`docs/open-source-bounties.md` do not hold of the code and have no run of their own:
the fee is taken out of every reward (:48 says it is charged on top,
`open_source_bounty.go:278` takes it off); a slot given up after a denied case can
still be claimed by a second case (:102, `open_source_bounty.go:1207`); two
submissions in flight pass the duplicate check together, so that one pull request
can be paid twice (:127, `open_source_bounty.go:1270`).

## 4. SystemTask

Task types do not interact (the lock's primary key and the active key are the
type), so the module is the life of one type. `task` is the table, `lock` the lease
row, `pc` and `local` the loop of each runner and what it has read, `job` the
handler goroutine of each row, `age` the time since the latest row was touched.
Nothing is a transaction here except pruning, so every action is one SQL statement
and a runner may be delayed, fail or die between any two. A pass is `ExpireRead`,
`ExpireMark`, `ExpireDelete` (`ExpireStaleSystemTaskLocks`), `Prune`, `ScheduleRead`,
`ScheduleCreate` (the scheduler), then `ClaimRead` to `ClaimMark` (`ClaimSystemTask`
and `acquireSystemTaskLock`). The first two stages are throttled and each may find
nothing to do, so a runner between two stages is where it is between two passes,
`"pass"`, and begins any stage that has work. A handler renews (`Renew`), reports and
finishes in two statements (`Finish`, `FinishRelease`).

Times are relative to the clock: `lock.left` is `locked_until - now` and
`local[r].at` the age of the timestamp a runner works with. A claim or a stale-lock
pass may be delayed without limit, also beyond its own lease, because nothing in the
code bounds it. Ages beyond `Late` (which exceeds TTL) are not told apart, and the
floors in `Tick` keep the order of the two, which is all that the code's comparisons
see. Statements of handlers use a clock read up to `Lag` ticks before they execute.
`lost` is history: the runs whose lock the claim protocol itself gives up, by marking
the row later than the lease it wrote (`Overdue`), or by an error or a crash between
taking another run's lock and failing that run (`Forsaken`). These two are the only
ways to a running row without a lock, which is what `RunningIsLeased` says.

Left out: the work of the handlers, orderly shutdown, the administrator's audited
cleanup (another caller of the same pruning) and the list queries. The wake-up
channel is left out because a pass may start at any time. A restarted process has a
new runner id, so it is another runner.

Run `tasks` (about 1,080,000 states): two runners, either of which may crash anywhere,
two rows of which up to two were pending before `active_key` existed, TTL 1, one
crash or database error, claims and passes delayed beyond any lease. Two runners are
enough for every race over the one lock row: a runner that holds it and one that
reads, steals or deletes. Two rows are needed for a takeover from another row's run,
for a next run beside the late runner of the former one, and for pruning (`Keep` is 1,
so the older of two ended rows goes). One fault reaches every error branch; the
crash of one runner in the middle of another's claim needs no second. `Lag` is 0 in the
run to keep it small; the theorems of section 8 hold for every lag up to the TTL, and
for any number of runners, rows and faults.

Finding `ExpiredRunsEnd`, under `FairSpec`: a claim is delayed beyond its lease between
taking the lock and marking the row; the stale-lock pass of the other runner deletes
the lock; the row becomes running without one. Its handler cannot report or finish,
and neither pass nor takeover will find it, since both go by the lock row: it stays
running, and with its active key no other task of the type can be created. No crash
and no error is needed. Fairness: a runner that lives keeps making steps and a handler
ends (weak fairness); the clock advances; and the stale-lock pass and the claim, which
other stages of a pass may precede for a while, come again and again (strong fairness
of `ExpireRead` and `ClaimRead`). The ticker of `RunSystemTaskRunner`, its throttles and
the contract in the comment of `SystemTaskHandler` justify them.

Three more behaviours of the code are in the model and have no run of their own.

- The stale-lock pass fails a row without looking at a lock that was renewed, or taken
  over by another runner's claim of the row, after it was read
  (`model/system_task.go:557`). The comment at `service/system_task.go:376-378` says that a
  handler "stays alive as long as the heartbeat succeeds"; here the heartbeat succeeds
  and the row is failed under it. `LeaseIsHonoured` is about the lock only and says so;
  what remains true of the row is `EndedIsFinal`: the handler cannot bring it back.
- An error or crash right after a takeover (`model/system_task.go:431`) leaves the former
  row running without a lock. It needs rows older than `active_key`: with the key, there
  is no other row to claim while one runs.
- A scheduler that read the latest row before another runner's complete run creates
  the next run before the interval has elapsed (`service/system_task.go:334`).

## 5. AuthSession

`page[t]` is a tab's auth store (`sid`, `boot`) and query cache, a set of the
sessions whose tokens fetched what is in it; `ref[t]` is `refreshPromise` with its
run (waiting for the Web Lock, sent, served, settled); `fetch[t]` is one API request
with its retry, `login[t]` and `logout[t]` the two dialogs, `inbox[t]` the broadcasts
not yet handled. The profile has one cookie (`jar`); `session` are the server's rows;
`late` are refresh requests whose sender no longer waits but which the server may
still execute.

A token is its session and generation, because the successor is derived from the
token (`deriveNextRefreshSecret`): two rotations of the same token give the same
successor, so a generation number is all there is to it, and the server's
`AUTH_REFRESH_RACE` answer cannot occur between honest tabs. Whether a replayed token
is inside its grace window is a free choice of `Answer`; so is whether an access
token has expired. `authEpoch` is the flag `live` of a run: code compares only
whether the epoch changed since the run began. A fetch has the same flag for "the
query cache was not cleared since". The inbox is a set: the channel does not
guarantee an order between tabs, and two equal events have the effect of one.
`Settle` is a step of its own because awaiting callers resume after the run has
returned; everything they do up to their next await belongs to it. A request in
`late` stays or goes when it is served, since several equal ones may be under way.

Run `auth`: two tabs, two sessions, three operations that users or failures begin
(loads, requests, logins, logouts, timeouts, reloads, revocations), everything else
unbounded but for five rotations, more than three operations can cause. Two tabs are what the lock and the channel need; two
sessions are an account and the one it is confused with. `JarIsCurrent` is the
property the grace window is made for; `AnonymousIsEmpty` and
`LateAnswersAreDropped` are about answers that arrive after their account has gone;
`NobodyWaitsForever` about the promise everybody awaits. Fairness: a sent refresh is
answered or aborted after 10 s, its promise settles (weak), and the Web Lock is
granted in the order of requests, so a run that waits is not overtaken for ever
(strong fairness of `Acquire`, the only place where another tab can disable a step
again and again). Nothing is assumed of users, logins or API requests.

Finding `CacheIsOneAccounts`: after a mismatch the store is reset but the query cache
is not, and the next session is applied as if nothing had been there before. Other
paths the model shows and nothing in the repository contradicts: a late `Set-Cookie`
of one session's refresh overwrites the cookie of a newer login in another tab; the
second 401 of a request of an old session signs out the new one
(`http-client.ts:140`); without Web Locks the cookie may fall two generations behind.

Two answers are left out, and no property depends on them. A logout that is answered
401 or 404 counts as a success although the server has not cleared the cookie
(`features/auth/api.ts:117`): the tab is anonymous as after any logout, and the next
refresh is one of a revoked or of a live session, both of which `Answer` has. A failed
read of the session in the database or Redis is answered 401 like an unknown token,
and clears the cookie (`service/auth_session.go:228`): a user is signed out whose
session lives on.

## 6. DrawingHistory and DrawingArchive

`hist[t]` is the `DrawingHistory` object of a tab with its snapshot, `load[t]` and
`clr[t]` its calls of the store, `strays` the clears whose history was disposed of,
`view[t]` whether the workbench is mounted, `task[t]` the entry of
`activeDrawingTasks`, `req[r]` a call of `generate` and then of `remember`. Every
IndexedDB transaction is one action (`LoadTx`, `SaveTx`, `ClearTx`) and the code
after its `await` another (`LoadDone`, `SaveDone`, `ClearDone`). A drawing is the number
of its request, in order of `createdAt`; a ticket is a flag that the revision has not
changed. `born[r]` is history: the epoch a request belongs to.

One image per request is modelled; previews, object URLs and the form are left out;
`reload()` of the history has no caller and is left out. A reload of the document may
lose or complete its transactions: they are lost for saves (the request is gone) and
either way for clears (`StrayTx`).

`large` are the requests whose image is one byte over `DRAWING_IMAGE_BYTES`: the bound on
its base64 text (`image-bytes.ts:40`) rounds up and lets 33,554,433 bytes through, and the
filter inside the store's transaction (`history-storage.ts:137-142`) does not. The other
limits of `retainDrawings`, a count and a total of bytes, are the one count `Limit`.

Run `drawing`: two tabs, two requests, two departures, clears, failures or oversized
images, a store that keeps one drawing (about 338,000 states). Limit 1 makes the store full at once,
so that retention matters; two requests are needed for a paid request beside another
one and for a newer drawing that pushes an older one out; two operations allow a clear together with a
failure, a departure or a second clear. `ClearIsABarrier`, `SavedIsStored`, `UnsavedIsAnnounced` and
`OneGeneration` are the promises of the workbench; `FlagsEnd` says that no flag stays
up. Fairness: transactions complete or abort, downloads end after 15 s, settled
promises run their handlers; the paid request itself has no deadline, and none is
assumed.

Refinement: `DrawingArchive` has the drawings that are kept and those that a clear
has ended; nothing that is dead is ever kept again. `ArchiveSpec` instantiates it with
the store and `{r : born[r] < epoch}`, is checked by the run and proved for any
number of tabs and requests.

A tab never learns that another one cleared the history until its next save is
rejected (`drawing-history.ts:205`); that paid image is then removed from the
display without a warning (:206), also if it was asked for after the clear. The comment
there speaks of requests that were running during the clear only; `UnsavedIsAnnounced`
is about images that stay on display and does not see this one.

Two limits of the promises, stated with the properties. `SavedIsStored` excepts `large`:
`remember` marks what it has sent, not what the transaction kept, so such an image is
marked as saved and gone after a reload. `OneGeneration` is about the requests of one
session of the account: a change of account clears the active task and drops the
session, but does not abort the paid request (`use-drawing-history.ts:23-28`), so the
account that returns may pay for a second one while the first is pending.

## 7. KeyCreation and SubscriptionBilling

`KeyCreation`: `panel` is what `assistant-panel.tsx` keeps of a prepared key, `phase`,
`chosen` and `ref` are the mounted tool (`assistant-key-creation-machine.ts` and the
refs of `use-assistant-key-creation.ts`), `call[i]` an operation, whose flag `here`
says whether the tool it was started in is still mounted. Every operation refetches
the groups (`GroupsRead`), goes on (`PrepareRead`, `ReviewRead`, `ConfirmRead`), is
served (`ServePrepare`, `ServeConfirm`, one transaction each) and ends
(`PrepareDone`, `ConfirmDone`), and the environment may lose it in between. A group is
`Off` or the number of confirmations its warning asks for. Names and codes are left
out; a wrong two-factor code, a limit and an internal error are one answer that
leaves the token alone. Left out is the answer `invalid` for an account or authorization
that has changed while the token is still open (`assistant_key_creation_confirm.go:73`):
the tool treats it like the `invalid` of a used or expired token, which is modelled. Dialogs are modal (`Covered`), and React runs effects before
it handles the next event (`Settled`).

Run `keys`: two tokens, three operations, one group with up to two confirmations, two
messages, departures, changes or failures (about 135,000 states): enough for a
retry after a lost answer, a second tool that confirms the same token, and a reply
that replaces the action. `OneKeyPerToken`, `NothingUnconfirmed` and
`WarningIsConfirmed` are about what is created; `SpinnerHasWork`, `CommittedStays` and
`OperationsEnd` about what the user sees and can still do. Fairness: requests are
answered or fail, effects run; nothing is assumed of the user. The first is an
assumption on browser and network, which the client does not enforce: `assistant/api.ts`
sets no timeout, and a refetch is paused while the browser is offline. `OperationsEnd`
says that the code releases `operationRef` on every path, given an answer.
`WarningIsConfirmed` counts confirmations: as many were given as the warning asks for. Finding
`ShownBeforePreparing` (two groups): a refetched catalogue moves the default of an
untouched group field between a warning and its last acknowledgement, and the
acknowledgements of one group's warning are sent for another group.

`SubscriptionBilling`: `sub` are the user's subscriptions, numbered by `end_time`, with
`quota_version` and whether a reset is due; `token` and `wallet` the other balances;
`rec[r]` the ledger record of a request, `sess[r]` the `BillingSession` in memory,
`task[r]` the row of an asynchronous task. A settlement is two transactions
(`SettleIntent` records the cost, `SettleCommit` collects it), either may fail, and
`Retry` is a later call with the recorded cost. `PreConsume` may lose its answer, and a
session may be abandoned at any point (`Abandon`). Below it the subscriptions are
reset, renewed, revoked, recovered, ended and deleted at any time.

Two writers charge subscription and token without the ledger, in two commits each: a
turn of a realtime request (`Stream`, `StreamToken`: `PreWssConsumeQuota`, whose charge is
in addition to the cost that is settled at the end) and the adjustment of a finished
task (`Recalculate`, `RecalculateToken`: `RecalculateTaskQuota`). The second commit may
fail or find the token deleted, and then the subscription stays charged and the token
not. `extra[r]` is the history of what a request takes in this way, and of what it takes
of a grant later than the one it was reserved in; `task[r].back` is the grant that
something was given back to. Together with the records they explain the balances.

Left out or merged: request ids are unique per request, so a replayed `PreConsume` is
unreachable; requests the wallet pays alone, unmanaged records and Redis copies; the
checks of token and wallet before a turn are one step with its first commit (the wallet
is read from a cache and may be an older value; the token's check would be a stale read,
which only lets more turns through, and `BooksBalance` does not depend on them); a
finished task whose cost is what it was submitted with stays `"submitted"`; an error of
the task's own quota update after its adjustment is only logged, and the adjusted quota
has no later use in the model.

Run `billing`: a realtime request and a task compete for two subscriptions of quota 2
and 1 and a token of 2, reservations, turns and costs up to 2, one reset of each
subscription, two changes and one fault (about 2,690,000 states): reservations that do
not fit, that split over the wallet, that outlive their grant, and turns beside a
reservation. `BooksBalance` explains every balance; `CostIsFinal` is the promise of the
two-step settlement; the second conjunct of `TypeOK` says that a quota is never
overdrawn. Finding `UsageIsKept`: the refund of a task ignores the grant it was paid
from. The first conjunct of `BooksBalance` therefore holds only until a task is given
something of the grant back, by a refund or by a negative adjustment, neither of which
compares the grant.

A refund of the payment may revoke the quota of a subscription of which nothing is used
down to 0 (`subscription_payment_refund.go:257-265`), and 0 is also how an unlimited
subscription is stored. The subscription is cancelled, but a settlement that is still
under way then takes whatever it owes (`subscription_billing.go:252`), and one that a
recovered payment makes active again has no limit at all. The model has both; `TypeOK`
excepts subscriptions with total 0, since for them the bound is false of the code.

Two leaks are in the model and nothing contradicts them: when the first settlement
transaction fails the record stays `consumed` and, because a settlement was tried, is
not refunded; and a reservation whose answer is lost is not given back before the
grant ends.

## 8. Proofs

All theorems hold for any sets of users, rows, runners, tabs, requests (finite where
they are counted or summed over) and any bounds; they rest on the named assumptions of the modules, which TLC evaluates in
every run.

`BountyProofs`: `TypeCorrect`, `LinksCorrect`, `EscrowCorrect`.
`EscrowCoversUnpaidSlots` is not inductive by itself: a payout takes the challenge's
reward from the escrow, so the proof needs that this reward is the project's net
reward and that the challenge belongs to this project (`RowsLinked`), and types for
the arithmetic. A payout adds one element to the approved challenges of one project
(a cardinality lemma) and takes one net reward.

`BountySafetyProofs`: `LedgerCorrect`, `QuotaConserved`, `SlotsCorrect`, `ClosedCorrect`,
`DisputesCorrect`, `AttemptsCorrect`, `ChallengesFinal` and `DeletedFrozen`, all from one
inductive invariant `BountyInv`. `SlotsNotOverbooked` (there as `BookedFits`, which says
"at most one case" with a quantifier) is kept because a challenge with at most
one case that occupies a slot after a step did so before, unless the step accepted
it. `OneLiveAttempt` had to be strengthened: it says nothing of a rejected attempt,
although a later case may approve it; `RetriesJustified` adds that beside a live
attempt a rejected one has a denied case, or is past its appeal window without an
open one. With `DisputesAreFair` the case that would approve it is then the second.
What a transaction may do to a challenge, a dispute and the money is stated once per
kind of row and proved for every action; the theorems follow from these histories.

`SumProofs` holds what the ledgers need of `SumFunction`: the recursion is well
defined on finite sets, does not depend on the order of elements, and one changed
entry changes a sum by the difference. The induction theorems of the library cannot
be instantiated by the provers, so every induction here takes a minimal
counterexample among the subsets of a finite set, ordered by strict inclusion.
`NoQuotaLost` and `BooksBalance` therefore rest on `IsFiniteSet` of users, projects and
requests, which the modules assume.

`SystemTaskProofs`: `TaskTypeCorrect`, `KeysCorrect`, `EndedRowsFinal`, `LeasesCorrect`,
`LeasesHonoured` and `HandlersStartAlone`. None assumes anything of delays, crashes, errors
or legacy rows. Every step moves rows in one of five ways (`RowStep`), which carries the
active-key argument and the finality of ended rows. `LeaseInv` adds to the keys, for
every runner (`RunnerInv`): a claim is for a row it has not executed, and one that has
taken the lock and is not overdue still holds a lease nobody can find expired; a lock
that is expired by the clock the runner has read is still the one it looked at; and for
every row (`TaskInv`): a running row is locked, about to be failed, or in `lost`, and a
handler that releases has ended its row. The heart is that a row which is not lost
starts to run only under a lease that is still valid, and that a timestamp read earlier
cannot exceed a lease granted later. `LeasesHonoured` needs only the types: a takeover
or a deletion compares the lease with a clock that was read before.

`AuthSessionProofs`: `AuthTypeCorrect`; `SignedOutTabIsEmpty`, from `AnonInv` (a signed-out
tab has an empty cache and no request that may still write into it);
`LateAnswersDropped`, from `ExpInv` (a live run was sent for the session its tab still
shows); and `JarStaysCurrent`, which assumes Web Locks. Its invariant `JarInv` has five
parts: a session that was never created has generation 0 (`RowsInv`); requests nobody
waits for carry tokens that exist (`LateInv`) and are not newer than the jar's, which
is at most one rotation behind (`BackInv`); a request under way carries a token between
theirs and the jar's, and an answer the current one, which no late request can
rotate (`RunsInv`); one run of the profile holds the lock (`LockInv`). Without the lock
two runs carry different tokens and the older answer may be stored last, which is the
code's reason to take it.

`DrawingHistoryProofs`: `DrawingTypeCorrect`, `ClearBarrier`, `OnePaidGeneration`,
`ImplementsArchive`, `UnsavedAnnounced` and `SavedStored`. A save carries the epoch of the history that called it; the
invariant `SafeInv` ties that epoch to `born[r]`: a request with a current ticket belongs
to the epoch its history knows, no load is about to change it and no clear is under
way (`HistInv`, `TicketInv`); and a request that owns its tab's session is the account's
active task (`TaskInv`), so that there is one. The refinement then follows step by
step: only `SaveTx`, `ClearTx` and `StrayTx` touch the store.
For the last two theorems every step is classified, tab by tab, as one of six moves
of a history (`Move`: nothing visible, emptied, loaded, shown, marked, given up); a
current ticket is alone in its tab, which makes a mark or a failure the end of the
only image on its way. `Announced` then says that without a warning every image shown
is saved or on its way, and that `saving` is up as long as one is: `saving` alone is
not inductive, since it does not say which image it is for. `KeptInv` follows the
epochs: what a history, a load, a clear or a save remembers is never later than the
store's; while the epochs agree, marked and loaded drawings were stored (`WasStored`);
and nothing is marked while a load or a clear is pending, so that neither can put old
marks under a new epoch. A marked image that was never stored is `large`. That a stored drawing stays stored or is pushed out by newer
ones rests on what `Retained` keeps (`PutKeeps`, by counting the newer drawings), for
every limit.

`KeyCreationProofs`: `KeyTypeCorrect`, `OneKeyForAToken`, `EveryKeyConfirmed`,
`SpinnersWork`, `WarningsConfirmed`, `CreatedKeyStays`. `KeyInv` says what the server knows
of a token (`FlowInv`), what an operation under way may still do (`CallInv`), that a tool
has at most one operation of its own, and only while `operationRef` is taken
(`OneHere`), and how phase and panel name tokens (`PhaseInv`, `PanelInv`). `OneHere` is
what makes the spinner property inductive: no second operation can overwrite a phase
whose operation is still under way.

`SubscriptionBillingProofs`: `BillingTypeCorrect` and `RecordedCostIsFinal`, from
`BillInv`: types, with no quota overdrawn; records name an existing subscription; a
session that tried to settle is neither open nor in a turn; a record whose settlement
was tried is not refunded. The arithmetic is in the settlement: what is taken fits what
is left. `BooksCorrect` needs `BooksInv`, which adds `Linked`: a record that is not settled
has taken nothing from the wallet and, while reserved, exactly its reservation from the
token; neither a record nor an extra charge is of a later grant than its subscription,
and nothing was given back to a later one; a task row exists only after its session is
closed; a request without a record has taken nothing. Every action then changes one
entry of each sum (`SumChange`), or renews a grant and so empties the charges that count
for it.

Out of the prover's reach, and left to TLC: liveness (`NobodyWaitsForever`, `FlagsEnd`,
`OperationsEnd`), which needs fairness and ENABLED. Every other property of the passing
runs is a theorem as well. The properties of the five runs that expect a violation are
false of the code and have none.

## 9. Not modelled

The parts marked `not_modelled` in `PROJECT.json`, each with its reason.

Most of the repository's lines are the console's pages: forms, tables, dialogs,
translations and styling, each over one request. They keep no state that another
actor could see half-way, so a model of them would restate the code. The modules
cover the console's protocols (sessions, workbench, key tool), which are a small part
of its lines; the share of the lines that the map covers is low for that reason, and
widening the mapped ranges would not make it a model of more.

On the server: MCP confirmations and REST idempotency are one row each, locked in the
transaction they protect; payment callbacks and redemption are modelled only by their
effect on a subscription; leadership rests on PostgreSQL's sessions; the relay
adapters convert data; the Rust port follows the Go code. The lock order that
excludes deadlock between bounty transactions is argued in section 3 and not modelled
lock by lock. Redis copies of wallets, tokens and sessions are adjusted after commit
and are left out everywhere.
