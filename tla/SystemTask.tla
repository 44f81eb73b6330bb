----------------------------- MODULE SystemTask -----------------------------
(***************************************************************************)
(* The system tasks of apps/api-go: rows of system_tasks, the per-type     *)
(* lease in system_task_locks, and the runners (one per master process)    *)
(* that schedule, claim, expire and execute them.                          *)
(*                                                                         *)
(* Task types do not interact (the lock's primary key and the active key   *)
(* are the type), so this is the life of one type.  Nothing here is a      *)
(* transaction but the pruning: every action is one SQL statement, and a   *)
(* runner may be delayed or die between any two of them.                   *)
(*                                                                         *)
(* Times are kept relative to the clock, as in a timer: lock.left is       *)
(* locked_until - now, local[r].at is the age (<= 0) of the timestamp the  *)
(* runner works with, age is the time since the latest row was updated.    *)
(***************************************************************************)
EXTENDS Integers, FiniteSets

CONSTANTS Runners,      \* runner ids; a restarted process has a new one
          Crashable,    \* those that may crash
          MaxTasks,     \* bound: rows of this type ever inserted
          MaxLegacy,    \* bound: pending rows older than active_key
          TTL,          \* systemTaskLockTTL, in ticks
          Lag,          \* bound: delay between reading the clock and the UPDATE
          Late,         \* bound: ages beyond this one are not told apart
          Interval,     \* Interval() of the scheduled handler
          Keep,         \* SystemTaskHistoryKeep
          MaxFaults,    \* bound: database errors and crashes
          None

Tasks == 1 .. MaxTasks

ASSUME RunnersAssumption ==
    /\ Crashable \subseteq Runners /\ None \notin Runners \cup Tasks
    /\ MaxTasks \in Nat /\ MaxLegacy \in 0 .. MaxTasks

ASSUME ClockAssumption ==
    /\ TTL \in Nat /\ TTL > 0 /\ Late \in Nat /\ Late > TTL
    /\ Lag \in 0 .. TTL /\ Interval \in Nat
    /\ Keep \in Nat \ {0} /\ MaxFaults \in Nat

VARIABLES task,    \* task[t]: a row of system_tasks
          job,     \* job[t]: the handler goroutine of a claimed task
          lock,    \* the type's row of system_task_locks, or NoLock
          pc,      \* pc[r]: where the runner's loop is
          local,   \* local[r]: what the loop has read
          age,     \* now - updated_at of the latest row, up to Interval
          faults,  \* database errors and crashes so far
          lost     \* history: runs whose lock the claim protocol gave up

vars == <<task, job, lock, pc, local, age, faults, lost>>

TaskStatus == {"none", "pending", "running", "succeeded", "failed", "pruned"}
JobStatus  == {"none", "running", "cancelled", "releasing"}
Step       == {"pass", "expireMark", "expireDelete", "create",
               "insert", "look", "steal", "fail", "mark", "dead"}

NoLock == [task |-> None, by |-> None, left |-> 0]
Idle   == [task |-> None, at |-> 0, seen |-> None, seenBy |-> None]

Init == /\ \E legacy \in 0 .. MaxLegacy :
             task = [t \in Tasks |->
               [status |-> IF t <= legacy THEN "pending" ELSE "none",
                key |-> FALSE, by |-> None]]
        /\ job = [t \in Tasks |-> "none"]
        /\ lock = NoLock
        /\ pc = [r \in Runners |-> "pass"]
        /\ local = [r \in Runners |-> Idle]
        /\ age = 0
        /\ faults = 0
        /\ lost = {}

-----------------------------------------------------------------------------
Active(t)   == task[t].status \in {"pending", "running"}
Terminal(t) == task[t].status \in {"succeeded", "failed"}
Created     == {t \in Tasks : task[t].status # "none"}
Latest(t)   == t \in Created /\ \A u \in Created : u <= t

\* updated_at of t becomes the clock as read -at ticks ago.
Touch(t, at) == IF ~Latest(t) THEN age ELSE IF -at < Interval THEN -at ELSE Interval

GoTo(r, step) == pc' = [pc EXCEPT ![r] = step]

\* The stage ends; what it has read is forgotten.
EndPass(r) == GoTo(r, "pass") /\ local' = [local EXCEPT ![r] = Idle]

Lock(t, r, left) == [task |-> t, by |-> r, left |-> left]

HeldBy(t, r) == lock # NoLock /\ lock.task = t /\ lock.by = r

\* INSERT INTO system_tasks; the unique active_key lets in one active row.
Insert(t) ==
    /\ task[t].status = "none" /\ \A u \in Tasks : u < t => task[u].status # "none"
    /\ \A u \in Tasks : ~task[u].key
    /\ task' = [task EXCEPT ![t] = [status |-> "pending", key |-> TRUE, by |-> None]]
    /\ age' = 0

\* Mutant: an expired run keeps its active key.
LeaseExpired_KeepsKey(t) ==
    /\ task' = [task EXCEPT ![t].status = IF @ = "running" THEN "failed" ELSE @]
    /\ age' = IF task[t].status = "running" THEN Touch(t, 0) ELSE age

\* MarkSystemTaskLeaseExpired: one conditional UPDATE that does not look at
\* the lock.
LeaseExpired(t) ==
    IF task[t].status = "running"
    THEN /\ task' = [task EXCEPT ![t].status = "failed", ![t].key = FALSE]
         /\ age' = Touch(t, 0)
    ELSE UNCHANGED <<task, age>>

\* ReleaseSystemTaskLock
Release(t, r) == lock' = IF HeldBy(t, r) THEN NoLock ELSE lock

-----------------------------------------------------------------------------
(* A pass of a runner expires stale locks, runs the scheduler and claims.  *)
(* The first two are throttled, each may find nothing to do, and passes    *)
(* come at any time, so a runner between two stages is where it is between *)
(* two passes ("pass"), and what finds nothing to do is no step.           *)

\* ExpireStaleSystemTaskLocks reads the locks that have run out.
ExpireRead(r) ==
    /\ pc[r] = "pass"
    /\ lock # NoLock /\ lock.left < 0
    /\ local' = [local EXCEPT ![r] =
           [Idle EXCEPT !.seen = lock.task, !.seenBy = lock.by]]
    /\ GoTo(r, "expireMark")
    /\ UNCHANGED <<task, job, lock, age, faults, lost>>

ExpireMark(r) ==
    /\ pc[r] = "expireMark"
    /\ LeaseExpired(local[r].seen)
    /\ GoTo(r, "expireDelete")
    /\ UNCHANGED <<job, lock, local, faults, lost>>

\* Mutant: the lock is deleted without comparing locked_until again.
ExpireDelete_AnyTime(r) ==
    /\ pc[r] = "expireDelete"
    /\ lock' = IF HeldBy(local[r].seen, local[r].seenBy) THEN NoLock ELSE lock
    /\ EndPass(r)
    /\ UNCHANGED <<task, job, age, faults, lost>>

ExpireDelete(r) ==
    /\ pc[r] = "expireDelete"
    /\ lock' = IF HeldBy(local[r].seen, local[r].seenBy) /\ lock.left < local[r].at
               THEN NoLock ELSE lock
    /\ EndPass(r)
    /\ UNCHANGED <<task, job, age, faults, lost>>

\* An UPDATE or DELETE of the pass fails; the rest of the pass is left out.
ExpireError(r) ==
    /\ pc[r] \in {"expireMark", "expireDelete"}
    /\ EndPass(r)
    /\ faults < MaxFaults /\ faults' = faults + 1
    /\ UNCHANGED <<task, job, lock, age, lost>>

-----------------------------------------------------------------------------
(* The scheduler of a runner: prune, look at the latest row, insert.       *)

\* CleanupTaskHistory keeps the Keep newest terminal rows.
Prune(r) ==
    /\ pc[r] = "pass"
    /\ task' = [t \in Tasks |->
           IF Terminal(t) /\ Cardinality({u \in Tasks : Terminal(u) /\ u > t}) >= Keep
           THEN [task[t] EXCEPT !.status = "pruned"] ELSE task[t]]
    /\ UNCHANGED <<job, lock, pc, local, age, faults, lost>>

\* A handler that is disabled or not due, or a query that fails, creates
\* nothing.
ScheduleRead(r) ==
    /\ pc[r] = "pass"
    /\ \A t \in Created : Latest(t) => ~Active(t) /\ age >= Interval
    /\ GoTo(r, "create")
    /\ UNCHANGED <<task, job, lock, local, age, faults, lost>>

ScheduleCreate(r) ==
    /\ pc[r] = "create" /\ GoTo(r, "pass")
    /\ \/ \E t \in Tasks : Insert(t)
       \/ /\ (\E u \in Tasks : task[u].key) \/ Created = Tasks
          /\ UNCHANGED <<task, age>>
    /\ UNCHANGED <<job, lock, local, faults, lost>>

\* EnqueueSystemTask and StartLogCleanupTask, called by administrators.
Enqueue ==
    /\ \A u \in Tasks : ~Active(u)
    /\ \E t \in Tasks : Insert(t)
    /\ UNCHANGED <<job, lock, pc, local, faults, lost>>

-----------------------------------------------------------------------------
(* ClaimSystemTask and acquireSystemTaskLock.                              *)

ClaimRead(r) ==
    /\ pc[r] = "pass"
    /\ \E t \in Tasks :
         /\ task[t].status = "pending"
         /\ \A u \in Tasks : task[u].status = "pending" => t <= u
         /\ local' = [local EXCEPT ![r] = [Idle EXCEPT !.task = t]]
    /\ GoTo(r, "insert")
    /\ UNCHANGED <<task, job, lock, age, faults, lost>>

ClaimInsert(r) ==
    /\ pc[r] = "insert"
    /\ IF lock = NoLock
       THEN lock' = Lock(local[r].task, r, local[r].at + TTL) /\ GoTo(r, "mark")
       ELSE UNCHANGED lock /\ GoTo(r, "look")
    /\ UNCHANGED <<task, job, local, age, faults, lost>>

ClaimLook(r) ==
    /\ pc[r] = "look"
    /\ IF lock = NoLock \/ lock.left >= local[r].at
       THEN EndPass(r)
       ELSE /\ local' = [local EXCEPT ![r].seen = lock.task]
            /\ GoTo(r, "steal")
    /\ UNCHANGED <<task, job, lock, age, faults, lost>>

ClaimSteal(r) ==
    /\ pc[r] = "steal"
    /\ IF lock # NoLock /\ lock.left < local[r].at
       THEN /\ lock' = Lock(local[r].task, r, local[r].at + TTL)
            /\ IF local[r].seen # local[r].task
               THEN GoTo(r, "fail") /\ UNCHANGED local
               ELSE GoTo(r, "mark") /\ local' = [local EXCEPT ![r].seen = None]
       ELSE UNCHANGED lock /\ EndPass(r)
    /\ UNCHANGED <<task, job, age, faults, lost>>

\* Mutant: the run whose lock was taken over is not marked.
ClaimFail_Forgets(r) ==
    /\ pc[r] = "fail" /\ GoTo(r, "mark")
    /\ local' = [local EXCEPT ![r].seen = None]
    /\ UNCHANGED <<task, job, lock, age, faults, lost>>

ClaimFail(r) ==
    /\ pc[r] = "fail" /\ GoTo(r, "mark")
    /\ LeaseExpired(local[r].seen)
    /\ local' = [local EXCEPT ![r].seen = None]
    /\ UNCHANGED <<job, lock, faults, lost>>

\* Mutant: the UPDATE does not ask for a pending row.
ClaimMark_AnyStatus(r) ==
    LET t == local[r].task
    IN  /\ pc[r] = "mark" /\ EndPass(r)
        /\ task' = [task EXCEPT ![t].status = "running", ![t].by = r]
        /\ job' = [job EXCEPT ![t] = "running"]
        /\ age' = Touch(t, local[r].at)
        /\ UNCHANGED <<lock, faults, lost>>

\* The lease that r wrote for its claim was over before it came to use it.
Overdue(r) == local[r].at < -TTL

\* The row becomes running and its handler starts, whatever became of the
\* lock since it was taken: the UPDATE asks for a pending row only.  When the row cannot be read
\* back (an error) it does not.  A row that is no longer pending gives the
\* lock back.
ClaimMark(r) ==
    LET t == local[r].task
    IN  /\ pc[r] = "mark" /\ EndPass(r)
        /\ \/ /\ task[t].status = "pending"
              /\ task' = [task EXCEPT ![t].status = "running", ![t].by = r]
              /\ age' = Touch(t, local[r].at)
              /\ lost' = IF Overdue(r) THEN lost \cup {t} ELSE lost
              /\ \/ job' = [job EXCEPT ![t] = "running"] /\ UNCHANGED faults
                 \/ faults < MaxFaults /\ faults' = faults + 1 /\ UNCHANGED job
              /\ UNCHANGED lock
           \/ /\ task[t].status # "pending"
              /\ Release(t, r)
              /\ UNCHANGED <<task, job, age, faults, lost>>

\* A claim that ends between taking the lock of another run and failing it.
Forsaken(r) == IF pc[r] = "fail" /\ task[local[r].seen].status = "running"
               THEN {local[r].seen} ELSE {}

\* An UPDATE of the claim fails; the error of the release is ignored.
ClaimError(r) ==
    /\ pc[r] \in {"fail", "mark"} /\ EndPass(r)
    /\ Release(local[r].task, r) \/ UNCHANGED lock
    /\ lost' = lost \cup Forsaken(r)
    /\ faults < MaxFaults /\ faults' = faults + 1
    /\ UNCHANGED <<task, job, age>>

-----------------------------------------------------------------------------
(* The handler of task t and its heartbeat, on the runner that claimed it. *)

\* The lease as a statement sees it that read the clock up to Lag ticks ago.
Leased(t, at) == HeldBy(t, task[t].by) /\ lock.left >= at

\* Mutant: every heartbeat adds a TTL to what is left.
Renew_Adds(t) ==
    /\ job[t] \in {"running", "releasing"}
    /\ Leased(t, 0)
    /\ lock' = [lock EXCEPT !.left = @ + TTL]
    /\ UNCHANGED <<task, job, pc, local, age, faults, lost>>

\* RenewSystemTaskLock; a heartbeat that fails cancels the handler.
Renew(t) ==
    /\ job[t] \in {"running", "releasing"}
    /\ \E at \in -Lag .. 0 :
         IF Leased(t, at)
         THEN lock' = [lock EXCEPT !.left = at + TTL] /\ UNCHANGED job
         ELSE /\ job' = [job EXCEPT ![t] = IF @ = "running" THEN "cancelled" ELSE @]
              /\ UNCHANGED lock
    /\ UNCHANGED <<task, pc, local, age, faults, lost>>

RenewError(t) ==
    /\ job[t] = "running" /\ job' = [job EXCEPT ![t] = "cancelled"]
    /\ faults < MaxFaults /\ faults' = faults + 1
    /\ UNCHANGED <<task, lock, pc, local, age, lost>>

\* UpdateSystemTaskState; a handler that finds its lock lost returns, or does
\* not care (NewSystemTaskProgressReporter), which changes nothing.
Report(t) ==
    /\ job[t] \in {"running", "cancelled"}
    /\ \E at \in -Lag .. 0 :
         IF task[t].status = "running" /\ Leased(t, at)
         THEN age' = Touch(t, at) /\ UNCHANGED job
         ELSE job' = [job EXCEPT ![t] = "none"] /\ UNCHANGED age
    /\ UNCHANGED <<task, lock, pc, local, faults, lost>>

\* Mutant: the result is written whatever the status of the row.
Finish_AnyStatus(t, status) ==
    /\ job[t] \in {"running", "cancelled"}
    /\ \E at \in -Lag .. 0 :
         IF Leased(t, at)
         THEN /\ task' = [task EXCEPT ![t].status = status, ![t].key = FALSE]
              /\ job' = [job EXCEPT ![t] = "releasing"]
              /\ age' = Touch(t, at)
         ELSE job' = [job EXCEPT ![t] = "none"] /\ UNCHANGED <<task, age>>
    /\ UNCHANGED <<lock, pc, local, faults, lost>>

\* FinishSystemTask, first statement.
Finish(t, status) ==
    /\ job[t] \in {"running", "cancelled"}
    /\ \E at \in -Lag .. 0 :
         IF task[t].status = "running" /\ Leased(t, at)
         THEN /\ task' = [task EXCEPT ![t].status = status, ![t].key = FALSE]
              /\ job' = [job EXCEPT ![t] = "releasing"]
              /\ age' = Touch(t, at)
         ELSE job' = [job EXCEPT ![t] = "none"] /\ UNCHANGED <<task, age>>
    /\ UNCHANGED <<lock, pc, local, faults, lost>>

\* FinishSystemTask, second statement.
FinishRelease(t) ==
    /\ job[t] = "releasing" /\ job' = [job EXCEPT ![t] = "none"]
    /\ Release(t, task[t].by)
    /\ UNCHANGED <<task, pc, local, age, faults, lost>>

\* A statement of the handler fails and it returns; after the error of a
\* release the lock stays until it expires.
HandlerError(t) ==
    /\ job[t] \in {"running", "cancelled", "releasing"}
    /\ job' = [job EXCEPT ![t] = "none"]
    /\ faults < MaxFaults /\ faults' = faults + 1
    /\ UNCHANGED <<task, lock, pc, local, age, lost>>

-----------------------------------------------------------------------------
Crash(r) ==
    /\ r \in Crashable /\ pc[r] # "dead"
    /\ faults < MaxFaults /\ faults' = faults + 1
    /\ GoTo(r, "dead") /\ local' = [local EXCEPT ![r] = Idle]
    /\ job' = [t \in Tasks |->
           IF task[t].by = r THEN "none" ELSE job[t]]
    /\ lost' = lost \cup Forsaken(r)
    /\ UNCHANGED <<task, lock, age>>

\* Between writing the lock and marking the task.
Claiming(r) == pc[r] \in {"insert", "look", "steal", "fail", "mark"}

AtLeast(floor, n) == IF n < floor THEN floor ELSE n

\* The floors keep the order of locked_until and of what a runner has read.
Tick ==
    /\ lock' = IF lock = NoLock THEN NoLock
               ELSE [lock EXCEPT !.left = AtLeast(-Late - 1, @ - 1)]
    /\ local' = [r \in Runners |->
           IF Claiming(r) \/ pc[r] \in {"expireMark", "expireDelete"}
           THEN [local[r] EXCEPT
                    !.at = AtLeast(IF lock.left < @ THEN -Late ELSE -Late - 1, @ - 1)]
           ELSE local[r]]
    /\ age' = IF Created # {} /\ age < Interval THEN age + 1 ELSE age
    /\ UNCHANGED <<task, job, pc, faults, lost>>

RunnerStep(r) ==
    \/ ExpireRead(r) \/ ExpireMark(r) \/ ExpireDelete(r)
    \/ Prune(r) \/ ScheduleRead(r) \/ ScheduleCreate(r)
    \/ ClaimRead(r) \/ ClaimInsert(r) \/ ClaimLook(r) \/ ClaimSteal(r)
    \/ ClaimFail(r) \/ ClaimMark(r)

Ending(t) == FinishRelease(t) \/ \E status \in {"succeeded", "failed"} : Finish(t, status)

HandlerStep(t) ==
    Renew(t) \/ RenewError(t) \/ Report(t) \/ Ending(t) \/ HandlerError(t)

Next ==
    \/ \E r \in Runners : RunnerStep(r) \/ ExpireError(r) \/ ClaimError(r) \/ Crash(r)
    \/ \E t \in Tasks : HandlerStep(t)
    \/ Enqueue
    \/ Tick

\* Runners that live go on and their handlers end; every so often a pass comes
\* to the stale locks and to the pending rows; the clock advances.
Fairness ==
    /\ \A r \in Runners : /\ WF_vars(RunnerStep(r))
                         /\ SF_vars(ExpireRead(r)) /\ SF_vars(ClaimRead(r))
    /\ \A t \in Tasks : WF_vars(Ending(t))
    /\ WF_vars(Tick)

Spec == Init /\ [][Next]_vars

FairSpec == Spec /\ Fairness

-----------------------------------------------------------------------------
(* Properties                                                              *)

\* Rows, locks and the runners' loops have the values their types allow.
TypeOK ==
    /\ task \in [Tasks -> [status : TaskStatus, key : BOOLEAN, by : Runners \cup {None}]]
    /\ job \in [Tasks -> JobStatus]
    /\ lock \in [task : Tasks, by : Runners, left : -Late - 1 .. TTL] \cup {NoLock}
    /\ pc \in [Runners -> Step]
    /\ local \in [Runners -> [task : Tasks \cup {None}, at : -Late - 1 .. 0,
                              seen : Tasks \cup {None}, seenBy : Runners \cup {None}]]
    /\ age \in 0 .. Interval
    /\ faults \in 0 .. MaxFaults
    /\ lost \subseteq Tasks

\* No running row is forgotten: the type's lock names it and its runner, or
\* the runner that took the lock over is about to mark it failed.  Without
\* such a lock nothing ends the row, and its active key blocks the type.  The
\* claim protocol (ClaimSystemTask) gives up a run in two cases only: a claim
\* that marks its row later than its own lease, and a takeover that fails or
\* dies before it has failed the former run.
RunningIsLeased ==
    \A t \in Tasks : task[t].status = "running" =>
      \/ HeldBy(t, task[t].by)
      \/ \E r \in Runners : pc[r] = "fail" /\ local[r].seen = t
      \/ t \in lost

\* The active key is held by at most one row, and only while that row can
\* still run, whoever ended it (finish, expiry, takeover): otherwise no
\* further task of the type could be inserted.
ActiveKeyIsFreed ==
    /\ \A t \in Tasks : task[t].key => Active(t)
    /\ \A t, u \in Tasks : task[t].key /\ task[u].key => t = u

\* The lock is taken from a runner only after its lease has run out, however
\* old the reading of a takeover (acquireSystemTaskLock) or of the stale-lock
\* pass (ExpireStaleSystemTaskLocks): a lease that was renewed since keeps its
\* lock.  Otherwise the lock goes because its claim gives it back or because
\* the run has ended.  The row is not protected: the pass fails it without
\* looking at the lock again.
LeaseIsHonoured ==
    [][\A t \in Tasks, r \in Runners : HeldBy(t, r) /\ ~HeldBy(t, r)' =>
         \/ lock.left < 0
         \/ Claiming(r) /\ local[r].task = t
         \/ task[t].by = r /\ job[t] = "releasing"]_vars

\* A handler starts only for a row nobody has executed, and under a current
\* lease, so that no other handler of the type has one, unless its claim came
\* later than that lease (ClaimSystemTask, lost).
StartsAlone ==
    [][\A t \in Tasks : job[t] # "running" /\ job'[t] = "running" =>
         /\ task[t].by = None
         /\ Leased(t, 0)' \/ t \in lost']_vars

\* A row that has ended stays as it ended until it is pruned: neither the
\* late runner of a run that was failed meanwhile (FinishSystemTask), though
\* its heartbeat may have renewed the lock, nor a claim that read the row as
\* pending, nor a second expiry rewrites it.
EndedIsFinal ==
    [][\A t \in Tasks : Terminal(t) =>
         task'[t].status \in {task[t].status, "pruned"}]_vars

\* "mark expired leases failed" (service/system_task.go): a run whose lease is
\* over does not stay running.
ExpiredRunsEnd ==
    \A t \in Tasks : task[t].status = "running" /\ ~Leased(t, 0) ~>
      task[t].status # "running"

=============================================================================
