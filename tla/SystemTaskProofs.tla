-------------------------- MODULE SystemTaskProofs --------------------------
(***************************************************************************)
(* Proofs about SystemTask for any number of runners, tasks, crashes and   *)
(* database errors and any lease, lag and interval.                        *)
(***************************************************************************)
EXTENDS SystemTask, TLAPS

TaskRow  == [status : TaskStatus, key : BOOLEAN, by : Runners \cup {None}]
LockRow  == [task : Tasks, by : Runners, left : -Late - 1 .. TTL] \cup {NoLock}
LocalRow == [task : Tasks \cup {None}, at : -Late - 1 .. 0,
             seen : Tasks \cup {None}, seenBy : Runners \cup {None}]

\* A runner that claims works on a row, and one that ends a run knows which.
LoopOK ==
    \A r \in Runners :
      /\ Claiming(r) => local[r].task \in Tasks
      /\ pc[r] \in {"expireMark", "steal", "fail"} => local[r].seen \in Tasks

TypeInv == TypeOK /\ LoopOK

\* The columns of a lock that exists.
LEMMA LockFields ==
  ASSUME TypeOK, lock # NoLock
  PROVE  /\ lock \in [task : Tasks, by : Runners, left : -Late - 1 .. TTL]
         /\ lock.task \in Tasks /\ lock.by \in Runners /\ lock.left \in Int
         /\ lock.left <= TTL
  BY ClockAssumption DEF TypeOK

\* A lock that is written now is a row of the table.
LEMMA NewLock ==
  ASSUME NEW t \in Tasks, NEW r \in Runners, NEW at \in Int, at <= 0, at >= -Late - 1
  PROVE  Lock(t, r, at + TTL) \in LockRow /\ Lock(t, r, at + TTL) # NoLock
<1>1. at + TTL \in -Late - 1 .. TTL
  BY ClockAssumption
<1>2. t # None
  BY RunnersAssumption
<1> QED BY <1>1, <1>2 DEF Lock, LockRow, NoLock

\* The age of the last scheduled row, after a write.
LEMMA TouchType ==
  ASSUME TypeOK, NEW t, NEW at \in Int, at <= 0
  PROVE  Touch(t, at) \in 0 .. Interval
  BY ClockAssumption DEF TypeOK, Touch

\* The timestamps of statements whose clock was read up to Lag ticks ago.
LEMMA LagRange ==
  ASSUME NEW at \in -Lag .. 0
  PROVE  at \in Int /\ at <= 0 /\ at >= -Late - 1 /\ at + TTL >= 0
  BY ClockAssumption

\* The empty tables and idle runners are typed.
LEMMA InitTypeInv == Init => TypeInv
<1> SUFFICES ASSUME Init PROVE TypeInv
  OBVIOUS
<1>1. PICK legacy \in 0 .. MaxLegacy :
        task = [t \in Tasks |-> [status |-> IF t <= legacy THEN "pending" ELSE "none",
                                 key |-> FALSE, by |-> None]]
  BY DEF Init
<1> QED
  BY <1>1, ClockAssumption, RunnersAssumption
  DEF Init, TypeInv, TypeOK, LoopOK, Claiming, Idle, NoLock, TaskStatus, JobStatus, Step

\* What a step of a runner's loop does to its own program counter and reads.
LEMMA LoopStep ==
  ASSUME TypeInv, NEW r \in Runners, NEW step \in Step, NEW v \in LocalRow,
         GoTo(r, step), local' = [local EXCEPT ![r] = v],
         step \in {"insert", "look", "steal", "fail", "mark"} => v.task \in Tasks,
         step \in {"expireMark", "steal", "fail"} => v.seen \in Tasks
  PROVE  /\ pc' \in [Runners -> Step] /\ local' \in [Runners -> LocalRow]
         /\ LoopOK'
  BY DEF TypeInv, TypeOK, LoopOK, Claiming, GoTo, LocalRow

\* A step that leaves the runners alone.
LEMMA LoopStays ==
  ASSUME TypeInv, UNCHANGED <<pc, local>>
  PROVE  /\ pc' \in [Runners -> Step] /\ local' \in [Runners -> LocalRow]
         /\ LoopOK'
  BY DEF TypeInv, TypeOK, LoopOK, Claiming, LocalRow

\* The reads of a runner that starts its loop.
LEMMA IdleType == Idle \in LocalRow
  BY ClockAssumption DEF Idle, LocalRow

\* A new row is typed.
LEMMA InsertType ==
  ASSUME TypeOK, NEW t \in Tasks, Insert(t)
  PROVE  task' \in [Tasks -> TaskRow] /\ age' \in 0 .. Interval
  BY ClockAssumption DEF TypeOK, Insert, TaskRow, TaskStatus

\* So is one whose lease is found expired.
LEMMA LeaseExpiredType ==
  ASSUME TypeOK, NEW t \in Tasks, LeaseExpired(t)
  PROVE  task' \in [Tasks -> TaskRow] /\ age' \in 0 .. Interval
<1>1. Touch(t, 0) \in 0 .. Interval
  BY TouchType
<1>2. CASE task[t].status = "running"
  BY <1>1, <1>2 DEF TypeOK, LeaseExpired, TaskRow, TaskStatus
<1>3. CASE task[t].status # "running"
  BY <1>3 DEF TypeOK, LeaseExpired, TaskRow
<1> QED BY <1>2, <1>3

\* Releasing a lock deletes it or leaves it.
LEMMA ReleaseType ==
  ASSUME TypeOK, NEW t, NEW r, Release(t, r)
  PROVE  lock' \in LockRow
  BY DEF TypeOK, Release, LockRow

\* The two outcomes of the UPDATE that marks the row running.
LEMMA ClaimMarkPending ==
  ASSUME NEW r, ClaimMark(r), task[local[r].task].status = "pending"
  PROVE  /\ task' = [task EXCEPT ![local[r].task].status = "running", ![local[r].task].by = r]
         /\ age' = Touch(local[r].task, local[r].at) /\ lock' = lock
         /\ lost' = IF Overdue(r) THEN lost \cup {local[r].task} ELSE lost
         /\ \/ job' = [job EXCEPT ![local[r].task] = "running"] /\ faults' = faults
            \/ job' = job /\ faults < MaxFaults /\ faults' = faults + 1
  BY ZenonT(60) DEF ClaimMark

\* The row is not pending any more: the lock is given back.
LEMMA ClaimMarkOther ==
  ASSUME NEW r, ClaimMark(r), task[local[r].task].status # "pending"
  PROVE  Release(local[r].task, r) /\ UNCHANGED <<task, job, age, faults, lost>>
  BY DEF ClaimMark

\* A claim that forgets whose lock it took.
LEMMA Unread ==
  ASSUME TypeInv, NEW r \in Runners
  PROVE  \E v \in LocalRow : /\ v.task = local[r].task /\ v.at = local[r].at
                            /\ [local EXCEPT ![r].seen = None] = [local EXCEPT ![r] = v]
<1> DEFINE v == [local[r] EXCEPT !.seen = None]
<1>1. local[r] \in LocalRow
  BY DEF TypeInv, TypeOK, LocalRow
<1>2. v \in LocalRow /\ v.task = local[r].task /\ v.at = local[r].at
  BY <1>1 DEF LocalRow
<1>3. [local EXCEPT ![r].seen = None] = [local EXCEPT ![r] = v]
  OBVIOUS
<1> HIDE DEF v
<1> QED BY <1>2, <1>3

\* What a claim forsakes is a row.
LEMMA ForsakenType ==
  ASSUME TypeInv, NEW r \in Runners
  PROVE  Forsaken(r) \subseteq Tasks
  BY DEF TypeInv, LoopOK, Forsaken

\* Every step of a runner keeps the types.
LEMMA RunnerTypes ==
  ASSUME TypeInv, NEW r \in Runners, RunnerStep(r) \/ ExpireError(r) \/ ClaimError(r)
  PROVE  TypeInv'
<1> USE DEF TypeInv
<1> DEFINE Rest == /\ task' \in [Tasks -> TaskRow] /\ job' \in [Tasks -> JobStatus]
                   /\ lock' \in LockRow /\ age' \in 0 .. Interval
                   /\ faults' \in 0 .. MaxFaults /\ lost' \subseteq Tasks
           Loop == /\ pc' \in [Runners -> Step] /\ local' \in [Runners -> LocalRow]
                   /\ LoopOK'
<1>0. ASSUME Rest, Loop PROVE TypeInv'
  BY <1>0 DEF TypeOK, TaskRow, LockRow, LocalRow
<1>1. /\ task \in [Tasks -> TaskRow] /\ job \in [Tasks -> JobStatus]
      /\ lock \in LockRow /\ age \in 0 .. Interval /\ faults \in 0 .. MaxFaults
      /\ local \in [Runners -> LocalRow] /\ pc \in [Runners -> Step]
      /\ lost \subseteq Tasks
  BY DEF TypeOK, TaskRow, LockRow, LocalRow
<1>2. local[r] \in LocalRow /\ local[r].at \in Int /\ local[r].at <= 0
      /\ local[r].at >= -Late - 1
  BY <1>1, ClockAssumption DEF LocalRow
<1>3. local' = local => local' = [local EXCEPT ![r] = local[r]]
  BY <1>1
<1>4. CASE ExpireRead(r)
  <2>1. lock # NoLock /\ lock.task \in Tasks /\ lock.by \in Runners
    BY <1>4, LockFields DEF ExpireRead
  <2> DEFINE v == [Idle EXCEPT !.seen = lock.task, !.seenBy = lock.by]
  <2>2. v \in LocalRow /\ v.seen \in Tasks
    BY <2>1, IdleType DEF LocalRow, Idle
  <2>3. GoTo(r, "expireMark") /\ local' = [local EXCEPT ![r] = v]
    BY <1>4 DEF ExpireRead
  <2>4. "expireMark" \in Step
    BY DEF Step
  <2> HIDE DEF v
  <2>5. Loop
    BY <2>2, <2>3, <2>4, LoopStep
  <2> QED BY <1>0, <1>1, <1>4, <2>5 DEF ExpireRead
<1>5. CASE ScheduleRead(r)
  <2>1. local' = local /\ GoTo(r, "create")
    BY <1>5 DEF ScheduleRead
  <2>2. Loop
    BY <1>2, <1>3, <2>1, LoopStep DEF Step
  <2> QED BY <1>0, <1>1, <1>5, <2>2 DEF ScheduleRead
<1>6. CASE ExpireMark(r)
  <2>1. local' = local /\ GoTo(r, "expireDelete") /\ local[r].seen \in Tasks
    BY <1>6 DEF ExpireMark, LoopOK
  <2>2. Loop
    BY <1>2, <1>3, <2>1, LoopStep DEF Step
  <2> QED BY <1>0, <1>1, <1>6, <2>1, <2>2, LeaseExpiredType DEF ExpireMark
<1>7. CASE ExpireDelete(r) \/ ExpireError(r)
  <2>1. local' = [local EXCEPT ![r] = Idle] /\ GoTo(r, "pass")
    BY <1>7 DEF ExpireDelete, ExpireError, EndPass
  <2>2. Loop
    BY <2>1, LoopStep, IdleType DEF Step
  <2>3. lock' \in LockRow /\ faults' \in 0 .. MaxFaults
    BY <1>1, <1>7, ClockAssumption DEF ExpireDelete, ExpireError, LockRow
  <2> QED BY <1>0, <1>1, <1>7, <2>2, <2>3 DEF ExpireDelete, ExpireError
<1>8. CASE Prune(r)
  <2>1. task' \in [Tasks -> TaskRow]
    BY <1>1, <1>8 DEF Prune, TaskRow, TaskStatus
  <2> QED BY <1>0, <1>1, <1>8, <2>1, LoopStays DEF Prune
<1>9. CASE ScheduleCreate(r)
  <2>1. local' = local /\ GoTo(r, "pass")
    BY <1>9 DEF ScheduleCreate
  <2>2. Loop
    BY <1>2, <1>3, <2>1, LoopStep DEF Step
  <2>3. task' \in [Tasks -> TaskRow] /\ age' \in 0 .. Interval
    BY <1>1, <1>9, InsertType DEF ScheduleCreate
  <2> QED BY <1>0, <1>1, <1>9, <2>2, <2>3 DEF ScheduleCreate
<1>10. CASE ClaimRead(r)
  <2>1. ASSUME NEW t \in Tasks, local' = [local EXCEPT ![r] = [Idle EXCEPT !.task = t]],
               GoTo(r, "insert")
        PROVE  Loop
    <3> DEFINE v == [Idle EXCEPT !.task = t]
    <3>1. v \in LocalRow /\ v.task \in Tasks
      BY IdleType DEF LocalRow, Idle
    <3>2. local' = [local EXCEPT ![r] = v]
      BY <2>1
    <3> HIDE DEF v
    <3> QED BY <2>1, <3>1, <3>2, LoopStep DEF Step
  <2>2. Loop
    BY <1>10, <2>1 DEF ClaimRead
  <2> QED BY <1>0, <1>1, <1>10, <2>2 DEF ClaimRead
<1>11. CASE ClaimInsert(r)
  <2>1. local[r].task \in Tasks
    BY <1>11 DEF ClaimInsert, LoopOK, Claiming
  <2>2. local' = local /\ \E s \in {"mark", "look"} : GoTo(r, s)
    BY <1>11 DEF ClaimInsert
  <2>3. Loop
    BY <1>2, <1>3, <2>1, <2>2, LoopStep DEF Step
  <2>4. lock' \in LockRow
    BY <1>1, <1>2, <1>11, <2>1, NewLock DEF ClaimInsert
  <2> QED BY <1>0, <1>1, <1>11, <2>3, <2>4 DEF ClaimInsert
<1>12. CASE ClaimLook(r)
  <2>1. local[r].task \in Tasks
    BY <1>12 DEF ClaimLook, LoopOK, Claiming
  <2>2. CASE lock = NoLock \/ lock.left >= local[r].at
    BY <1>0, <1>1, <1>12, <2>2, LoopStep, IdleType DEF ClaimLook, EndPass, Step
  <2>3. CASE ~(lock = NoLock \/ lock.left >= local[r].at)
    <3> DEFINE v == [local[r] EXCEPT !.seen = lock.task]
    <3>1. lock.task \in Tasks
      BY <2>3, LockFields
    <3>2. v \in LocalRow /\ v.task \in Tasks /\ v.seen \in Tasks
      BY <1>2, <2>1, <3>1 DEF LocalRow
    <3>3. local' = [local EXCEPT ![r] = v] /\ GoTo(r, "steal")
      BY <1>1, <1>12, <2>3 DEF ClaimLook
    <3> HIDE DEF v
    <3>4. Loop
      BY <3>2, <3>3, LoopStep DEF Step
    <3> QED BY <1>0, <1>1, <1>12, <3>4 DEF ClaimLook
  <2> QED BY <2>2, <2>3
<1>13. CASE ClaimSteal(r)
  <2>1. local[r].task \in Tasks /\ local[r].seen \in Tasks
    BY <1>13 DEF ClaimSteal, LoopOK, Claiming
  <2>2. CASE lock # NoLock /\ lock.left < local[r].at
    <3>1. \/ local' = local /\ GoTo(r, "fail")
          \/ local' = [local EXCEPT ![r].seen = None] /\ GoTo(r, "mark")
      BY <1>13, <2>2 DEF ClaimSteal
    <3>2. Loop
      BY <1>2, <1>3, <2>1, <3>1, LoopStep, Unread DEF Step
    <3>3. lock' \in LockRow
      BY <1>2, <1>13, <2>1, <2>2, NewLock DEF ClaimSteal
    <3> QED BY <1>0, <1>1, <1>13, <3>2, <3>3 DEF ClaimSteal
  <2>3. CASE ~(lock # NoLock /\ lock.left < local[r].at)
    BY <1>0, <1>1, <1>13, <2>3, LoopStep, IdleType DEF ClaimSteal, EndPass, Step
  <2> QED BY <2>2, <2>3
<1>14. CASE ClaimFail(r)
  <2>1. local[r].task \in Tasks /\ local[r].seen \in Tasks
    BY <1>14 DEF ClaimFail, LoopOK, Claiming
  <2>2. local' = [local EXCEPT ![r].seen = None] /\ GoTo(r, "mark")
    BY <1>14 DEF ClaimFail
  <2>3. Loop
    BY <2>1, <2>2, LoopStep, Unread DEF Step
  <2> QED BY <1>0, <1>1, <1>14, <2>1, <2>3, LeaseExpiredType DEF ClaimFail
<1>15. CASE ClaimMark(r)
  <2> DEFINE t == local[r].task
  <2>1. t \in Tasks
    BY <1>15 DEF ClaimMark, LoopOK, Claiming
  <2>2. Loop
    BY <1>15, LoopStep, IdleType DEF ClaimMark, EndPass, Step
  <2>3. CASE task[t].status = "pending"
    <3>1. task' = [task EXCEPT ![t].status = "running", ![t].by = r]
          /\ age' = Touch(t, local[r].at) /\ lock' = lock
          /\ lost' = (IF Overdue(r) THEN lost \cup {t} ELSE lost)
          /\ \/ job' = [job EXCEPT ![t] = "running"] /\ faults' = faults
             \/ job' = job /\ faults < MaxFaults /\ faults' = faults + 1
      BY <1>15, <2>3, ClaimMarkPending, Zenon
    <3>2. task' \in [Tasks -> TaskRow]
      <4>1. [task[t] EXCEPT !.status = "running", !.by = r] \in TaskRow
        BY <1>1, <2>1 DEF TaskRow, TaskStatus
      <4>2. task' = [task EXCEPT ![t] = [task[t] EXCEPT !.status = "running", !.by = r]]
        BY <1>1, <2>1, <3>1 DEF TaskRow
      <4> QED BY <1>1, <4>1, <4>2
    <3>3. job' \in [Tasks -> JobStatus]
      BY <1>1, <2>1, <3>1 DEF JobStatus
    <3>4. age' \in 0 .. Interval /\ faults' \in 0 .. MaxFaults
      BY <1>1, <1>2, <3>1, TouchType, ClockAssumption
    <3>5. lost' \subseteq Tasks
      BY <1>1, <2>1, <3>1
    <3> QED BY <1>0, <1>1, <2>2, <3>1, <3>2, <3>3, <3>4, <3>5
  <2>4. CASE task[t].status # "pending"
    <3>1. Release(t, r) /\ UNCHANGED <<task, job, age, faults, lost>>
      BY <1>15, <2>4, ClaimMarkOther
    <3> QED BY <1>0, <1>1, <2>2, <3>1, ReleaseType
  <2> QED BY <2>3, <2>4
<1>16. CASE ClaimError(r)
  <2>1. Loop
    BY <1>16, LoopStep, IdleType DEF ClaimError, EndPass, Step
  <2>2. lock' \in LockRow /\ faults' \in 0 .. MaxFaults /\ lost' \subseteq Tasks
    BY <1>1, <1>16, ReleaseType, ForsakenType, ClockAssumption DEF ClaimError
  <2> QED BY <1>0, <1>1, <1>16, <2>1, <2>2 DEF ClaimError
<1> QED
  BY <1>4, <1>5, <1>6, <1>7, <1>8, <1>9, <1>10, <1>11, <1>12, <1>13, <1>14, <1>15, <1>16
  DEF RunnerStep

\* So does every step of a handler.
LEMMA HandlerTypes ==
  ASSUME TypeInv, NEW t \in Tasks, HandlerStep(t)
  PROVE  TypeInv'
<1> USE DEF TypeInv
<1>1. /\ task \in [Tasks -> TaskRow] /\ job \in [Tasks -> JobStatus]
      /\ lock \in LockRow /\ age \in 0 .. Interval /\ faults \in 0 .. MaxFaults
  BY DEF TypeOK, TaskRow, LockRow
<1>2. UNCHANGED <<pc, local, lost>>
  BY DEF HandlerStep, Renew, RenewError, Report, Ending, Finish, FinishRelease, HandlerError
<1>3. job' \in [Tasks -> JobStatus]
  BY <1>1 DEF HandlerStep, Renew, RenewError, Report, Ending, Finish, FinishRelease,
              HandlerError, JobStatus
<1>4. lock' \in LockRow
  <2>1. CASE Renew(t)
    <3>1. PICK at \in -Lag .. 0 :
            IF Leased(t, at) THEN lock' = [lock EXCEPT !.left = at + TTL]
            ELSE lock' = lock
      BY <2>1 DEF Renew
    <3>2. CASE Leased(t, at)
      <4>1. at + TTL \in -Late - 1 .. TTL
        BY LagRange, ClockAssumption
      <4>2. lock \in [task : Tasks, by : Runners, left : -Late - 1 .. TTL]
        BY <3>2, LockFields DEF Leased, HeldBy
      <4> QED BY <3>1, <3>2, <4>1, <4>2 DEF LockRow
    <3> QED BY <1>1, <3>1, <3>2
  <2>2. CASE FinishRelease(t)
    BY <2>2, ReleaseType DEF FinishRelease
  <2> QED BY <1>1, <2>1, <2>2 DEF HandlerStep, RenewError, Report, Ending, Finish, HandlerError
<1>5. age' \in 0 .. Interval
  <2>1. \A at \in -Lag .. 0 : Touch(t, at) \in 0 .. Interval
    BY TouchType, LagRange
  <2> QED BY <1>1, <2>1 DEF HandlerStep, Renew, RenewError, Report, Ending, Finish,
                            FinishRelease, HandlerError
<1>6. faults' \in 0 .. MaxFaults
  BY <1>1, ClockAssumption DEF HandlerStep, Renew, RenewError, Report, Ending, Finish,
                               FinishRelease, HandlerError
<1>7. task' \in [Tasks -> TaskRow]
  <2>1. ASSUME NEW s \in {"succeeded", "failed"}, Finish(t, s)
        PROVE  task' \in [Tasks -> TaskRow]
    <3>1. [task[t] EXCEPT !.status = s, !.key = FALSE] \in TaskRow
      BY <1>1 DEF TaskRow, TaskStatus
    <3>2. task' = task \/ task' = [task EXCEPT ![t].status = s, ![t].key = FALSE]
      BY <2>1 DEF Finish
    <3>3. [task EXCEPT ![t].status = s, ![t].key = FALSE]
            = [task EXCEPT ![t] = [task[t] EXCEPT !.status = s, !.key = FALSE]]
      BY <1>1 DEF TaskRow
    <3> QED BY <1>1, <3>1, <3>2, <3>3
  <2> QED BY <1>1, <2>1 DEF HandlerStep, Renew, RenewError, Report, Ending, FinishRelease,
                            HandlerError
<1> QED BY <1>2, <1>3, <1>4, <1>5, <1>6, <1>7, LoopStays DEF TypeOK, TaskRow, LockRow, LocalRow

\* So do crashes, requests for a task, and the clock.
LEMMA OtherTypes ==
  ASSUME TypeInv, (\E r \in Runners : Crash(r)) \/ Enqueue \/ Tick \/ UNCHANGED vars
  PROVE  TypeInv'
<1> USE DEF TypeInv
<1>1. ASSUME NEW r \in Runners, Crash(r) PROVE TypeInv'
  <2>1. /\ pc' \in [Runners -> Step] /\ local' \in [Runners -> LocalRow]
        /\ LoopOK'
    BY <1>1, LoopStep, IdleType DEF Crash, Step
  <2>2. job' \in [Tasks -> JobStatus]
    BY <1>1 DEF Crash, TypeOK, JobStatus
  <2>3. faults' \in 0 .. MaxFaults /\ lost' \subseteq Tasks
    BY <1>1, ForsakenType, ClockAssumption DEF Crash, TypeOK
  <2> QED BY <1>1, <2>1, <2>2, <2>3 DEF Crash, TypeOK, LocalRow
<1>2. CASE Enqueue
  BY <1>2, InsertType, LoopStays DEF Enqueue, TypeOK, TaskRow, LocalRow
<1>3. CASE Tick
  <2>1. lock' \in LockRow
    <3>1. CASE lock = NoLock
      BY <1>3, <3>1 DEF Tick, LockRow
    <3>2. CASE lock # NoLock
      <4>1. lock' = [lock EXCEPT !.left = AtLeast(-Late - 1, @ - 1)]
        BY <1>3, <3>2 DEF Tick
      <4>2. AtLeast(-Late - 1, lock.left - 1) \in -Late - 1 .. TTL
        BY <3>2, LockFields, ClockAssumption DEF AtLeast
      <4> QED BY <3>2, <4>1, <4>2, LockFields DEF LockRow
    <3> QED BY <3>1, <3>2
  <2>2. ASSUME NEW r \in Runners
        PROVE  /\ local'[r] \in LocalRow
               /\ local'[r].task = local[r].task /\ local'[r].seen = local[r].seen
    <3>1. local[r] \in LocalRow /\ local[r].at \in -Late - 1 .. 0
      BY DEF TypeOK, LocalRow
    <3>2. CASE Claiming(r) \/ pc[r] \in {"expireMark", "expireDelete"}
      <4> DEFINE n == AtLeast(IF lock.left < local[r].at THEN -Late ELSE -Late - 1,
                              local[r].at - 1)
      <4>1. local'[r] = [local[r] EXCEPT !.at = n]
        BY <1>3, <3>2 DEF Tick
      <4>2. n \in -Late - 1 .. 0
        BY <3>1, ClockAssumption DEF AtLeast
      <4> HIDE DEF n
      <4> QED BY <3>1, <4>1, <4>2 DEF LocalRow
    <3>3. CASE ~(Claiming(r) \/ pc[r] \in {"expireMark", "expireDelete"})
      BY <1>3, <3>1, <3>3 DEF Tick
    <3> QED BY <3>2, <3>3
  <2>3. local' \in [Runners -> LocalRow]
    <3>1. local' = [r \in Runners |-> local'[r]]
      BY <1>3 DEF Tick
    <3> QED BY <2>2, <3>1
  <2>4. LoopOK' /\ pc' = pc
    BY <1>3, <2>2 DEF Tick, LoopOK, Claiming
  <2>5. age' \in 0 .. Interval
    BY <1>3, ClockAssumption DEF Tick, TypeOK
  <2> QED BY <1>3, <2>1, <2>3, <2>4, <2>5 DEF Tick, TypeOK, LockRow, LocalRow
<1>4. CASE UNCHANGED vars
  BY <1>4, LoopStays DEF vars, TypeOK, LocalRow
<1> QED BY <1>1, <1>2, <1>3, <1>4

\* Every step keeps the types.
LEMMA NextTypeInv == TypeInv /\ [Next]_vars => TypeInv'
  BY RunnerTypes, HandlerTypes, OtherTypes DEF Next

\* Every reachable state of rows, lock and runners is well typed.
THEOREM TaskTypeCorrect == Spec => []TypeOK
<1>1. TypeInv => TypeOK
  BY DEF TypeInv
<1> QED BY <1>1, InitTypeInv, NextTypeInv, PTL DEF Spec

-----------------------------------------------------------------------------
(* What a step may do to the rows of system_tasks.                         *)

MarkRunning(t, r) ==
    /\ task[t].status = "pending"
    /\ task' = [task EXCEPT ![t].status = "running", ![t].by = r]

EndRow(t, s) ==
    /\ task[t].status = "running"
    /\ task' = [task EXCEPT ![t].status = s, ![t].key = FALSE]

RowStep ==
    \/ task' = task
    \/ \E t \in Tasks : Insert(t)
    \/ \E t \in Tasks, r \in Runners : MarkRunning(t, r)
    \/ \E t \in Tasks, s \in {"succeeded", "failed"} : EndRow(t, s)
    \/ \E r \in Runners : Prune(r)

\* An expired lease ends its row, if that still runs.
LEMMA ExpireIsRowStep ==
  ASSUME NEW t \in Tasks, LeaseExpired(t)
  PROVE  task' = task \/ EndRow(t, "failed")
  BY DEF LeaseExpired, EndRow

\* Every step changes the rows in one of these ways.
LEMMA RowSteps == TypeInv /\ [Next]_vars => RowStep
<1> SUFFICES ASSUME TypeInv, [Next]_vars PROVE RowStep
  OBVIOUS
<1>1. ASSUME NEW r \in Runners, RunnerStep(r) \/ ExpireError(r) \/ ClaimError(r) \/ Crash(r)
      PROVE  RowStep
  <2>1. CASE ExpireMark(r) \/ ClaimFail(r)
    <3>1. local[r].seen \in Tasks /\ LeaseExpired(local[r].seen)
      BY <2>1 DEF TypeInv, LoopOK, ExpireMark, ClaimFail
    <3> QED BY <3>1, ExpireIsRowStep DEF RowStep
  <2>2. CASE ClaimMark(r)
    <3>1. local[r].task \in Tasks
      BY <2>2 DEF TypeInv, LoopOK, Claiming, ClaimMark
    <3>2. CASE task[local[r].task].status = "pending"
      <4>1. MarkRunning(local[r].task, r)
        BY <2>2, <3>2, ClaimMarkPending DEF MarkRunning
      <4> QED BY <3>1, <4>1 DEF RowStep
    <3>3. CASE task[local[r].task].status # "pending"
      BY <2>2, <3>3, ClaimMarkOther DEF RowStep
    <3> QED BY <3>2, <3>3
  <2>3. CASE ScheduleCreate(r)
    BY <2>3 DEF ScheduleCreate, RowStep
  <2>4. CASE Prune(r)
    BY <2>4 DEF RowStep
  <2>5. CASE \/ ExpireRead(r) \/ ExpireDelete(r) \/ ScheduleRead(r) \/ ClaimRead(r)
             \/ ClaimInsert(r) \/ ClaimLook(r) \/ ClaimSteal(r)
             \/ ExpireError(r) \/ ClaimError(r) \/ Crash(r)
    BY <2>5 DEF ExpireRead, ExpireDelete, ScheduleRead, ClaimRead,
                ClaimInsert, ClaimLook, ClaimSteal, ExpireError, ClaimError, Crash, RowStep
  <2> QED BY <1>1, <2>1, <2>2, <2>3, <2>4, <2>5 DEF RunnerStep
<1>2. ASSUME NEW t \in Tasks, HandlerStep(t) PROVE RowStep
  <2>1. ASSUME NEW s \in {"succeeded", "failed"}, Finish(t, s) PROVE RowStep
    <3>1. task' = task \/ EndRow(t, s)
      BY <2>1 DEF Finish, EndRow
    <3> QED BY <3>1 DEF RowStep
  <2> QED BY <1>2, <2>1 DEF HandlerStep, Ending, Renew, RenewError, Report, FinishRelease,
                            HandlerError, RowStep
<1>3. CASE Enqueue
  BY <1>3 DEF Enqueue, RowStep
<1>4. CASE Tick \/ UNCHANGED vars
  BY <1>4 DEF Tick, vars, RowStep
<1> QED BY <1>1, <1>2, <1>3, <1>4 DEF Next

\* The same, seen from one row.
RowMoves(t) ==
    \/ task'[t] = task[t]
    \/ /\ task[t].status = "none" /\ \A u \in Tasks : ~task[u].key
       /\ task'[t] = [status |-> "pending", key |-> TRUE, by |-> None]
    \/ /\ task[t].status = "pending" /\ task'[t].status = "running"
       /\ task'[t].key = task[t].key
    \/ /\ task[t].status = "running" /\ task'[t].status \in {"succeeded", "failed"}
       /\ task'[t].key = FALSE /\ task'[t].by = task[t].by
    \/ /\ task[t].status \in {"succeeded", "failed"} /\ task'[t].status = "pruned"
       /\ task'[t].key = task[t].key /\ task'[t].by = task[t].by

\* What they mean for one row.
LEMMA RowsMove ==
  ASSUME TypeInv, RowStep, NEW t \in Tasks
  PROVE  RowMoves(t)
<1>1. task \in [Tasks -> TaskRow]
  BY DEF TypeInv, TypeOK, TaskRow
<1>2. ASSUME NEW u \in Tasks, Insert(u) PROVE RowMoves(t)
  BY <1>1, <1>2 DEF Insert, RowMoves
<1>3. ASSUME NEW u \in Tasks, NEW r \in Runners, MarkRunning(u, r) PROVE RowMoves(t)
  BY <1>1, <1>3 DEF MarkRunning, RowMoves, TaskRow
<1>4. ASSUME NEW u \in Tasks, NEW s \in {"succeeded", "failed"}, EndRow(u, s)
      PROVE  RowMoves(t)
  BY <1>1, <1>4 DEF EndRow, RowMoves, TaskRow
<1>5. ASSUME NEW r \in Runners, Prune(r) PROVE RowMoves(t)
  BY <1>1, <1>5 DEF Prune, RowMoves, Terminal, TaskRow
<1> QED BY <1>2, <1>3, <1>4, <1>5 DEF RowStep, RowMoves

\* At most one row gains an active key in a step, and then no other holds one.
LEMMA OneNewKey ==
  ASSUME TypeInv, RowStep, NEW t \in Tasks, task'[t].key, ~task[t].key,
         NEW u \in Tasks, task'[u].key
  PROVE  u = t
<1>1. task \in [Tasks -> TaskRow]
  BY DEF TypeInv, TypeOK, TaskRow
<1>2. PICK i \in Tasks : Insert(i)
  <2>1. task'[t].status = "pending" /\ task[t].status = "none"
    <3>1. RowMoves(t)
      BY RowsMove
    <3>2. task'[t].key # task[t].key /\ task'[t].key # FALSE
      BY Zenon
    <3>3. CASE /\ task[t].status = "none" /\ \A v \in Tasks : ~task[v].key
               /\ task'[t] = [status |-> "pending", key |-> TRUE, by |-> None]
      BY <3>3
    <3> QED BY <3>1, <3>2, <3>3, Zenon DEF RowMoves
  <2>2. ASSUME NEW v \in Tasks, NEW r \in Runners, MarkRunning(v, r) PROVE FALSE
    BY <1>1, <2>1, <2>2 DEF MarkRunning, TaskRow
  <2>3. ASSUME NEW v \in Tasks, NEW s \in {"succeeded", "failed"}, EndRow(v, s) PROVE FALSE
    BY <1>1, <2>1, <2>3 DEF EndRow, TaskRow
  <2>4. ASSUME NEW r \in Runners, Prune(r) PROVE FALSE
    BY <1>1, <2>1, <2>4 DEF Prune, Terminal, TaskRow
  <2> QED BY <2>1, <2>2, <2>3, <2>4 DEF RowStep
<1>3. \A v \in Tasks : v # i => ~task'[v].key
  BY <1>1, <1>2 DEF Insert
<1> QED BY <1>3

-----------------------------------------------------------------------------
(* The active key.                                                         *)

\* Nobody executes a row before it is claimed.
Unclaimed == \A t \in Tasks : task[t].status \in {"none", "pending"} => task[t].by = None

KeyInv == TypeInv /\ ActiveKeyIsFreed /\ Unclaimed

\* The rows there may be at the start have no key and no runner.
LEMMA InitKeyInv == Init => KeyInv
<1> SUFFICES ASSUME Init PROVE KeyInv
  OBVIOUS
<1>1. ASSUME NEW t \in Tasks PROVE ~task[t].key /\ task[t].by = None
  <2>1. PICK legacy \in 0 .. MaxLegacy :
          task[t] = [status |-> IF t <= legacy THEN "pending" ELSE "none",
                     key |-> FALSE, by |-> None]
    BY DEF Init
  <2>2. task[t].key = FALSE
    BY <2>1, SMT
  <2>3. task[t].by = None
    BY <2>1, SMT
  <2> QED BY <2>2, <2>3, Zenon
<1>2. TypeInv
  BY InitTypeInv
<1> QED BY <1>1, <1>2, Zenon
        DEF KeyInv, ActiveKeyIsFreed, Unclaimed, Active

\* Every step keeps the bond of a row to its active key.
LEMMA NextKeyInv == KeyInv /\ [Next]_vars => KeyInv'
<1> SUFFICES ASSUME KeyInv, [Next]_vars PROVE KeyInv'
  OBVIOUS
<1>1. TypeInv /\ RowStep /\ TypeInv'
  BY RowSteps, NextTypeInv DEF KeyInv
<1>2. \A t \in Tasks : RowMoves(t)
  BY <1>1, RowsMove
<1>3. \A t \in Tasks : task'[t].key => Active(t)'
  BY <1>1, <1>2 DEF RowMoves, KeyInv, ActiveKeyIsFreed, Active
<1>4. ASSUME NEW t \in Tasks, NEW u \in Tasks, task'[t].key, task'[u].key PROVE t = u
  <2>1. CASE task[t].key /\ task[u].key
    BY <2>1 DEF KeyInv, ActiveKeyIsFreed
  <2>2. CASE ~task[t].key
    BY <1>1, <1>4, <2>2, OneNewKey
  <2>3. CASE ~task[u].key
    BY <1>1, <1>4, <2>3, OneNewKey
  <2> QED BY <2>1, <2>2, <2>3
<1>5. Unclaimed'
  BY <1>1, <1>2 DEF RowMoves, KeyInv, Unclaimed
<1> QED BY <1>1, <1>3, <1>4, <1>5 DEF KeyInv, ActiveKeyIsFreed

\* Whoever ends a row (its handler, the stale-lock pass, a takeover), however
\* late and however often, at most one row holds the type's active key and
\* only while it is pending or running.
THEOREM KeysCorrect == Spec => []ActiveKeyIsFreed
<1>1. KeyInv => ActiveKeyIsFreed
  BY DEF KeyInv
<1> QED BY <1>1, InitKeyInv, NextKeyInv, PTL DEF Spec

\* A row that has ended is rewritten by nobody, however late the writer.
THEOREM EndedRowsFinal == Spec => EndedIsFinal
<1>1. TypeInv /\ [Next]_vars =>
        [\A t \in Tasks : Terminal(t) => task'[t].status \in {task[t].status, "pruned"}]_vars
  <2> SUFFICES ASSUME TypeInv, [Next]_vars, NEW t \in Tasks, Terminal(t)
               PROVE  task'[t].status \in {task[t].status, "pruned"}
    OBVIOUS
  <2>1. RowMoves(t)
    BY RowSteps, RowsMove
  <2> QED BY <2>1 DEF RowMoves, Terminal
<1> QED BY <1>1, InitTypeInv, NextTypeInv, PTL DEF Spec, EndedIsFinal

-----------------------------------------------------------------------------
(* The lease protocol.  A running row that the claim protocol has not      *)
(* given up is named by the lock together with its runner, or a takeover   *)
(* is about to fail it.                                                    *)

\* A run the claim protocol has not given up.
Runs(t) == task[t].status = "running" /\ t \notin lost

\* A takeover is about to fail the run.
Failing(t) == \E r \in Runners : pc[r] = "fail" /\ local[r].seen = t

\* The clock that r read finds the lease of such a run expired.
Expired(r) ==
    /\ lock # NoLock /\ lock.left < local[r].at
    /\ Runs(lock.task) /\ task[lock.task].by = lock.by

\* A claim that has the lock and can still use it.
InTime(r) == pc[r] \in {"fail", "mark"} /\ ~Overdue(r)

\* A runner at work: it claims a row it has not executed; the lock of a claim
\* in time is its own and valid; an expired lease it would take over is not
\* that of the row it claims but the one it has seen, and it never deletes one.
RunnerInv(r) ==
    /\ Claiming(r) => task[local[r].task].by # r
    /\ InTime(r) => HeldBy(local[r].task, r) /\ lock.left >= local[r].at + TTL
    /\ Expired(r) =>
         /\ pc[r] \in {"insert", "look", "steal"} => lock.task # local[r].task
         /\ pc[r] = "steal" => lock.task = local[r].seen
         /\ pc[r] = "expireDelete" => ~HeldBy(local[r].seen, local[r].seenBy)

\* A row: a handler that releases has ended it, and while it runs it is leased.
TaskInv(t) ==
    /\ job[t] = "releasing" => task[t].status \in {"succeeded", "failed", "pruned"}
    /\ Runs(t) => HeldBy(t, task[t].by) \/ Failing(t)

LeaseInv == /\ KeyInv
            /\ \A r \in Runners : RunnerInv(r)
            /\ \A t \in Tasks : TaskInv(t)

\* No row starts to run, changes its runner or is taken up again.
QuietRows == /\ \A t \in Tasks : /\ task'[t].by = task[t].by
                                 /\ task'[t].status = "running" => task[t].status = "running"
             /\ lost \subseteq lost'

\* Nobody holds or reads anything at the start.
LEMMA InitLeaseInv == Init => LeaseInv
<1> SUFFICES ASSUME Init PROVE LeaseInv
  OBVIOUS
<1>1. \A t \in Tasks : job[t] = "none" /\ task[t].status \in {"none", "pending"}
  BY DEF Init
<1>2. \A r \in Runners : pc[r] = "pass"
  BY DEF Init
<1> QED BY <1>1, <1>2, InitKeyInv DEF LeaseInv, RunnerInv, TaskInv, Claiming, InTime, Runs

\* The clock and the row that a runner has read.
LEMMA ReadTypes ==
  ASSUME TypeInv, NEW r \in Runners
  PROVE  /\ local[r].at \in Int /\ local[r].at <= 0 /\ local[r].at >= -Late - 1
         /\ Claiming(r) => local[r].task \in Tasks
  BY ClockAssumption DEF TypeInv, TypeOK, LoopOK

\* A runner that a step does not touch: the lock stays, or it neither relies
\* on the lock nor finds it expired.
LEMMA RunnerKeeps ==
  ASSUME LeaseInv, QuietRows, NEW r \in Runners, pc'[r] = pc[r], local'[r] = local[r],
         lock' = lock \/ (~InTime(r) /\ ~Expired(r)')
  PROVE  RunnerInv(r)'
<1>1. TypeInv /\ RunnerInv(r)
  BY DEF LeaseInv, KeyInv
<1>2. (Claiming(r)' <=> Claiming(r)) /\ (InTime(r)' <=> InTime(r))
  BY DEF Claiming, InTime, Overdue
<1>3. Claiming(r)' => task'[local'[r].task].by # r
  BY <1>1, <1>2, ReadTypes DEF RunnerInv, QuietRows
<1>4. CASE lock' = lock
  <2>1. lock # NoLock => lock.task \in Tasks
    BY <1>1, LockFields DEF TypeInv
  <2>2. Expired(r)' => Expired(r)
    BY <1>4, <2>1 DEF Expired, Runs, QuietRows
  <2> QED BY <1>1, <1>2, <1>3, <1>4, <2>2 DEF RunnerInv, HeldBy
<1>5. CASE ~InTime(r) /\ ~Expired(r)'
  BY <1>2, <1>3, <1>5 DEF RunnerInv
<1> QED BY <1>4, <1>5

\* A runner between its passes, or that has just read an expired lock.
LEMMA RunnerIdles ==
  ASSUME NEW r, pc'[r] \in {"pass", "expireMark", "create", "dead"}
  PROVE  RunnerInv(r)'
  BY DEF RunnerInv, Claiming, InTime

\* A row that a step leaves alone or ends, and its lease with it.
LEMMA TaskKeeps ==
  ASSUME LeaseInv, RowStep, QuietRows, NEW t \in Tasks,
         job'[t] = "releasing" => job[t] = "releasing",
         Runs(t) /\ HeldBy(t, task[t].by) => HeldBy(t, task[t].by)' \/ Failing(t)',
         Failing(t) => Failing(t)' \/ ~Runs(t)'
  PROVE  TaskInv(t)'
<1>1. RowMoves(t)
  BY RowsMove DEF LeaseInv, KeyInv
<1>2. TaskInv(t)
  BY DEF LeaseInv
<1>3. Runs(t)' => Runs(t)
  BY DEF Runs, QuietRows
<1>4. job'[t] = "releasing" => task'[t].status \in {"succeeded", "failed", "pruned"}
  BY <1>1, <1>2 DEF TaskInv, RowMoves
<1>5. Runs(t)' => HeldBy(t, task[t].by)' \/ Failing(t)'
  BY <1>2, <1>3 DEF TaskInv
<1> QED BY <1>4, <1>5 DEF TaskInv

\* Rows that stay are quiet.
LEMMA SameRowsQuiet ==
  ASSUME task' = task, lost \subseteq lost'
  PROVE  QuietRows /\ RowStep
  BY DEF QuietRows, RowStep

\* A lease stays where the lock and the runner of its row do.
LEMMA LeaseStays ==
  ASSUME QuietRows, lock' = lock, NEW t \in Tasks, HeldBy(t, task[t].by)
  PROVE  HeldBy(t, task[t].by)'
  BY DEF HeldBy, QuietRows

\* The step of one runner leaves the others where they are.
LEMMA RunnersSame ==
  ASSUME TypeInv, NEW r \in Runners, NEW s, GoTo(r, s),
         local' = local \/ \E v : local' = [local EXCEPT ![r] = v]
  PROVE  \A q \in Runners : q # r => pc'[q] = pc[q] /\ local'[q] = local[q]
  BY DEF GoTo, TypeInv, TypeOK

\* Where it goes itself.
LEMMA OwnStep ==
  ASSUME TypeInv, NEW r \in Runners, NEW s, GoTo(r, s)
  PROVE  pc'[r] = s
  BY DEF GoTo, TypeInv, TypeOK

\* Takeovers go on that a step of another kind does not touch.
LEMMA FailingStays ==
  ASSUME NEW r, pc[r] # "fail",
         \A q \in Runners : q # r => pc'[q] = pc[q] /\ local'[q] = local[q],
         NEW t, Failing(t)
  PROVE  Failing(t)'
  BY DEF Failing

\* The lease of a claim that is in time nobody finds expired, and it is not
\* that of a run.
LEMMA ClaimsAreValid ==
  ASSUME LeaseInv, NEW r \in Runners, InTime(r)
  PROVE  /\ HeldBy(local[r].task, r) /\ lock.left \in Int /\ lock.left >= 0
         /\ local[r].task \in Tasks /\ task[local[r].task].by # r
<1>1. TypeInv /\ RunnerInv(r) /\ Claiming(r)
  BY DEF LeaseInv, KeyInv, Claiming, InTime
<1>2. local[r].at \in Int /\ local[r].task \in Tasks
  BY <1>1, ReadTypes
<1>3. HeldBy(local[r].task, r) /\ lock.left >= local[r].at + TTL
      /\ task[local[r].task].by # r /\ ~(local[r].at < -TTL)
  BY <1>1 DEF RunnerInv, InTime, Overdue
<1>4. lock.left \in Int
  BY <1>1, <1>3, LockFields DEF TypeInv, HeldBy
<1> QED BY <1>2, <1>3, <1>4, ClockAssumption

-----------------------------------------------------------------------------
(* Steps of a runner that touch neither the lock nor a handler.            *)

\* Reads and passes that end keep the lease invariant.
LEMMA ReadingKeeps ==
  ASSUME LeaseInv, KeyInv', NEW r \in Runners,
         ExpireRead(r) \/ ExpireError(r) \/ ScheduleRead(r) \/ ClaimRead(r) \/ ClaimLook(r)
  PROVE  LeaseInv'
<1> USE DEF LeaseInv, KeyInv
<1>1. UNCHANGED <<task, job, lock, lost>> /\ pc[r] # "fail"
  BY DEF ExpireRead, ExpireError, ScheduleRead, ClaimRead, ClaimLook, EndPass
<1>2. QuietRows /\ RowStep
  BY <1>1, SameRowsQuiet
<1>3. \A q \in Runners : q # r => pc'[q] = pc[q] /\ local'[q] = local[q]
  BY DEF ExpireRead, ExpireError, ScheduleRead, ClaimRead, ClaimLook, EndPass, GoTo,
         TypeInv, TypeOK
<1>4. \A t \in Tasks : TaskInv(t)'
  BY <1>1, <1>2, <1>3, LeaseStays, FailingStays, TaskKeeps
<1>5. ASSUME NEW q \in Runners, q # r PROVE RunnerInv(q)'
  <2>1. pc'[q] = pc[q] /\ local'[q] = local[q]
    BY <1>3, <1>5
  <2> QED BY <1>1, <1>2, <2>1, RunnerKeeps
<1>6. RunnerInv(r)'
  <2>1. CASE ExpireRead(r) \/ ExpireError(r) \/ ScheduleRead(r)
    <3>1. pc'[r] \in {"expireMark", "pass", "create"}
      BY <2>1, OwnStep DEF ExpireRead, ExpireError, ScheduleRead, EndPass
    <3> QED BY <3>1, RunnerIdles
  <2>2. CASE ClaimRead(r)
    <3>1. PICK t \in Tasks : /\ task[t].status = "pending"
                             /\ local' = [local EXCEPT ![r] = [Idle EXCEPT !.task = t]]
                             /\ GoTo(r, "insert")
      BY <2>2 DEF ClaimRead
    <3>2. local'[r].task = t /\ pc'[r] = "insert"
      BY <3>1, OwnStep DEF TypeInv, TypeOK, Idle
    <3>3. task[t].by # r
      BY <3>1, RunnersAssumption DEF Unclaimed
    <3> QED BY <1>1, <3>1, <3>2, <3>3 DEF RunnerInv, InTime, Expired, Runs
  <2>3. CASE ClaimLook(r)
    <3>1. CASE EndPass(r)
      BY <3>1, OwnStep, RunnerIdles DEF EndPass
    <3>2. CASE ~EndPass(r)
      <4>1. /\ local'[r].task = local[r].task /\ local'[r].at = local[r].at
            /\ local'[r].seen = lock.task
            /\ pc[r] = "look" /\ pc'[r] = "steal"
        BY <2>3, <3>2, OwnStep DEF ClaimLook, TypeInv, TypeOK
      <4>2. RunnerInv(r) /\ (Expired(r)' => Expired(r))
        BY <1>1, <4>1 DEF Expired, Runs
      <4> QED BY <1>1, <4>1, <4>2 DEF RunnerInv, Claiming, InTime
    <3> QED BY <3>1, <3>2
  <2> QED BY <2>1, <2>2, <2>3
<1> QED BY <1>4, <1>5, <1>6

\* So do the writes of rows that no runner holds.
LEMMA RowsKeep ==
  ASSUME LeaseInv, KeyInv', RowStep, NEW r \in Runners,
         \/ Prune(r) \/ ScheduleCreate(r) \/ ExpireMark(r) \/ ClaimFail(r)
  PROVE  LeaseInv'
<1> USE DEF LeaseInv, KeyInv
<1>1. UNCHANGED <<job, lock, lost>>
  BY DEF Prune, ScheduleCreate, ExpireMark, ClaimFail
<1>2. QuietRows
  <2>1. ASSUME NEW t \in Tasks, task'[t].status = "running", task[t].status # "running"
        PROVE  FALSE
    <3>1. CASE Prune(r)
      BY <2>1, <3>1 DEF Prune, TypeInv, TypeOK
    <3>2. CASE ScheduleCreate(r)
      BY <2>1, <3>2 DEF ScheduleCreate, Insert, TypeInv, TypeOK
    <3>3. CASE ExpireMark(r) \/ ClaimFail(r)
      <4>1. LeaseExpired(local[r].seen)
        BY <3>3 DEF ExpireMark, ClaimFail
      <4> QED BY <2>1, <4>1 DEF LeaseExpired, TypeInv, TypeOK
    <3> QED BY <3>1, <3>2, <3>3
  <2>2. ASSUME NEW t \in Tasks PROVE task'[t].by = task[t].by
    <3>1. RowMoves(t)
      BY RowsMove
    <3> QED BY <2>1, <3>1 DEF RowMoves, Unclaimed
  <2> QED BY <1>1, <2>1, <2>2 DEF QuietRows
<1>3. \A q \in Runners : q # r \/ Prune(r) => pc'[q] = pc[q] /\ local'[q] = local[q]
  BY DEF Prune, ScheduleCreate, ExpireMark, ClaimFail, GoTo, TypeInv, TypeOK
<1>4. ASSUME NEW q \in Runners, q # r \/ Prune(r) PROVE RunnerInv(q)'
  <2>1. pc'[q] = pc[q] /\ local'[q] = local[q]
    BY <1>3, <1>4
  <2> QED BY <1>1, <1>2, <2>1, RunnerKeeps
<1>5. ASSUME ~ClaimFail(r) PROVE \A t \in Tasks : TaskInv(t)'
  <2>1. pc[r] # "fail"
    BY <1>5 DEF Prune, ScheduleCreate, ExpireMark
  <2> QED BY <1>1, <1>2, <1>3, <2>1, LeaseStays, FailingStays, TaskKeeps
<1>6. CASE Prune(r)
  <2>1. ~ClaimFail(r)
    BY <1>6 DEF Prune, ClaimFail
  <2> QED BY <1>4, <1>5, <1>6, <2>1
<1>7. CASE ScheduleCreate(r)
  <2>1. ~ClaimFail(r)
    BY <1>7 DEF ScheduleCreate, ClaimFail
  <2> QED BY <1>4, <1>5, <1>7, <2>1, OwnStep, RunnerIdles DEF ScheduleCreate
<1>8. CASE ExpireMark(r)
  <2>1. pc'[r] = "expireDelete" /\ local[r].seen \in Tasks /\ LeaseExpired(local[r].seen)
        /\ local' = local /\ ~ClaimFail(r)
    BY <1>8, OwnStep DEF ExpireMark, ClaimFail, TypeInv, LoopOK
  <2>2. task'[local[r].seen].status # "running"
    BY <2>1 DEF LeaseExpired, TypeInv, TypeOK
  <2>3. RunnerInv(r)'
    BY <2>1, <2>2 DEF RunnerInv, Claiming, InTime, Expired, Runs, HeldBy
  <2> QED BY <1>4, <1>5, <2>1, <2>3
<1>9. CASE ClaimFail(r)
  <2>1. pc[r] = "fail" /\ pc'[r] = "mark" /\ local[r].task \in Tasks
        /\ local[r].seen \in Tasks /\ LeaseExpired(local[r].seen)
    BY <1>9, OwnStep DEF ClaimFail, TypeInv, LoopOK, Claiming
  <2>2. local'[r].task = local[r].task /\ local'[r].at = local[r].at
    BY <1>9 DEF ClaimFail, TypeInv, TypeOK
  <2>3. task'[local[r].seen].status # "running"
    BY <2>1 DEF LeaseExpired, TypeInv, TypeOK
  <2>4. RunnerInv(r)'
    <3>1. RunnerInv(r) /\ Claiming(r) /\ (InTime(r)' <=> InTime(r))
      BY <2>1, <2>2 DEF Claiming, InTime, Overdue
    <3> QED BY <1>1, <1>2, <2>1, <2>2, <3>1 DEF RunnerInv, HeldBy, QuietRows
  <2>5. ASSUME NEW t \in Tasks PROVE TaskInv(t)'
    <3>1. Failing(t) => Failing(t)' \/ ~Runs(t)'
      BY <1>3, <2>3 DEF Failing, Runs
    <3> QED BY <1>1, <1>2, <3>1, LeaseStays, TaskKeeps
  <2> QED BY <1>4, <2>4, <2>5
<1> QED BY <1>6, <1>7, <1>8, <1>9

-----------------------------------------------------------------------------
(* Steps that take, free or renew the lock.                                *)

\* So does deleting the lock of an expired lease.
LEMMA ExpireDeleteKeeps ==
  ASSUME LeaseInv, KeyInv', NEW r \in Runners, ExpireDelete(r)
  PROVE  LeaseInv'
<1> USE DEF LeaseInv, KeyInv
<1>1. pc[r] = "expireDelete" /\ UNCHANGED <<task, job, lost>> /\ EndPass(r)
  BY DEF ExpireDelete
<1>2. RunnerInv(r)'
  BY <1>1, OwnStep, RunnerIdles DEF EndPass
<1>3. \A q \in Runners : q # r => pc'[q] = pc[q] /\ local'[q] = local[q]
  BY <1>1, RunnersSame DEF EndPass
<1>4. QuietRows /\ RowStep
  BY <1>1, SameRowsQuiet
<1>5. CASE lock' = lock
  <2>1. \A t \in Tasks : TaskInv(t)'
    BY <1>1, <1>3, <1>4, <1>5, LeaseStays, FailingStays, TaskKeeps
  <2>2. ASSUME NEW q \in Runners, q # r PROVE RunnerInv(q)'
    <3>1. pc'[q] = pc[q] /\ local'[q] = local[q]
      BY <1>3, <2>2
    <3> QED BY <1>4, <1>5, <3>1, RunnerKeeps
  <2> QED BY <1>2, <2>1, <2>2
<1>6. CASE lock' # lock
  <2>1. lock' = NoLock /\ HeldBy(local[r].seen, local[r].seenBy) /\ lock.left < local[r].at
    BY <1>6 DEF ExpireDelete
  <2>2. lock # NoLock /\ lock.left \in Int /\ local[r].at \in Int /\ local[r].at <= 0
    BY <2>1, LockFields, ReadTypes DEF HeldBy, TypeInv
  <2>3. ASSUME NEW t \in Tasks, Runs(t), HeldBy(t, task[t].by) PROVE FALSE
    <3>1. RunnerInv(r)
      OBVIOUS
    <3> QED BY <1>1, <2>1, <2>2, <2>3, <3>1 DEF RunnerInv, Expired, HeldBy
  <2>4. \A q \in Runners : ~InTime(q) /\ ~Expired(q)'
    BY <2>1, <2>2, ClaimsAreValid DEF Expired
  <2>5. \A t \in Tasks : TaskInv(t)'
    BY <1>1, <1>3, <1>4, <2>3, FailingStays, TaskKeeps
  <2> QED BY <1>2, <1>3, <1>4, <2>4, <2>5, RunnerKeeps
<1> QED BY <1>5, <1>6

\* So does taking the lock, fresh or stale.
LEMMA TakingKeeps ==
  ASSUME LeaseInv, KeyInv', NEW r \in Runners, ClaimInsert(r) \/ ClaimSteal(r)
  PROVE  LeaseInv'
<1> USE DEF LeaseInv, KeyInv
<1> DEFINE t == local[r].task
<1>1. /\ UNCHANGED <<task, job, lost>> /\ pc[r] \in {"insert", "steal"} /\ Claiming(r)
      /\ pc[r] # "fail"
  BY DEF ClaimInsert, ClaimSteal, Claiming
<1>2. QuietRows /\ RowStep /\ RunnerInv(r)
  BY <1>1, SameRowsQuiet
<1>3. /\ t \in Tasks /\ local[r].at \in Int /\ local[r].at <= 0 /\ local[r].at >= -Late - 1
      /\ task[t].by # r
  BY <1>1, <1>2, ReadTypes DEF RunnerInv
<1>4. \A q \in Runners : q # r => pc'[q] = pc[q] /\ local'[q] = local[q]
  BY DEF ClaimInsert, ClaimSteal, EndPass, GoTo, TypeInv, TypeOK
<1>5. ASSUME lock' = Lock(t, r, local[r].at + TTL), lock = NoLock \/ lock.left < local[r].at,
             local'[r].task = t, local'[r].at = local[r].at, pc'[r] \in {"fail", "mark"},
             \A u \in Tasks : Runs(u) /\ HeldBy(u, task[u].by) => Failing(u)'
      PROVE  LeaseInv'
  <2>1. lock' # NoLock /\ lock'.task = t /\ lock'.by = r /\ lock'.left = local[r].at + TTL
    BY <1>3, <1>5, NewLock DEF Lock
  <2>2. lock # NoLock => lock.left \in Int
    BY LockFields DEF TypeInv
  <2>3. \A q \in Runners : ~InTime(q) /\ ~Expired(q)'
    <3>1. \A q \in Runners : ~InTime(q)
      BY <1>3, <1>5, <2>2, ClaimsAreValid DEF HeldBy
    <3>2. task'[lock'.task].by # lock'.by
      BY <1>1, <1>3, <2>1
    <3> QED BY <3>1, <3>2 DEF Expired
  <2>4. \A u \in Tasks : TaskInv(u)'
    BY <1>1, <1>2, <1>4, <1>5, FailingStays, TaskKeeps
  <2>5. RunnerInv(r)'
    <3>1. HeldBy(t, r)' /\ lock'.left >= local'[r].at + TTL
      BY <1>3, <1>5, <2>1, ClockAssumption DEF HeldBy
    <3>2. task'[local'[r].task].by # r
      BY <1>1, <1>3, <1>5
    <3> QED BY <1>5, <2>3, <3>1, <3>2 DEF RunnerInv
  <2>6. ASSUME NEW q \in Runners, q # r PROVE RunnerInv(q)'
    <3>1. pc'[q] = pc[q] /\ local'[q] = local[q]
      BY <1>4, <2>6
    <3> QED BY <1>2, <2>3, <3>1, RunnerKeeps
  <2> QED BY <2>4, <2>5, <2>6
<1>6. ASSUME lock' = lock, RunnerInv(r)' PROVE LeaseInv'
  <2>1. \A u \in Tasks : TaskInv(u)'
    BY <1>1, <1>2, <1>4, <1>6, LeaseStays, FailingStays, TaskKeeps
  <2>2. ASSUME NEW q \in Runners, q # r PROVE RunnerInv(q)'
    <3>1. pc'[q] = pc[q] /\ local'[q] = local[q]
      BY <1>4, <2>2
    <3> QED BY <1>2, <1>6, <3>1, RunnerKeeps
  <2> QED BY <1>6, <2>1, <2>2
<1>7. CASE ClaimInsert(r)
  <2>1. CASE lock = NoLock
    <3>1. /\ lock' = Lock(t, r, local[r].at + TTL) /\ local' = local /\ pc'[r] = "mark"
      BY <1>7, <2>1, OwnStep DEF ClaimInsert
    <3>2. \A u \in Tasks : ~HeldBy(u, task[u].by)
      BY <2>1 DEF HeldBy
    <3> HIDE DEF t
    <3> QED BY <1>5, <2>1, <3>1, <3>2 DEF t
  <2>2. CASE lock # NoLock
    <3>1. lock' = lock /\ local' = local /\ pc[r] = "insert" /\ pc'[r] = "look"
      BY <1>7, <2>2, OwnStep DEF ClaimInsert
    <3>2. Expired(r)' => Expired(r)
      BY <1>1, <3>1 DEF Expired, Runs
    <3>3. RunnerInv(r)'
      BY <1>1, <1>2, <3>1, <3>2 DEF RunnerInv, Claiming, InTime
    <3> QED BY <1>6, <3>1, <3>3
  <2> QED BY <2>1, <2>2
<1>8. CASE ClaimSteal(r)
  <2>1. CASE lock # NoLock /\ lock.left < local[r].at
    <3>1. /\ lock' = Lock(t, r, local[r].at + TTL) /\ pc[r] = "steal"
          /\ \/ local[r].seen # t /\ local' = local /\ pc'[r] = "fail"
             \/ local[r].seen = t /\ local' = [local EXCEPT ![r].seen = None] /\ pc'[r] = "mark"
      BY <1>8, <2>1, OwnStep DEF ClaimSteal
    <3>2. local'[r].task = t /\ local'[r].at = local[r].at
      BY <3>1 DEF TypeInv, TypeOK
    <3>3. ASSUME NEW u \in Tasks, Runs(u), HeldBy(u, task[u].by) PROVE Failing(u)'
      <4>1. Expired(r) /\ lock.task = u
        BY <2>1, <3>3 DEF Expired, HeldBy
      <4>2. u # t /\ u = local[r].seen
        BY <1>2, <3>1, <4>1 DEF RunnerInv
      <4>3. pc'[r] = "fail" /\ local'[r].seen = u
        BY <3>1, <4>2
      <4> QED BY <4>3 DEF Failing
    <3> QED BY <1>5, <2>1, <3>1, <3>2, <3>3
  <2>2. CASE ~(lock # NoLock /\ lock.left < local[r].at)
    BY <1>6, <1>8, <2>2, OwnStep, RunnerIdles DEF ClaimSteal, EndPass
  <2> QED BY <2>1, <2>2
<1> QED BY <1>7, <1>8

\* A claim gives its lock back, or leaves it: no run and no other claim relied
\* on it.
LEMMA GivingBackKeeps ==
  ASSUME LeaseInv, KeyInv', NEW r \in Runners, pc[r] \in {"fail", "mark"}, EndPass(r),
         lock' = lock \/ Release(local[r].task, r), lost' = lost \cup Forsaken(r),
         UNCHANGED <<task, job>>
  PROVE  LeaseInv'
<1> USE DEF LeaseInv, KeyInv
<1> DEFINE t == local[r].task
<1>1. QuietRows /\ RowStep
  BY SameRowsQuiet
<1>2. RunnerInv(r)'
  BY OwnStep, RunnerIdles DEF EndPass
<1>3. \A q \in Runners : q # r => pc'[q] = pc[q] /\ local'[q] = local[q]
  BY RunnersSame DEF EndPass
<1>4. t \in Tasks /\ task[t].by # r
  <2>1. RunnerInv(r) /\ Claiming(r)
    BY DEF Claiming
  <2> QED BY <2>1, ReadTypes DEF RunnerInv
<1>5. \A u \in Tasks : HeldBy(u, task[u].by) => HeldBy(u, task[u].by)'
  BY <1>4 DEF Release, HeldBy
<1>6. ASSUME NEW u \in Tasks, Failing(u) PROVE Failing(u)' \/ ~Runs(u)'
  <2>1. PICK q \in Runners : pc[q] = "fail" /\ local[q].seen = u
    BY <1>6 DEF Failing
  <2>2. CASE q = r
    <3>1. task[u].status = "running" => u \in lost'
      BY <2>1, <2>2 DEF Forsaken
    <3> QED BY <3>1 DEF Runs
  <2>3. CASE q # r
    BY <1>3, <2>1, <2>3 DEF Failing
  <2> QED BY <2>2, <2>3
<1>7. \A u \in Tasks : TaskInv(u)'
  BY <1>1, <1>5, <1>6, TaskKeeps
<1>8. ASSUME NEW q \in Runners, q # r PROVE RunnerInv(q)'
  <2>1. pc'[q] = pc[q] /\ local'[q] = local[q]
    BY <1>3, <1>8
  <2>2. lock' = lock \/ (~InTime(q) /\ ~Expired(q)')
    BY <1>8, ClaimsAreValid DEF Release, HeldBy, Expired
  <2> QED BY <1>1, <2>1, <2>2, RunnerKeeps
<1> QED BY <1>2, <1>7, <1>8

\* Marking the row, or giving up on it, keeps the lease invariant.
LEMMA MarkingKeeps ==
  ASSUME LeaseInv, KeyInv', NEW r \in Runners, ClaimMark(r) \/ ClaimError(r)
  PROVE  LeaseInv'
<1> USE DEF LeaseInv, KeyInv
<1> DEFINE t == local[r].task
<1>1. pc[r] \in {"fail", "mark"} /\ EndPass(r)
  BY DEF ClaimMark, ClaimError
<1>2. CASE ClaimError(r)
  BY <1>1, <1>2, GivingBackKeeps DEF ClaimError
<1>3. CASE ClaimMark(r) /\ task[t].status # "pending"
  <2>1. Release(t, r) /\ UNCHANGED <<task, job, age, faults, lost>>
    BY <1>3, ClaimMarkOther
  <2>2. Forsaken(r) = {}
    BY <1>3 DEF ClaimMark, Forsaken
  <2> QED BY <1>1, <2>1, <2>2, GivingBackKeeps
<1>4. CASE ClaimMark(r) /\ task[t].status = "pending"
  <2>1. /\ task' = [task EXCEPT ![t].status = "running", ![t].by = r] /\ lock' = lock
        /\ lost' = IF Overdue(r) THEN lost \cup {t} ELSE lost
    BY <1>4, ClaimMarkPending, Zenon
  <2>2. job' = job \/ job' = [job EXCEPT ![t] = "running"]
    BY <1>4, ClaimMarkPending, Zenon
  <2>3. pc[r] = "mark" /\ Claiming(r) /\ t \in Tasks
    BY <1>4, ReadTypes DEF ClaimMark, Claiming
  <2>4. task'[t].status = "running" /\ task'[t].by = r /\ \A u \in Tasks : u # t => task'[u] = task[u]
    BY <2>1, <2>3 DEF TypeInv, TypeOK
  <2>5. \A q \in Runners : q # r => pc'[q] = pc[q] /\ local'[q] = local[q]
    BY <1>1, RunnersSame DEF EndPass
  <2>6. t \in lost' \/ InTime(r)
    BY <2>1, <2>3 DEF InTime
  <2>7. InTime(r) => HeldBy(t, r) /\ lock.left >= 0 /\ lock.left \in Int
    BY ClaimsAreValid
  <2>8. ASSUME NEW u \in Tasks PROVE TaskInv(u)'
    <3>1. TaskInv(u) /\ TaskInv(t) /\ lost \subseteq lost'
      BY <2>1, <2>3
    <3>2. job'[u] = "releasing" => job[u] = "releasing"
      BY <2>2 DEF TypeInv, TypeOK
    <3>3. CASE u = t
      <4>1. job'[u] # "releasing"
        BY <1>4, <3>1, <3>2, <3>3 DEF TaskInv
      <4>2. Runs(u)' => HeldBy(u, task[u].by)'
        BY <2>1, <2>4, <2>6, <2>7, <3>3 DEF Runs, HeldBy
      <4> QED BY <4>1, <4>2 DEF TaskInv
    <3>4. CASE u # t
      <4>1. (HeldBy(u, task[u].by) => HeldBy(u, task[u].by)') /\ (Failing(u) => Failing(u)')
        BY <2>1, <2>3, <2>4, <2>5, <3>4, FailingStays DEF HeldBy
      <4>2. Runs(u)' => Runs(u)
        BY <2>4, <3>1, <3>4 DEF Runs
      <4>3. task'[u].status = task[u].status
        BY <2>4, <3>4
      <4> QED BY <3>1, <3>2, <4>1, <4>2, <4>3 DEF TaskInv
    <3> QED BY <3>3, <3>4
  <2>9. ASSUME NEW q \in Runners, q # r PROVE RunnerInv(q)'
    <3>1. RunnerInv(q) /\ pc'[q] = pc[q] /\ local'[q] = local[q]
      BY <2>5, <2>9
    <3>2. local[q].at \in Int /\ local[q].at <= 0 /\ (Claiming(q) => local[q].task \in Tasks)
      BY ReadTypes
    <3>3. (Claiming(q)' <=> Claiming(q)) /\ (InTime(q)' <=> InTime(q))
      BY <3>1 DEF Claiming, InTime, Overdue
    <3>4. Claiming(q) => task'[local[q].task].by # q
      BY <2>4, <2>9, <3>1, <3>2 DEF RunnerInv
    <3>5. Expired(q)' => Expired(q)
      <4>1. lock # NoLock => lock.task \in Tasks
        BY LockFields DEF TypeInv
      <4>2. CASE lock.task = t
        BY <2>1, <2>6, <2>7, <3>1, <3>2, <4>2 DEF Expired, Runs
      <4>3. CASE lock.task # t
        BY <2>1, <2>4, <3>1, <4>1, <4>3 DEF Expired, Runs
      <4> QED BY <4>2, <4>3
    <3> QED BY <2>1, <3>1, <3>3, <3>4, <3>5 DEF RunnerInv, HeldBy
  <2>10. RunnerInv(r)'
    BY <1>1, OwnStep, RunnerIdles DEF EndPass
  <2> QED BY <2>8, <2>9, <2>10
<1> QED BY <1>2, <1>3, <1>4

-----------------------------------------------------------------------------
(* Steps of handlers, crashes and the clock.                               *)

\* Renewing, finishing and releasing keep the lease invariant.
LEMMA HandlersKeep ==
  ASSUME LeaseInv, KeyInv', RowStep, NEW t \in Tasks, HandlerStep(t)
  PROVE  LeaseInv'
<1> USE DEF LeaseInv, KeyInv
<1>1. UNCHANGED <<pc, local, lost>>
  BY DEF HandlerStep, Renew, RenewError, Report, Ending, Finish, FinishRelease, HandlerError
<1>2. \A u \in Tasks : Failing(u) => Failing(u)'
  BY <1>1 DEF Failing
<1>3. ASSUME QuietRows, lock' = lock \/ (\A q \in Runners : ~InTime(q) /\ ~Expired(q)')
      PROVE  \A q \in Runners : RunnerInv(q)'
  BY <1>1, <1>3, RunnerKeeps
<1>4. CASE Renew(t)
  <2>1. task' = task /\ \A u \in Tasks : job'[u] = "releasing" => job[u] = "releasing"
    BY <1>4 DEF Renew, TypeInv, TypeOK
  <2>2. QuietRows
    BY <1>1, <2>1, SameRowsQuiet
  <2>3. PICK at \in -Lag .. 0 :
          IF Leased(t, at) THEN lock' = [lock EXCEPT !.left = at + TTL] ELSE lock' = lock
    BY <1>4 DEF Renew
  <2>4. CASE lock' = lock
    BY <1>2, <1>3, <2>1, <2>2, <2>4, LeaseStays, TaskKeeps
  <2>5. CASE Leased(t, at) /\ lock' = [lock EXCEPT !.left = at + TTL]
    <3>1. lock # NoLock /\ lock.task = t /\ lock.by = task[t].by
      BY <2>5 DEF Leased, HeldBy
    <3>2. lock \in [task : Tasks, by : Runners, left : -Late - 1 .. TTL]
      BY <3>1, LockFields DEF TypeInv
    <3>3. lock'.task = lock.task /\ lock'.by = lock.by /\ lock'.left = at + TTL
      BY <2>5, <3>2
    <3>4. at + TTL \in Int /\ at + TTL >= 0
      BY LagRange, ClockAssumption
    <3>5. lock' # NoLock
      BY <3>1, <3>3, RunnersAssumption DEF NoLock
    <3>6. \A u \in Tasks : HeldBy(u, task[u].by) => HeldBy(u, task[u].by)'
      BY <2>1, <3>3, <3>5 DEF HeldBy
    <3>7. \A u \in Tasks : TaskInv(u)'
      BY <1>2, <2>1, <2>2, <3>6, TaskKeeps
    <3>8. ASSUME NEW q \in Runners PROVE ~InTime(q) /\ ~Expired(q)'
      <4>1. ~InTime(q)
        BY <3>1, ClaimsAreValid DEF HeldBy
      <4>2. local[q].at \in Int /\ local[q].at <= 0
        BY ReadTypes
      <4>3. ~(lock'.left < local'[q].at)
        BY <1>1, <3>3, <3>4, <4>2
      <4> QED BY <4>1, <4>3 DEF Expired
    <3> QED BY <1>3, <2>2, <3>7, <3>8
  <2> QED BY <2>3, <2>4, <2>5
<1>5. CASE FinishRelease(t)
  <2>1. /\ task' = task /\ job[t] = "releasing" /\ Release(t, task[t].by)
        /\ \A u \in Tasks : job'[u] = "releasing" => job[u] = "releasing"
    BY <1>5 DEF FinishRelease, TypeInv, TypeOK
  <2>2. QuietRows
    BY <1>1, <2>1, SameRowsQuiet
  <2>3. CASE lock' = lock
    BY <1>2, <1>3, <2>1, <2>2, <2>3, LeaseStays, TaskKeeps
  <2>4. CASE lock' # lock
    <3>1. lock' = NoLock /\ HeldBy(t, task[t].by)
      BY <2>1, <2>4 DEF Release
    <3>2. TaskInv(t)
      OBVIOUS
    <3>3. \A u \in Tasks : Runs(u) => ~HeldBy(u, task[u].by)
      BY <2>1, <3>1, <3>2 DEF TaskInv, HeldBy, Runs
    <3>4. \A q \in Runners : ~InTime(q) /\ ~Expired(q)'
      BY <3>1, ClaimsAreValid DEF HeldBy, Expired
    <3>5. \A u \in Tasks : TaskInv(u)'
      BY <1>2, <2>1, <2>2, <3>3, TaskKeeps
    <3> QED BY <1>3, <2>2, <3>4, <3>5
  <2> QED BY <2>3, <2>4
<1>6. ASSUME NEW s \in {"succeeded", "failed"}, Finish(t, s) PROVE LeaseInv'
  <2>1. lock' = lock
    BY <1>6 DEF Finish
  <2>2. QuietRows
    <3>1. task' = task \/ EndRow(t, s)
      BY <1>6 DEF Finish, EndRow
    <3> QED BY <1>1, <3>1 DEF QuietRows, EndRow, TypeInv, TypeOK
  <2>3. ASSUME NEW u \in Tasks PROVE TaskInv(u)'
    <3>1. CASE job'[u] = "releasing" => job[u] = "releasing"
      BY <1>2, <2>1, <2>2, <3>1, LeaseStays, TaskKeeps
    <3>2. CASE job'[u] = "releasing" /\ job[u] # "releasing"
      <4>1. u = t /\ task' = [task EXCEPT ![t].status = s, ![t].key = FALSE]
        BY <1>6, <3>2 DEF Finish, TypeInv, TypeOK
      <4>2. task'[u].status = s
        BY <4>1 DEF TypeInv, TypeOK
      <4> QED BY <4>2 DEF TaskInv, Runs
    <3> QED BY <3>1, <3>2
  <2> QED BY <1>3, <2>1, <2>2, <2>3
<1>7. CASE RenewError(t) \/ Report(t) \/ HandlerError(t)
  <2>1. /\ task' = task /\ lock' = lock
        /\ \A u \in Tasks : job'[u] = "releasing" => job[u] = "releasing"
    BY <1>7 DEF RenewError, Report, HandlerError, TypeInv, TypeOK
  <2>2. QuietRows
    BY <1>1, <2>1, SameRowsQuiet
  <2>3. \A u \in Tasks : TaskInv(u)'
    BY <1>2, <2>1, <2>2, LeaseStays, TaskKeeps
  <2> QED BY <1>3, <2>1, <2>2, <2>3
<1> QED BY <1>4, <1>5, <1>6, <1>7 DEF HandlerStep, Ending

\* So does the crash of a runner.
LEMMA CrashKeeps ==
  ASSUME LeaseInv, KeyInv', NEW r \in Runners, Crash(r)
  PROVE  LeaseInv'
<1> USE DEF LeaseInv, KeyInv
<1>1. /\ task' = task /\ lock' = lock /\ GoTo(r, "dead")
      /\ local' = [local EXCEPT ![r] = Idle] /\ lost' = lost \cup Forsaken(r)
      /\ \A u \in Tasks : job'[u] = "releasing" => job[u] = "releasing"
  BY DEF Crash
<1>2. QuietRows /\ RowStep
  BY <1>1, SameRowsQuiet
<1>3. \A q \in Runners : q # r => pc'[q] = pc[q] /\ local'[q] = local[q]
  BY <1>1, RunnersSame
<1>4. ASSUME NEW u \in Tasks, Failing(u) PROVE Failing(u)' \/ ~Runs(u)'
  <2>1. PICK q \in Runners : pc[q] = "fail" /\ local[q].seen = u
    BY <1>4 DEF Failing
  <2>2. CASE q = r
    <3>1. task[u].status = "running" => u \in lost'
      BY <1>1, <2>1, <2>2 DEF Forsaken
    <3> QED BY <1>1, <3>1 DEF Runs
  <2>3. CASE q # r
    BY <1>3, <2>1, <2>3 DEF Failing
  <2> QED BY <2>2, <2>3
<1>5. \A u \in Tasks : TaskInv(u)'
  BY <1>1, <1>2, <1>4, LeaseStays, TaskKeeps
<1>6. RunnerInv(r)'
  BY <1>1, OwnStep, RunnerIdles
<1>7. ASSUME NEW q \in Runners, q # r PROVE RunnerInv(q)'
  <2>1. pc'[q] = pc[q] /\ local'[q] = local[q]
    BY <1>3, <1>7
  <2> QED BY <1>1, <1>2, <2>1, RunnerKeeps
<1> QED BY <1>5, <1>6, <1>7

\* So does the clock: what is in time now was so before, and what is found
\* expired now was so before.
LEMMA TickKeeps ==
  ASSUME LeaseInv, KeyInv', Tick
  PROVE  LeaseInv'
<1> USE DEF LeaseInv, KeyInv
<1>1. UNCHANGED <<task, job, pc, lost>>
  BY DEF Tick
<1>2. /\ lock' = NoLock <=> lock = NoLock
      /\ lock # NoLock => /\ lock'.task = lock.task /\ lock'.by = lock.by
                          /\ lock'.left = AtLeast(-Late - 1, lock.left - 1)
                          /\ lock.left \in Int
  <2>1. CASE lock = NoLock
    BY <2>1 DEF Tick
  <2>2. CASE lock # NoLock
    <3>1. lock \in [task : Tasks, by : Runners, left : -Late - 1 .. TTL] /\ lock.left \in Int
      BY <2>2, LockFields DEF TypeInv
    <3>2. lock' = [lock EXCEPT !.left = AtLeast(-Late - 1, @ - 1)]
      BY <2>2 DEF Tick
    <3>3. /\ lock'.task = lock.task /\ lock'.by = lock.by
          /\ lock'.left = AtLeast(-Late - 1, lock.left - 1)
      BY <3>1, <3>2
    <3> QED BY <2>2, <3>1, <3>3, RunnersAssumption DEF NoLock
  <2> QED BY <2>1, <2>2
<1>3. \A u, q : HeldBy(u, q)' <=> HeldBy(u, q)
  BY <1>2 DEF HeldBy
<1>4. \A q \in Runners : local'[q].task = local[q].task /\ local'[q].seen = local[q].seen
                         /\ local'[q].seenBy = local[q].seenBy
  BY DEF Tick, TypeInv, TypeOK
<1>5. ASSUME NEW t \in Tasks PROVE TaskInv(t)'
  <2>1. TaskInv(t) /\ (Failing(t) => Failing(t)')
    BY <1>1, <1>4 DEF Failing
  <2>2. HeldBy(t, task[t].by) => HeldBy(t, task[t].by)'
    BY <1>1, <1>2 DEF HeldBy
  <2> QED BY <1>1, <2>1, <2>2 DEF TaskInv, Runs
<1>6. ASSUME NEW r \in Runners PROVE RunnerInv(r)'
  <2>1. RunnerInv(r) /\ (Claiming(r)' <=> Claiming(r)) /\ pc'[r] = pc[r]
    BY <1>1 DEF Claiming
  <2>2. CASE ~(Claiming(r) \/ pc[r] \in {"expireMark", "expireDelete"})
    BY <2>1, <2>2 DEF RunnerInv, Claiming, InTime
  <2>3. CASE Claiming(r) \/ pc[r] \in {"expireMark", "expireDelete"}
    <3> DEFINE floor == IF lock.left < local[r].at THEN -Late ELSE -Late - 1
    <3>1. local'[r] = [local[r] EXCEPT !.at = AtLeast(floor, local[r].at - 1)]
      BY <2>3 DEF Tick
    <3>2. local'[r].at = AtLeast(floor, local[r].at - 1)
      <4> HIDE DEF floor
      <4> QED BY <3>1 DEF TypeInv, TypeOK
    <3>3. local[r].at \in Int /\ local[r].at <= 0 /\ local[r].at >= -Late - 1
      BY ReadTypes
    <3>4. ~Overdue(r)' => ~Overdue(r) /\ local'[r].at = local[r].at - 1
      BY <3>2, <3>3, ClockAssumption DEF AtLeast, Overdue
    <3>5. InTime(r)' => InTime(r) /\ local'[r].at = local[r].at - 1
      BY <2>1, <3>4 DEF InTime
    <3>6. InTime(r)' => HeldBy(local[r].task, r) /\ lock'.left >= local'[r].at + TTL
      <4>1. InTime(r)' => /\ HeldBy(local[r].task, r) /\ lock # NoLock
                          /\ lock.left >= local[r].at + TTL
        BY <2>1, <3>5 DEF RunnerInv, HeldBy
      <4>2. InTime(r)' => ~(local'[r].at < -TTL)
        BY DEF InTime, Overdue
      <4> QED BY <1>2, <3>3, <3>5, <4>1, <4>2, ClockAssumption DEF AtLeast
    <3>7. lock # NoLock /\ lock'.left < local'[r].at => lock.left < local[r].at
      BY <1>2, <3>2, <3>3, ClockAssumption DEF AtLeast
    <3>8. Expired(r)' => Expired(r) /\ lock'.task = lock.task
      BY <1>1, <1>2, <3>7 DEF Expired, Runs
    <3>9. /\ Claiming(r) => task[local[r].task].by # r
          /\ Expired(r) =>
               /\ pc[r] \in {"insert", "look", "steal"} => lock.task # local[r].task
               /\ pc[r] = "steal" => lock.task = local[r].seen
               /\ pc[r] = "expireDelete" => ~HeldBy(local[r].seen, local[r].seenBy)
      BY <2>1 DEF RunnerInv
    <3>10. Claiming(r)' => task'[local'[r].task].by # r
      BY <1>1, <1>4, <2>1, <3>9
    <3>11. InTime(r)' => HeldBy(local[r].task, r)' /\ lock'.left >= local'[r].at + TTL
      <4>1. HeldBy(local[r].task, r) => HeldBy(local[r].task, r)'
        BY <1>2, <1>4 DEF HeldBy
      <4> QED BY <3>6, <4>1
    <3>12. HeldBy(local[r].seen, local[r].seenBy)' => HeldBy(local[r].seen, local[r].seenBy)
      BY <1>2, <1>4 DEF HeldBy
    <3> QED BY <1>4, <2>1, <3>8, <3>9, <3>10, <3>11, <3>12 DEF RunnerInv
  <2> QED BY <2>2, <2>3
<1> QED BY <1>5, <1>6

\* Every step keeps the lease invariant.
LEMMA NextLeaseInv == LeaseInv /\ [Next]_vars => LeaseInv'
<1> SUFFICES ASSUME LeaseInv, [Next]_vars PROVE LeaseInv'
  OBVIOUS
<1>1. KeyInv /\ KeyInv' /\ RowStep
  BY NextKeyInv, RowSteps DEF LeaseInv, KeyInv
<1>2. ASSUME NEW r \in Runners, RunnerStep(r) \/ ExpireError(r) \/ ClaimError(r)
      PROVE  LeaseInv'
  BY <1>1, <1>2, ReadingKeeps, RowsKeep, ExpireDeleteKeeps, TakingKeeps, MarkingKeeps
  DEF RunnerStep
<1>3. CASE Enqueue \/ UNCHANGED vars
  <2>1. UNCHANGED <<job, lock, pc, local, lost>>
    BY <1>3 DEF Enqueue, vars
  <2>2. QuietRows
    <3>1. task \in [Tasks -> TaskRow] /\ Unclaimed
      BY <1>1 DEF KeyInv, TypeInv, TypeOK, TaskRow
    <3> QED BY <1>3, <2>1, <3>1 DEF Enqueue, Insert, QuietRows, Unclaimed, vars
  <2>3. \A t \in Tasks : Failing(t) => Failing(t)'
    BY <2>1 DEF Failing
  <2>4. \A t \in Tasks : TaskInv(t)'
    BY <1>1, <2>1, <2>2, <2>3, LeaseStays, TaskKeeps
  <2>5. \A r \in Runners : RunnerInv(r)'
    BY <2>1, <2>2, RunnerKeeps
  <2> QED BY <1>1, <2>4, <2>5 DEF LeaseInv
<1> QED BY <1>1, <1>2, <1>3, HandlersKeep, CrashKeeps, TickKeeps DEF Next

\* Whatever crashes, errors, delays and takeovers happen, a running row is
\* named by the lock with its runner or about to be failed, unless its claim
\* came later than its own lease or the takeover of its lock was cut short.
THEOREM LeasesCorrect == Spec => []RunningIsLeased
<1>1. LeaseInv => RunningIsLeased
  BY DEF LeaseInv, TaskInv, RunningIsLeased, Runs, Failing
<1> QED BY <1>1, InitLeaseInv, NextLeaseInv, PTL DEF Spec

\* The lock is taken from a runner that has not given it back only once its
\* lease has run out, although takeovers and stale-lock passes act on old reads.
THEOREM LeasesHonoured == Spec => LeaseIsHonoured
<1>1. ASSUME TypeInv, [Next]_vars, NEW t \in Tasks, NEW h \in Runners,
             HeldBy(t, h), ~HeldBy(t, h)'
      PROVE  \/ lock.left < 0
             \/ Claiming(h) /\ local[h].task = t
             \/ task[t].by = h /\ job[t] = "releasing"
  <2> USE <1>1
  <2>1. lock # NoLock /\ lock.task = t /\ lock.by = h /\ lock.left \in Int
        /\ lock \in [task : Tasks, by : Runners, left : -Late - 1 .. TTL]
    BY LockFields DEF TypeInv, HeldBy
  <2>2. lock' # lock
    BY DEF HeldBy
  <2>3. ASSUME NEW r \in Runners, ClaimMark(r) \/ ClaimError(r)
        PROVE  Claiming(h) /\ local[h].task = t
    <3>1. Release(local[r].task, r) /\ Claiming(r)
      <4>1. CASE ClaimError(r)
        BY <2>2, <4>1 DEF ClaimError, Claiming
      <4>2. CASE ClaimMark(r) /\ task[local[r].task].status = "pending"
        <5>1. lock' = lock
          BY <4>2, ClaimMarkPending, Zenon
        <5> QED BY <2>2, <5>1
      <4>3. CASE ClaimMark(r) /\ task[local[r].task].status # "pending"
        BY <4>3, ClaimMarkOther DEF ClaimMark, Claiming
      <4> QED BY <2>3, <4>1, <4>2, <4>3
    <3>2. HeldBy(local[r].task, r)
      BY <2>2, <3>1 DEF Release
    <3> QED BY <2>1, <3>1, <3>2 DEF HeldBy
  <2>4. ASSUME NEW r \in Runners, ExpireDelete(r) \/ ClaimSteal(r) PROVE lock.left < 0
    <3>1. lock.left < local[r].at
      BY <2>2, <2>4 DEF ExpireDelete, ClaimSteal
    <3> QED BY <2>1, <3>1, ReadTypes
  <2>5. ASSUME NEW r \in Runners, ClaimInsert(r) PROVE FALSE
    BY <2>1, <2>2, <2>5 DEF ClaimInsert
  <2>6. ASSUME NEW u \in Tasks, FinishRelease(u)
        PROVE  task[t].by = h /\ job[t] = "releasing"
    <3>1. job[u] = "releasing" /\ HeldBy(u, task[u].by)
      BY <2>2, <2>6 DEF FinishRelease, Release
    <3> QED BY <2>1, <3>1 DEF HeldBy
  <2>7. ASSUME NEW n, lock' = [lock EXCEPT !.left = n] PROVE FALSE
    <3>1. lock'.task = t /\ lock'.by = h
      BY <2>1, <2>7
    <3> QED BY <3>1, RunnersAssumption DEF HeldBy, NoLock
  <2>8. ASSUME NEW u \in Tasks, Renew(u) PROVE FALSE
    <3>1. PICK at \in -Lag .. 0 : lock' = [lock EXCEPT !.left = at + TTL]
      BY <2>2, <2>8 DEF Renew
    <3> QED BY <2>7, <3>1
  <2>9. ~Tick
    BY <2>1, <2>7 DEF Tick
  <2>10. ASSUME NEW r \in Runners,
                \/ ExpireRead(r) \/ ExpireMark(r) \/ Prune(r) \/ ScheduleRead(r)
                \/ ScheduleCreate(r) \/ ClaimRead(r) \/ ClaimLook(r)
                \/ ClaimFail(r) \/ ExpireError(r) \/ Crash(r)
         PROVE  FALSE
    BY <2>2, <2>10 DEF ExpireRead, ExpireMark, Prune, ScheduleRead,
       ScheduleCreate, ClaimRead, ClaimLook, ClaimFail, ExpireError, Crash
  <2>11. ASSUME NEW u \in Tasks,
                \/ RenewError(u) \/ Report(u) \/ HandlerError(u)
                \/ \E s \in {"succeeded", "failed"} : Finish(u, s)
         PROVE  FALSE
    BY <2>2, <2>11 DEF RenewError, Report, HandlerError, Finish
  <2>12. ~Enqueue /\ ~UNCHANGED vars
    BY <2>2 DEF Enqueue, vars
  <2> QED BY <2>3, <2>4, <2>5, <2>6, <2>8, <2>9, <2>10, <2>11, <2>12
          DEF Next, RunnerStep, HandlerStep, Ending
<1>2. TypeInv /\ [Next]_vars =>
        [\A t \in Tasks, r \in Runners : HeldBy(t, r) /\ ~HeldBy(t, r)' =>
           \/ lock.left < 0
           \/ Claiming(r) /\ local[r].task = t
           \/ task[t].by = r /\ job[t] = "releasing"]_vars
  BY <1>1
<1> QED BY <1>2, InitTypeInv, NextTypeInv, PTL DEF Spec, LeaseIsHonoured

\* A handler starts only for a row nobody has executed before, under a lease
\* that is its runner's own and valid, unless its claim came later than that
\* lease: no row is ever executed twice, and no two handlers whose claims were
\* in time start under leases that overlap.
THEOREM HandlersStartAlone == Spec => StartsAlone
<1>1. ASSUME LeaseInv, [Next]_vars, NEW t \in Tasks, job[t] # "running", job'[t] = "running"
      PROVE  task[t].by = None /\ (Leased(t, 0)' \/ t \in lost')
  <2> USE <1>1 DEF LeaseInv, KeyInv
  <2>1. ASSUME NEW r \in Runners, ClaimMark(r)
        PROVE  task[t].by = None /\ (Leased(t, 0)' \/ t \in lost')
    <3>1. pc[r] = "mark" /\ local[r].task \in Tasks
      BY <2>1, ReadTypes DEF ClaimMark, Claiming
    <3>2. CASE task[local[r].task].status = "pending"
      <4>1. /\ task' = [task EXCEPT ![local[r].task].status = "running",
                                    ![local[r].task].by = r]
            /\ lock' = lock
            /\ job' = job \/ job' = [job EXCEPT ![local[r].task] = "running"]
        BY <2>1, <3>2, ClaimMarkPending, Zenon
      <4>2. lost' = IF Overdue(r) THEN lost \cup {local[r].task} ELSE lost
        BY <2>1, <3>2, ClaimMarkPending, Zenon
      <4>3. t = local[r].task
        BY <4>1 DEF TypeInv, TypeOK
      <4>4. task'[t].by = r
        BY <3>1, <4>1, <4>3 DEF TypeInv, TypeOK
      <4>5. task[t].by = None
        BY <3>2, <4>3 DEF Unclaimed
      <4>6. CASE Overdue(r)
        BY <4>2, <4>3, <4>5, <4>6
      <4>7. CASE ~Overdue(r)
        <5>1. HeldBy(t, r) /\ lock.left >= 0
          BY <3>1, <4>3, <4>7, ClaimsAreValid DEF InTime
        <5> QED BY <4>1, <4>4, <4>5, <5>1 DEF Leased, HeldBy
      <4> QED BY <4>6, <4>7
    <3>3. CASE task[local[r].task].status # "pending"
      BY <2>1, <3>3, ClaimMarkOther
    <3> QED BY <3>2, <3>3
  <2>2. ASSUME NEW r \in Runners,
               \/ ExpireRead(r) \/ ExpireMark(r) \/ ExpireDelete(r) \/ Prune(r)
               \/ ScheduleRead(r) \/ ScheduleCreate(r) \/ ClaimRead(r)
               \/ ClaimInsert(r) \/ ClaimLook(r) \/ ClaimSteal(r) \/ ClaimFail(r)
               \/ ExpireError(r) \/ ClaimError(r) \/ Crash(r)
        PROVE  FALSE
    BY <2>2 DEF ExpireRead, ExpireMark, ExpireDelete, Prune, ScheduleRead,
       ScheduleCreate, ClaimRead, ClaimInsert, ClaimLook, ClaimSteal, ClaimFail,
       ExpireError, ClaimError, Crash
  <2>3. ASSUME NEW u \in Tasks, HandlerStep(u) PROVE FALSE
    BY <2>3 DEF HandlerStep, Renew, RenewError, Report, Ending, Finish, FinishRelease,
       HandlerError, TypeInv, TypeOK
  <2>4. ~Enqueue /\ ~Tick /\ ~UNCHANGED vars
    BY DEF Enqueue, Tick, vars
  <2> QED BY <2>1, <2>2, <2>3, <2>4 DEF Next, RunnerStep
<1>2. LeaseInv /\ [Next]_vars =>
        [\A t \in Tasks : job[t] # "running" /\ job'[t] = "running" =>
           /\ task[t].by = None
           /\ Leased(t, 0)' \/ t \in lost']_vars
  BY <1>1
<1> QED BY <1>2, InitLeaseInv, NextLeaseInv, PTL DEF Spec, StartsAlone
=============================================================================
