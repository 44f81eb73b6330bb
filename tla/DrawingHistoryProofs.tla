------------------------ MODULE DrawingHistoryProofs ------------------------
(***************************************************************************)
(* Theorems about DrawingHistory for any number of tabs, requests, clears  *)
(* and failures: type correctness, the barrier of a clear, the archive the *)
(* store implements, one paid generation at a time, what a tab announces   *)
(* and what it marks as saved.                                             *)
(***************************************************************************)
EXTENDS DrawingHistory, FiniteSetTheorems, TLAPS

HistType == [active : BOOLEAN, epoch : Nat \cup {None},
             shown : SUBSET Reqs, saved : SUBSET Reqs, loading : BOOLEAN,
             saving : BOOLEAN, clearing : BOOLEAN, warning : BOOLEAN]
LoadType == [pc : {"none", "sent", "read", "failed"}, live : BOOLEAN,
             epoch : Nat \cup {None}, images : SUBSET Reqs]
ClrType  == [pc : {"none", "sent", "done", "failed"}, epoch : Nat \cup {None}]
TaskType == [id : Reqs \cup {None}, status : {"none", "generating", "failed"}]
ReqType  == [pc : {"none", "posted", "bytes", "ready", "saving", "saved",
                   "rejected", "failed", "done"},
             tab : Tabs \cup {None}, live : BOOLEAN, own : BOOLEAN,
             here : BOOLEAN, ok : BOOLEAN, with : Nat \cup {None}]

\* A request under way has a tab; its ticket is void once it is done, and a
\* ticket that is current belongs to the session the tab has now.
Owns(r) == /\ Pending(r) => req[r].tab \in Tabs
           /\ req[r].live => Pending(r) /\ req[r].own
TypeInv == TypeOK /\ \A r \in Reqs : Owns(r)

\* The same with every type named.
LEMMA Typed ==
    TypeOK <=> /\ epoch \in Nat /\ stored \subseteq Reqs
               /\ hist \in [Tabs -> HistType] /\ load \in [Tabs -> LoadType]
               /\ clr \in [Tabs -> ClrType] /\ strays \in Nat
               /\ view \in [Tabs -> BOOLEAN] /\ task \in [Tabs -> TaskType]
               /\ req \in [Reqs -> ReqType] /\ ops \in 0 .. MaxOps
               /\ born \in [Reqs -> Nat \cup {None}] /\ large \subseteq Reqs
BY DEF TypeOK, HistType, LoadType, ClrType, TaskType, ReqType

\* The same for the next state.
LEMMA TypedNext ==
    TypeOK' <=> /\ epoch' \in Nat /\ stored' \subseteq Reqs
                /\ hist' \in [Tabs -> HistType] /\ load' \in [Tabs -> LoadType]
                /\ clr' \in [Tabs -> ClrType] /\ strays' \in Nat
                /\ view' \in [Tabs -> BOOLEAN] /\ task' \in [Tabs -> TaskType]
                /\ req' \in [Reqs -> ReqType] /\ ops' \in 0 .. MaxOps
                /\ born' \in [Reqs -> Nat \cup {None}] /\ large' \subseteq Reqs
BY DEF TypeOK, HistType, LoadType, ClrType, TaskType, ReqType

\* retainDrawings only drops.
LEMMA RetainedSubset == ASSUME NEW S  PROVE Retained(S) \subseteq S
BY DEF Retained

\* The values of histories, loads, clears and requests at rest.
LEMMA ValuesTyped ==
    /\ Disposed \in HistType /\ [Disposed EXCEPT !.active = TRUE] \in HistType
    /\ NoLoad \in LoadType /\ StartedLoad \in LoadType
    /\ NoClear \in ClrType /\ [NoClear EXCEPT !.pc = "sent"] \in ClrType
    /\ NoTask \in TaskType /\ NoReq \in ReqType /\ DoneReq \in ReqType
<1>1. Disposed \in HistType /\ [Disposed EXCEPT !.active = TRUE] \in HistType
      BY DEF Disposed, HistType
<1>2. NoLoad \in LoadType /\ StartedLoad \in LoadType
      BY DEF NoLoad, StartedLoad, LoadType
<1>3. NoClear \in ClrType /\ [NoClear EXCEPT !.pc = "sent"] \in ClrType
      BY DEF NoClear, ClrType
<1>4. NoTask \in TaskType
      BY DEF NoTask, TaskType
<1>5. NoReq \in ReqType /\ DoneReq \in ReqType
      BY DEF NoReq, DoneReq, ReqType
<1> QED  BY <1>1, <1>2, <1>3, <1>4, <1>5

\* What dispose leaves.
LEMMA DisposeTyped ==
    ASSUME TypeOK, NEW t \in Tabs, DisposeHistory(t)
    PROVE  /\ hist' \in [Tabs -> HistType] /\ load' \in [Tabs -> LoadType]
           /\ clr' \in [Tabs -> ClrType] /\ strays' \in Nat
           /\ hist'[t] = Disposed /\ load'[t] = NoLoad /\ clr'[t] = NoClear
           /\ \A u \in Tabs : u # t => /\ hist'[u] = hist[u] /\ load'[u] = load[u]
                                       /\ clr'[u] = clr[u]
BY Typed, ValuesTyped DEF DisposeHistory

\* The end of a request disposes of the history or leaves h and l.
LEMMA EndTyped ==
    ASSUME TypeOK, NEW r \in Reqs, req[r].tab \in Tabs, NEW h \in HistType,
           NEW l \in LoadType, NEW n \in [Tabs -> TaskType], End(r, h, l, n)
    PROVE  LET t == req[r].tab IN
           /\ hist' \in [Tabs -> HistType] /\ load' \in [Tabs -> LoadType]
           /\ clr' \in [Tabs -> ClrType] /\ strays' \in Nat
           /\ task' = n
           /\ \/ /\ req[r].own /\ ~view[t] /\ Owned(t, r) = {}
                 /\ hist'[t] = Disposed /\ load'[t] = NoLoad /\ clr'[t] = NoClear
              \/ /\ ~(req[r].own /\ ~view[t] /\ Owned(t, r) = {})
                 /\ hist'[t] = h /\ load'[t] = l /\ clr'[t] = clr[t]
           /\ \A u \in Tabs : u # t => /\ hist'[u] = hist[u] /\ load'[u] = load[u]
                                       /\ clr'[u] = clr[u]
<1> DEFINE t == req[r].tab
<1>1. CASE req[r].own /\ ~view[t] /\ Owned(t, r) = {}
  <2>1. DisposeHistory(t) /\ task' = n
        BY <1>1 DEF End
  <2> QED  BY <1>1, <2>1, DisposeTyped
<1>2. CASE ~(req[r].own /\ ~view[t] /\ Owned(t, r) = {})
  <2>1. /\ hist' = [hist EXCEPT ![t] = h] /\ load' = [load EXCEPT ![t] = l]
        /\ UNCHANGED <<clr, strays>> /\ task' = n
        BY <1>2 DEF End
  <2> QED  BY <1>2, <2>1, Typed
<1> QED  BY <1>1, <1>2

\* What helpers return for the task and for the requests.
LEMMA TasksTyped ==
    ASSUME TypeOK, NEW t \in Tabs, NEW r \in Reqs
    PROVE  /\ TaskCleared(t, r) \in [Tabs -> TaskType]
           /\ TaskFailed(t) \in [Tabs -> TaskType]
<1>1. task \in [Tabs -> TaskType] /\ task[t] \in TaskType
      BY Typed
<1>2. TaskCleared(t, r) \in [Tabs -> TaskType]
      BY <1>1, ValuesTyped DEF TaskCleared
<1>3. [task[t] EXCEPT !.status = IF @ = "none" THEN @ ELSE "failed"] \in TaskType
      BY <1>1 DEF TaskType
<1>4. TaskFailed(t) = [task EXCEPT ![t] =
                          [task[t] EXCEPT !.status = IF @ = "none" THEN @ ELSE "failed"]]
      BY <1>1 DEF TaskFailed
<1> QED  BY <1>1, <1>2, <1>3, <1>4

\* Ending a request and voiding tickets keep the requests typed.
LEMMA RequestsTyped ==
    ASSUME TypeOK, NEW r \in Reqs, NEW t
    PROVE  /\ Done(r) \in [Reqs -> ReqType]
           /\ Invalidated(t) \in [Reqs -> ReqType]
           /\ [Invalidated(t) EXCEPT ![r] = DoneReq] \in [Reqs -> ReqType]
<1>1. req \in [Reqs -> ReqType] /\ \A q \in Reqs : [req[q] EXCEPT !.live = FALSE] \in ReqType
  <2>1. req \in [Reqs -> ReqType]
        BY Typed
  <2>2. ASSUME NEW q \in ReqType  PROVE [q EXCEPT !.live = FALSE] \in ReqType
        BY DEF ReqType
  <2> QED  BY <2>1, <2>2
<1>2. Done(r) \in [Reqs -> ReqType]
      BY <1>1, ValuesTyped DEF Done
<1>3. Invalidated(t) \in [Reqs -> ReqType]
      BY <1>1 DEF Invalidated
<1> QED  BY <1>2, <1>3, ValuesTyped

\* The counter of operations stays within its bound.
LEMMA BeginTyped == ASSUME TypeOK, Begin  PROVE ops' \in 0 .. MaxOps
BY DrawingAssumption DEF TypeOK, Begin

-----------------------------------------------------------------------------
(* Type correctness.                                                       *)

\* The steps of a tab.
LEMMA TabTyped ==
    ASSUME TypeOK, NEW t \in Tabs, TabStep(t)
    PROVE  TypeOK'
<1>a. /\ epoch \in Nat /\ stored \subseteq Reqs
      /\ hist \in [Tabs -> HistType] /\ load \in [Tabs -> LoadType]
      /\ clr \in [Tabs -> ClrType] /\ strays \in Nat
      /\ view \in [Tabs -> BOOLEAN] /\ task \in [Tabs -> TaskType]
      /\ req \in [Reqs -> ReqType] /\ ops \in 0 .. MaxOps
      /\ born \in [Reqs -> Nat \cup {None}] /\ large \subseteq Reqs
      BY Typed
<1>b. hist[t] \in HistType /\ load[t] \in LoadType /\ clr[t] \in ClrType
      BY <1>a
<1>1. CASE Mount(t)
      BY <1>1, <1>a, ValuesTyped, TypedNext DEF Mount
<1>2. CASE Unmount(t)
  <2>1. ASSUME NEW q \in ReqType  PROVE [q EXCEPT !.here = FALSE] \in ReqType
        BY DEF ReqType
  <2>2. req' \in [Reqs -> ReqType]
        BY <1>2, <1>a, <2>1 DEF Unmount
  <2>3. /\ hist' \in [Tabs -> HistType] /\ load' \in [Tabs -> LoadType]
        /\ clr' \in [Tabs -> ClrType] /\ strays' \in Nat
        BY <1>2, <1>a, DisposeTyped DEF Unmount, KeepHistory
  <2>4. ops' \in 0 .. MaxOps
        BY <1>2, BeginTyped DEF Unmount
  <2> QED  BY <1>2, <1>a, <2>2, <2>3, <2>4, TypedNext DEF Unmount
<1>3. CASE SwitchAccount(t)
  <2>1. ASSUME NEW q \in ReqType
        PROVE  [q EXCEPT !.live = FALSE, !.own = FALSE, !.here = FALSE] \in ReqType
        BY DEF ReqType
  <2>2. req' \in [Reqs -> ReqType]
        BY <1>3, <1>a, <2>1 DEF SwitchAccount
  <2>3. ops' \in 0 .. MaxOps
        BY <1>3, BeginTyped DEF SwitchAccount
  <2> QED  BY <1>3, <1>a, <2>2, <2>3, DisposeTyped, ValuesTyped, TypedNext DEF SwitchAccount
<1>4. CASE Reload(t)
  <2>1. req' \in [Reqs -> ReqType]
        BY <1>4, <1>a, ValuesTyped DEF Reload
  <2>2. ops' \in 0 .. MaxOps
        BY <1>4, BeginTyped DEF Reload
  <2> QED  BY <1>4, <1>a, <2>1, <2>2, DisposeTyped, ValuesTyped, TypedNext DEF Reload
<1>5. CASE LoadTx(t)
  <2>1. Retained(stored) \subseteq Reqs
        BY <1>a, RetainedSubset
  <2>2. /\ [load[t] EXCEPT !.pc = "read", !.epoch = epoch, !.images = Retained(stored)]
              \in LoadType
        /\ [load[t] EXCEPT !.pc = "failed"] \in LoadType
        BY <1>a, <1>b, <2>1 DEF LoadType
  <2>3. load' \in [Tabs -> LoadType] /\ ops' \in 0 .. MaxOps
        BY <1>5, <1>a, <2>2, BeginTyped DEF LoadTx
  <2> QED  BY <1>5, <1>a, <2>3, TypedNext DEF LoadTx
<1>6. CASE LoadDone(t)
  <2>1. Retained(load[t].images \cup hist[t].shown) \subseteq Reqs
        BY <1>b, RetainedSubset DEF HistType, LoadType
  <2>2. Loaded(hist[t], load[t]) \in HistType
        BY <1>b, <2>1 DEF Loaded, HistType, LoadType
  <2>4. hist' \in [Tabs -> HistType] /\ load' \in [Tabs -> LoadType]
        BY <1>6, <1>a, <2>2, ValuesTyped DEF LoadDone
  <2> QED  BY <1>6, <1>a, <2>4, TypedNext DEF LoadDone
<1>7. CASE Clear(t)
  <2>1. /\ [load[t] EXCEPT !.live = FALSE] \in LoadType
        /\ [hist[t] EXCEPT !.shown = {}, !.saved = {}, !.loading = FALSE,
               !.saving = FALSE, !.clearing = TRUE, !.warning = FALSE] \in HistType
        BY <1>b DEF LoadType, HistType
  <2>2. req' \in [Reqs -> ReqType]
    <3>1. ASSUME NEW q \in ReqType  PROVE [q EXCEPT !.live = FALSE] \in ReqType
          BY DEF ReqType
    <3> QED  BY <1>7, <1>a, <3>1 DEF Clear, Invalidated
  <2>3. ops' \in 0 .. MaxOps
        BY <1>7, BeginTyped DEF Clear
  <2> QED  BY <1>7, <1>a, <2>1, <2>2, <2>3, ValuesTyped, TypedNext DEF Clear
<1>8. CASE ClearTx(t)
  <2>1. CASE /\ Wipe
             /\ clr' = [clr EXCEPT ![t] = [pc |-> "done", epoch |-> epoch']]
             /\ UNCHANGED ops
    <3>1. epoch' \in Nat /\ stored' \subseteq Reqs
          BY <1>a, <2>1 DEF Wipe
    <3>2. [pc |-> "done", epoch |-> epoch'] \in ClrType
          BY <3>1 DEF ClrType
    <3> QED  BY <1>8, <1>a, <2>1, <3>1, <3>2, TypedNext DEF ClearTx
  <2>2. CASE /\ clr' = [clr EXCEPT ![t] = [pc |-> "failed", epoch |-> None]]
             /\ Begin
             /\ UNCHANGED <<epoch, stored>>
    <3>1. [pc |-> "failed", epoch |-> None] \in ClrType
          BY DEF ClrType
    <3> QED  BY <1>8, <1>a, <2>2, <3>1, BeginTyped, TypedNext DEF ClearTx
  <2> QED  BY <1>8, <2>1, <2>2 DEF ClearTx
<1>9. CASE ClearDone(t)
  <2> DEFINE h == IF clr[t].pc = "done"
                  THEN [hist[t] EXCEPT !.clearing = FALSE, !.epoch = clr[t].epoch]
                  ELSE [hist[t] EXCEPT !.clearing = FALSE, !.warning = TRUE]
  <2>1. h \in HistType
        BY <1>b DEF HistType, ClrType
  <2>2. hist' = [hist EXCEPT ![t] = h] /\ clr' = [clr EXCEPT ![t] = NoClear]
        BY <1>9, <1>a DEF ClearDone
  <2>3. hist' \in [Tabs -> HistType] /\ clr' \in [Tabs -> ClrType]
        BY <1>a, <2>1, <2>2, ValuesTyped
  <2> QED  BY <1>9, <1>a, <2>3, TypedNext DEF ClearDone
<1> QED  BY <1>1, <1>2, <1>3, <1>4, <1>5, <1>6, <1>7, <1>8, <1>9 DEF TabStep

\* Requests that end.
LEMMA EndStepTyped ==
    ASSUME TypeOK, NEW r \in Reqs, req[r].tab \in Tabs, NEW h \in HistType,
           NEW l \in LoadType,
           \/ End(r, h, l, TaskCleared(req[r].tab, r))
           \/ End(r, h, l, TaskFailed(req[r].tab)),
           req' \in [Reqs -> ReqType], ops' \in 0 .. MaxOps,
           UNCHANGED <<epoch, stored, view, born, large>>
    PROVE  TypeOK'
<1>1. PICK n \in [Tabs -> TaskType] : End(r, h, l, n)
      BY TasksTyped
<1>2. /\ hist' \in [Tabs -> HistType] /\ load' \in [Tabs -> LoadType]
      /\ clr' \in [Tabs -> ClrType] /\ strays' \in Nat /\ task' \in [Tabs -> TaskType]
      BY <1>1, EndTyped
<1> QED  BY <1>2, Typed, TypedNext

\* The steps of a request.
LEMMA RequestTyped ==
    ASSUME TypeInv, NEW r \in Reqs, RequestStep(r)
    PROVE  TypeOK'
<1> DEFINE t == req[r].tab
<1> TypeOK
    BY DEF TypeInv
<1>a. /\ epoch \in Nat /\ stored \subseteq Reqs
      /\ hist \in [Tabs -> HistType] /\ load \in [Tabs -> LoadType]
      /\ clr \in [Tabs -> ClrType] /\ strays \in Nat
      /\ view \in [Tabs -> BOOLEAN] /\ task \in [Tabs -> TaskType]
      /\ req \in [Reqs -> ReqType] /\ ops \in 0 .. MaxOps
      /\ born \in [Reqs -> Nat \cup {None}] /\ large \subseteq Reqs
      BY Typed
<1>b. Done(r) \in [Reqs -> ReqType] /\ req[r] \in ReqType
      BY <1>a, RequestsTyped
<1>c. ASSUME req[r].pc \notin {"none", "done"}
      PROVE  t \in Tabs /\ hist[t] \in HistType /\ load[t] \in LoadType
      BY <1>a, <1>c DEF TypeInv, Owns, Pending
<1>d. ASSUME NEW h \in HistType
      PROVE  Failed(h) \in HistType
      BY DEF Failed, HistType
<1>e. ASSUME NEW q \in {"bytes", "ready", "saved", "rejected", "failed"}
      PROVE  [req EXCEPT ![r] = [@ EXCEPT !.pc = q]] \in [Reqs -> ReqType]
  <2>1. [req[r] EXCEPT !.pc = q] \in ReqType
        BY <1>b DEF ReqType
  <2> QED  BY <1>a, <2>1
<1>1. ASSUME NEW u \in Tabs, Generate(u, r)  PROVE TypeOK'
  <2>1. [pc |-> "posted", tab |-> u, live |-> TRUE, own |-> TRUE, here |-> TRUE,
         ok |-> FALSE, with |-> None] \in ReqType
        BY <1>a DEF ReqType
  <2>2. [id |-> r, status |-> "generating"] \in TaskType
        BY DEF TaskType
  <2>3. hist[u].epoch \in Nat \cup {None}
        BY <1>a DEF HistType
  <2>4. born' \in [Reqs -> Nat \cup {None}]
        BY <1>1, <1>a, <2>3 DEF Generate
  <2> QED  BY <1>1, <1>a, <2>1, <2>2, <2>4, TypedNext DEF Generate
<1>2. CASE Answer(r)
  <2>0. t \in Tabs /\ hist[t] \in HistType /\ load[t] \in LoadType
        BY <1>2, <1>c DEF Answer
  <2>1. CASE /\ End(r, hist[t], load[t], TaskCleared(t, r))
                \/ End(r, hist[t], load[t], TaskFailed(t))
             /\ req' = Done(r)
             /\ Begin \/ UNCHANGED ops
    <3>1. ops' \in 0 .. MaxOps
          BY <1>a, <2>1, BeginTyped
    <3> QED  BY <1>2, <1>b, <2>0, <2>1, <3>1, EndStepTyped DEF Answer
  <2>2. CASE /\ hist' = [hist EXCEPT ![t] = Remembered(hist[t], r)]
             /\ req' = [req EXCEPT ![r] = [@ EXCEPT !.pc = "bytes"]]
             /\ UNCHANGED <<load, clr, strays, task, ops>>
    <3>1. Retained(hist[t].shown \cup {r}) \subseteq Reqs
          BY <2>0, RetainedSubset DEF HistType
    <3>2. Remembered(hist[t], r) \in HistType
          BY <2>0, <3>1 DEF Remembered, HistType
    <3>3. hist' \in [Tabs -> HistType] /\ req' \in [Reqs -> ReqType]
          BY <1>a, <1>e, <2>2, <3>2
    <3> QED  BY <1>2, <1>a, <2>2, <3>3, TypedNext DEF Answer
  <2> QED  BY <1>2, <2>1, <2>2 DEF Answer
<1>3. CASE Bytes(r)
  <2>1. [req[r] EXCEPT !.pc = "ready", !.ok = TRUE] \in ReqType
        BY <1>b DEF ReqType
  <2>2. req' \in [Reqs -> ReqType] /\ ops' \in 0 .. MaxOps /\ large' \subseteq Reqs
        BY <1>3, <1>a, <1>e, <2>1, BeginTyped DEF Bytes
  <2> QED  BY <1>3, <1>a, <2>2, TypedNext DEF Bytes
<1>4. CASE SaveCall(r)
  <2>0. t \in Tabs /\ hist[t] \in HistType /\ load[t] \in LoadType
        BY <1>4, <1>c DEF SaveCall
  <2>1. CASE /\ End(r, hist[t], load[t], TaskCleared(t, r))
                \/ End(r, Failed(hist[t]), load[t], TaskCleared(t, r))
             /\ req' = Done(r)
             /\ UNCHANGED born
        BY <1>4, <1>a, <1>b, <1>d, <2>0, <2>1, EndStepTyped DEF SaveCall
  <2>2. CASE /\ req' = [req EXCEPT ![r] = [@ EXCEPT !.pc = "saving", !.with = hist[t].epoch]]
             /\ born' = [born EXCEPT ![r] = IF @ = None THEN hist[t].epoch ELSE @]
             /\ UNCHANGED <<hist, load, clr, strays, task>>
    <3>1. hist[t].epoch \in Nat \cup {None}
          BY <2>0 DEF HistType
    <3>2. [req[r] EXCEPT !.pc = "saving", !.with = hist[t].epoch] \in ReqType
          BY <1>b, <3>1 DEF ReqType
    <3>3. born' \in [Reqs -> Nat \cup {None}] /\ req' \in [Reqs -> ReqType]
          BY <1>a, <2>2, <3>1, <3>2
    <3> QED  BY <1>4, <1>a, <2>2, <3>3, TypedNext DEF SaveCall
  <2> QED  BY <1>4, <2>1, <2>2 DEF SaveCall
<1>5. CASE SaveTx(r)
  <2>1. Retained(stored \cup {r}) \subseteq Reqs /\ Retained(stored) \subseteq Reqs
        BY <1>a, RetainedSubset
  <2>2. stored' \subseteq Reqs /\ req' \in [Reqs -> ReqType] /\ ops' \in 0 .. MaxOps
        BY <1>5, <1>a, <1>e, <2>1, BeginTyped DEF SaveTx
  <2> QED  BY <1>5, <1>a, <2>2, TypedNext DEF SaveTx
<1>6. CASE SaveDone(r)
  <2>0. t \in Tabs /\ hist[t] \in HistType /\ load[t] \in LoadType
        BY <1>6, <1>c DEF SaveDone
  <2>1. /\ [hist[t] EXCEPT !.saved = @ \cup ({r} \cap hist[t].shown), !.saving = FALSE]
              \in HistType
        /\ [hist[t] EXCEPT !.shown = {}, !.saved = {}, !.saving = FALSE, !.loading = TRUE]
              \in HistType
        BY <2>0 DEF HistType
  <2>2. /\ [Invalidated(t) EXCEPT ![r] = DoneReq] \in [Reqs -> ReqType]
        /\ StartedLoad \in LoadType
        BY RequestsTyped, ValuesTyped
  <2> QED  BY <1>6, <1>a, <1>b, <1>d, <2>0, <2>1, <2>2, EndStepTyped DEF SaveDone
<1> QED  BY <1>1, <1>2, <1>3, <1>4, <1>5, <1>6 DEF RequestStep

\* What the step of a tab does to a request: it ends with its document, or it
\* keeps its place and may lose its ticket and its session.
LEMMA TabRequests ==
    ASSUME TypeOK, NEW t \in Tabs, TabStep(t), NEW q \in Reqs
    PROVE  \/ req'[q] = DoneReq /\ req[q].tab = t
           \/ /\ req'[q].pc = req[q].pc /\ req'[q].tab = req[q].tab
              /\ req'[q].with = req[q].with /\ req'[q].ok = req[q].ok
              /\ \/ req'[q].live = req[q].live /\ req'[q].own = req[q].own
                 \/ req'[q].live = FALSE /\ req'[q].own = req[q].own /\ req[q].tab = t
                 \/ req'[q].live = FALSE /\ req'[q].own = FALSE /\ req[q].tab = t
<1>a. req \in [Reqs -> ReqType] /\ req[q] \in ReqType
      BY Typed
<1>1. CASE Unmount(t)
  <2>1. req'[q] = IF req[q].tab = t THEN [req[q] EXCEPT !.here = FALSE] ELSE req[q]
        BY <1>1, <1>a DEF Unmount
  <2> QED  BY <1>a, <2>1 DEF ReqType
<1>2. CASE SwitchAccount(t)
  <2>1. req'[q] = IF req[q].tab = t
                  THEN [req[q] EXCEPT !.live = FALSE, !.own = FALSE, !.here = FALSE]
                  ELSE req[q]
        BY <1>2, <1>a DEF SwitchAccount
  <2> QED  BY <1>a, <2>1 DEF ReqType
<1>3. CASE Reload(t)
  <2>1. req'[q] = IF req[q].tab = t THEN DoneReq ELSE req[q]
        BY <1>3, <1>a DEF Reload
  <2> QED  BY <2>1
<1>4. CASE Clear(t)
  <2>1. req'[q] = IF req[q].tab = t THEN [req[q] EXCEPT !.live = FALSE] ELSE req[q]
        BY <1>4, <1>a DEF Clear, Invalidated
  <2> QED  BY <1>a, <2>1 DEF ReqType
<1>5. CASE Mount(t) \/ LoadTx(t) \/ LoadDone(t) \/ ClearTx(t) \/ ClearDone(t)
      BY <1>5 DEF Mount, LoadTx, LoadDone, ClearTx, ClearDone
<1> QED  BY <1>1, <1>2, <1>3, <1>4, <1>5 DEF TabStep

\* What the step of a request does to the others.
LEMMA OtherRequests ==
    ASSUME TypeOK, NEW r \in Reqs, RequestStep(r), NEW q \in Reqs \ {r}
    PROVE  \/ req'[q] = req[q]
           \/ /\ SaveDone(r) /\ req[r].live /\ req[q].tab = req[r].tab
              /\ req'[q] = [req[q] EXCEPT !.live = FALSE]
<1>a. req \in [Reqs -> ReqType]
      BY Typed
<1>1. CASE \E t \in Tabs : Generate(t, r)
      BY <1>1, <1>a DEF Generate
<1>2. CASE Answer(r) \/ Bytes(r) \/ SaveCall(r) \/ SaveTx(r)
      BY <1>2, <1>a DEF Answer, Bytes, SaveCall, SaveTx, Done
<1>3. CASE SaveDone(r)
      BY <1>3, <1>a DEF SaveDone, Done, Invalidated
<1> QED  BY <1>1, <1>2, <1>3 DEF RequestStep

\* What it does to the request itself.
LEMMA OwnRequest ==
    ASSUME TypeOK, NEW r \in Reqs, RequestStep(r)
    PROVE  \/ req'[r] = DoneReq /\ req[r].pc \notin {"none", "done"}
           \/ /\ req'[r].pc \notin {"none", "done"} /\ req[r].pc \notin {"none", "done"}
              /\ req'[r].tab = req[r].tab /\ req'[r].live = req[r].live
              /\ req'[r].own = req[r].own
           \/ \E t \in Tabs : /\ Generate(t, r) /\ req'[r].pc = "posted" /\ req'[r].tab = t
                              /\ req'[r].live = TRUE /\ req'[r].own = TRUE
<1>a. req \in [Reqs -> ReqType] /\ req[r] \in ReqType
      BY Typed
<1>1. ASSUME NEW t \in Tabs, Generate(t, r)
      PROVE  /\ req'[r].pc = "posted" /\ req'[r].tab = t /\ req'[r].live = TRUE
             /\ req'[r].own = TRUE
      BY <1>1, <1>a DEF Generate
<1>2. CASE Answer(r)
  <2>1. req[r].pc = "posted"
        BY <1>2 DEF Answer
  <2>2. req'[r] = DoneReq \/ req'[r] = [req[r] EXCEPT !.pc = "bytes"]
        BY <1>2, <1>a DEF Answer, Done
  <2> QED  BY <1>a, <2>1, <2>2 DEF ReqType
<1>3. CASE Bytes(r)
  <2>1. /\ req[r].pc = "bytes"
        /\ \/ req'[r] = [req[r] EXCEPT !.pc = "ready", !.ok = TRUE]
           \/ req'[r] = [req[r] EXCEPT !.pc = "ready"]
        BY <1>3, <1>a DEF Bytes
  <2> QED  BY <1>a, <2>1 DEF ReqType
<1>4. CASE SaveCall(r)
  <2>1. /\ req[r].pc = "ready"
        /\ \/ req'[r] = DoneReq
           \/ req'[r] = [req[r] EXCEPT !.pc = "saving", !.with = hist[req[r].tab].epoch]
        BY <1>4, <1>a DEF SaveCall, Done
  <2> QED  BY <1>a, <2>1 DEF ReqType
<1>5. CASE SaveTx(r)
  <2>1. /\ req[r].pc = "saving"
        /\ \/ req'[r] = [req[r] EXCEPT !.pc = "saved"]
           \/ req'[r] = [req[r] EXCEPT !.pc = "rejected"]
           \/ req'[r] = [req[r] EXCEPT !.pc = "failed"]
        BY <1>5, <1>a DEF SaveTx
  <2> QED  BY <1>a, <2>1 DEF ReqType
<1>6. CASE SaveDone(r)
  <2>1. req[r].pc \notin {"none", "done"}
        BY <1>6 DEF SaveDone
  <2>2. req'[r] = DoneReq
        BY <1>6, <1>a, RequestsTyped DEF SaveDone, Done
  <2> QED  BY <2>1, <2>2
<1> QED  BY <1>1, <1>2, <1>3, <1>4, <1>5, <1>6 DEF RequestStep

\* The clear of a history that is gone.
LEMMA StrayTyped == ASSUME TypeOK, StrayTx  PROVE TypeOK'
<1>1. strays' \in Nat /\ epoch' \in Nat /\ stored' \subseteq Reqs
      BY DEF TypeOK, StrayTx, Wipe
<1> QED  BY <1>1, Typed, TypedNext DEF StrayTx

\* Every step keeps the types and the bond of a request to its session.
LEMMA TypeInvKept == TypeInv /\ [Next]_vars => TypeInv'
<1> SUFFICES ASSUME TypeInv, [Next]_vars  PROVE TypeInv'
    OBVIOUS
<1> TypeOK /\ \A q \in Reqs : Owns(q)
    BY DEF TypeInv
<1>a. \A q \in Reqs : req[q] \in ReqType
      BY Typed
<1>b. DoneReq.pc = "done" /\ DoneReq.live = FALSE
      BY DEF DoneReq, NoReq
<1>1. ASSUME NEW t \in Tabs, TabStep(t)  PROVE TypeInv'
  <2>1. ASSUME NEW q \in Reqs  PROVE Owns(q)'
        BY <1>1, <1>b, TabRequests DEF Owns, Pending
  <2> QED  BY <1>1, <2>1, TabTyped DEF TypeInv
<1>2. ASSUME NEW r \in Reqs, RequestStep(r)  PROVE TypeInv'
  <2>1. ASSUME NEW q \in Reqs \ {r}  PROVE Owns(q)'
    <3>1. CASE req'[q] = req[q]
          BY <3>1 DEF Owns, Pending
    <3>2. CASE req'[q] = [req[q] EXCEPT !.live = FALSE]
      <4>1. req'[q].pc = req[q].pc /\ req'[q].tab = req[q].tab /\ req'[q].live = FALSE
            BY <1>a, <3>2 DEF ReqType
      <4> QED  BY <4>1 DEF Owns, Pending
    <3> QED  BY <1>2, <3>1, <3>2, OtherRequests
  <2>2. Owns(r)'
        BY <1>2, <1>b, OwnRequest DEF Owns, Pending
  <2> QED  BY <1>2, <2>1, <2>2, RequestTyped DEF TypeInv
<1>3. CASE StrayTx
  <2>1. req' = req
        BY <1>3 DEF StrayTx
  <2> QED  BY <1>3, <2>1, StrayTyped DEF TypeInv, Owns, Pending
<1>4. CASE UNCHANGED vars
      BY <1>4, Typed, TypedNext DEF vars, TypeInv, Owns, Pending
<1> QED  BY <1>1, <1>2, <1>3, <1>4 DEF Next

\* The initial state is typed.
LEMMA TypeInvInit == Init => TypeInv
<1> SUFFICES ASSUME Init  PROVE TypeInv
    OBVIOUS
<1>1. TypeOK
      BY ValuesTyped, Typed, DrawingAssumption DEF Init
<1>2. \A q \in Reqs : req[q].pc = "none" /\ req[q].live = FALSE
      BY DEF Init, NoReq
<1> QED  BY <1>1, <1>2 DEF TypeInv, Owns, Pending

\* The store, the histories of the tabs, their loads and clears and the requests
\* under way keep their types, for any number of tabs and requests.
THEOREM DrawingTypeCorrect == Spec => []TypeOK
<1>1. TypeInv => TypeOK
      BY DEF TypeInv
<1> QED  BY <1>1, TypeInvInit, TypeInvKept, PTL DEF Spec

-----------------------------------------------------------------------------
(* The barrier of a clear and the task of the account.                     *)

\* A history that loads says so, a clear under way is shown, and somebody keeps
\* the history in which it was begun.
HistInv(t) == /\ load[t].live => hist[t].loading /\ load[t].pc # "none"
              /\ clr[t].pc # "none" => hist[t].clearing
              /\ hist[t].clearing => view[t] \/ Owned(t, None) # {}

\* A current ticket and the epoch of its request; the task of the account is
\* that of the request which keeps the session.
TicketInv(r) ==
    /\ req[r].live => /\ ~hist[req[r].tab].clearing
                      /\ born[r] # None => /\ hist[req[r].tab].epoch = born[r]
                                           /\ ~load[req[r].tab].live
    /\ req[r].pc = "saving" => born[r] # None /\ req[r].with = born[r]
    /\ req[r].pc = "none" => born[r] = None
TaskInv(r) == Pending(r) /\ req[r].own
                => task[req[r].tab] = [id |-> r, status |-> "generating"]

SafeInv == /\ TypeInv
           /\ \A t \in Tabs : HistInv(t)
           /\ \A r \in Reqs : TicketInv(r) /\ TaskInv(r)
           /\ ClearIsABarrier

\* Nothing is stored and nothing under way at the start.
LEMMA SafeInvInit == Init => SafeInv
<1> SUFFICES ASSUME Init  PROVE SafeInv
    OBVIOUS
<1>1. \A t \in Tabs : HistInv(t)
      BY DEF Init, HistInv, NoLoad, NoClear, Disposed
<1>2. \A r \in Reqs : TicketInv(r) /\ TaskInv(r)
      BY DEF Init, TicketInv, TaskInv, Pending, NoReq
<1>3. ClearIsABarrier
      BY DEF Init, ClearIsABarrier
<1> QED  BY <1>1, <1>2, <1>3, TypeInvInit DEF SafeInv

\* A request with a current ticket keeps the session of its tab.
LEMMA LiveOwned ==
    ASSUME TypeInv, NEW q \in Reqs, req[q].live
    PROVE  req[q].tab \in Tabs /\ q \in Owned(req[q].tab, None)
BY DrawingAssumption DEF TypeInv, Owns, Owned, Reqs, Pending

\* Owners that go on are still owners.
LEMMA OwnedKept ==
    ASSUME NEW u, \A q \in Owned(u, None) : /\ req'[q].pc \notin {"none", "done"}
                                            /\ req'[q].tab = u /\ req'[q].own
    PROVE  Owned(u, None) \subseteq Owned(u, None)'
BY DEF Owned, Pending

\* The step of a tab leaves the other tabs alone.
LEMMA TabOthers ==
    ASSUME TypeOK, NEW t \in Tabs, TabStep(t)
    PROVE  /\ born' = born
           /\ \A u \in Tabs \ {t} :
                 /\ hist'[u] = hist[u] /\ load'[u] = load[u] /\ clr'[u] = clr[u]
                 /\ view'[u] = view[u] /\ task'[u] = task[u]
<1>a. /\ hist \in [Tabs -> HistType] /\ load \in [Tabs -> LoadType]
      /\ clr \in [Tabs -> ClrType] /\ view \in [Tabs -> BOOLEAN]
      /\ task \in [Tabs -> TaskType]
      BY Typed
<1>1. CASE Mount(t) \/ LoadTx(t) \/ LoadDone(t) \/ Clear(t) \/ ClearTx(t) \/ ClearDone(t)
      BY <1>1, <1>a DEF Mount, LoadTx, LoadDone, Clear, ClearTx, ClearDone
<1>2. CASE Unmount(t) \/ SwitchAccount(t) \/ Reload(t)
      BY <1>2, <1>a, DisposeTyped DEF Unmount, SwitchAccount, Reload, KeepHistory
<1> QED  BY <1>1, <1>2 DEF TabStep

\* The barrier under the step of a tab.
LEMMA TabBarrier ==
    ASSUME TypeOK, ClearIsABarrier, NEW t \in Tabs, TabStep(t)
    PROVE  ClearIsABarrier'
<1>1. stored' = {} \/ (stored' = stored /\ epoch' = epoch)
      BY DEF TabStep, Mount, Unmount, SwitchAccount, Reload, LoadTx, LoadDone, Clear,
             ClearTx, ClearDone, Wipe
<1> QED  BY <1>1, TabOthers DEF ClearIsABarrier

\* A tab that keeps its history, its task and its mount.
LEMMA TabSafe ==
    ASSUME SafeInv, NEW t \in Tabs, TabStep(t)
    PROVE  /\ \A u \in Tabs : HistInv(u)'
           /\ \A q \in Reqs : TicketInv(q)' /\ TaskInv(q)'
<1> /\ TypeInv /\ TypeOK
    /\ \A u \in Tabs : HistInv(u)
    /\ \A q \in Reqs : TicketInv(q) /\ TaskInv(q) /\ Owns(q)
    BY DEF SafeInv, TypeInv
<1>a. /\ hist \in [Tabs -> HistType] /\ load \in [Tabs -> LoadType]
      /\ clr \in [Tabs -> ClrType] /\ view \in [Tabs -> BOOLEAN]
      /\ task \in [Tabs -> TaskType]
      BY Typed
<1>b. hist[t] \in HistType /\ load[t] \in LoadType /\ clr[t] \in ClrType
      BY <1>a
<1>c. DoneReq.pc = "done" /\ DoneReq.live = FALSE
      BY DEF DoneReq, NoReq
<1>1. ASSUME NEW u \in Tabs \ {t}  PROVE HistInv(u)'
  <2>1. Owned(u, None) \subseteq Owned(u, None)'
    <3>1. ASSUME NEW q \in Owned(u, None)
          PROVE  req'[q].pc \notin {"none", "done"} /\ req'[q].tab = u /\ req'[q].own
          BY <3>1, TabRequests DEF Owned, Pending
    <3> QED  BY <3>1, OwnedKept
  <2> QED  BY <2>1, TabOthers DEF HistInv
<1>2. ASSUME NEW q \in Reqs, req[q].tab # t  PROVE TicketInv(q)' /\ TaskInv(q)'
  <2>1. /\ req'[q].pc = req[q].pc /\ req'[q].tab = req[q].tab /\ req'[q].with = req[q].with
        /\ req'[q].live = req[q].live /\ req'[q].own = req[q].own
        BY <1>2, TabRequests
  <2>2. Pending(q) => req[q].tab \in Tabs \ {t}
        BY <1>2 DEF Owns
  <2>3. req[q].live => req[q].tab \in Tabs \ {t}
        BY <2>2 DEF Owns
  <2>4. TicketInv(q)'
        BY <2>1, <2>3, TabOthers DEF TicketInv
  <2>5. TaskInv(q)'
        BY <2>1, <2>2, TabOthers DEF TaskInv, Pending
  <2> QED  BY <2>4, <2>5
\* What is left to show, from the state of the tab after the step.
<1>3. ASSUME NEW q \in Reqs, req[q].tab = t,
             req'[q].live => /\ hist'[t].clearing = FALSE
                             /\ born[q] # None => hist'[t].epoch = hist[t].epoch /\ ~load'[t].live,
             Pending(q)' /\ req'[q].own => task'[t] = task[t]
      PROVE  TicketInv(q)' /\ TaskInv(q)'
  <2>1. /\ req'[q].live => req[q].live /\ req'[q].tab = t
        /\ req'[q].pc = "saving" => req[q].pc = "saving" /\ req'[q].with = req[q].with
        /\ req'[q].pc = "none" => req[q].pc = "none"
        /\ born'[q] = born[q]
        BY <1>3, <1>c, TabRequests, TabOthers
  <2>2. Pending(q)' /\ req'[q].own => Pending(q) /\ req[q].own /\ req'[q].tab = t
        BY <1>3, <1>c, TabRequests DEF Pending
  <2>3. TicketInv(q)'
        BY <1>3, <2>1 DEF TicketInv
  <2>4. TaskInv(q)'
        BY <1>3, <2>2 DEF TaskInv
  <2> QED  BY <2>3, <2>4
<1>4. ASSUME Owned(t, None) = {}, NEW q \in Reqs, req[q].tab = t
      PROVE  req'[q].live = FALSE /\ ~(Pending(q)' /\ req'[q].own)
  <2>1. req[q].live = FALSE
    <3>1. ~req[q].live
          BY <1>4, LiveOwned
    <3>2. req[q] \in ReqType
          BY Typed
    <3> QED  BY <3>1, <3>2 DEF ReqType
  <2>2. ~(Pending(q) /\ req[q].own)
        BY <1>4, DrawingAssumption DEF Owned, Reqs
  <2> QED  BY <2>1, <2>2, <1>c, TabRequests DEF Pending
<1>5. HistInv(t)' /\ \A q \in Reqs : req[q].tab = t => TicketInv(q)' /\ TaskInv(q)'
  <2>v. /\ Disposed.clearing = FALSE /\ Disposed.loading = TRUE
        /\ NoLoad.live = FALSE /\ NoClear.pc = "none"
        BY DEF Disposed, NoLoad, NoClear
  <2>d. ASSUME hist'[t] = Disposed, load'[t] = NoLoad, clr'[t] = NoClear,
               \A q \in Reqs : req[q].tab = t =>
                  req'[q].live = FALSE /\ ~(Pending(q)' /\ req'[q].own)
        PROVE  HistInv(t)' /\ \A q \in Reqs : req[q].tab = t => TicketInv(q)' /\ TaskInv(q)'
        BY <2>d, <2>v, <1>3 DEF HistInv
  \* The session and the mount are kept, and nobody loses its ticket.
  <2>k. ASSUME req' = req, task' = task, view' = view,
               hist'[t].clearing => hist[t].clearing
        PROVE  /\ hist'[t].clearing => view'[t] \/ Owned(t, None)' # {}
               /\ \A q \in Reqs : req[q].tab = t =>
                     /\ req'[q].live => req[q].live /\ ~hist[t].clearing
                     /\ born[q] # None /\ req[q].live => ~load[t].live
                     /\ Pending(q)' /\ req'[q].own => task'[t] = task[t]
    <3>1. Owned(t, None)' = Owned(t, None)
          BY <2>k DEF Owned, Pending
    <3> QED  BY <2>k, <3>1 DEF HistInv, TicketInv
  <2>1. CASE Mount(t)
    <3>1. CASE Owned(t, None) = {}
      <4>1. /\ hist'[t] = [Disposed EXCEPT !.active = TRUE] /\ clr' = clr /\ ~view[t]
            /\ load'[t] = StartedLoad
            BY <2>1, <3>1, <1>a DEF Mount
      <4>2. /\ hist'[t].clearing = FALSE /\ hist'[t].loading = TRUE
            /\ load'[t].pc = "sent"
            BY <4>1 DEF Disposed, StartedLoad, NoLoad
      <4>3. HistInv(t)'
            BY <3>1, <4>1, <4>2 DEF HistInv
      <4> QED  BY <3>1, <4>3, <1>3, <1>4
    <3>2. CASE Owned(t, None) # {}
      <4>1. /\ hist' = hist /\ load' = load /\ clr' = clr /\ req' = req /\ view'[t] = TRUE
            /\ task' = task /\ born' = born
            BY <2>1, <3>2, <1>a DEF Mount
      <4> QED  BY <4>1 DEF HistInv, TicketInv, TaskInv, Pending
    <3> QED  BY <3>1, <3>2
  <2>2. CASE Unmount(t)
    <3>1. CASE Owned(t, None) = {}
      <4>1. DisposeHistory(t)
            BY <2>2, <3>1 DEF Unmount
      <4> QED  BY <3>1, <4>1, <2>d, <1>4, DisposeTyped
    <3>2. CASE Owned(t, None) # {}
      <4>1. hist' = hist /\ load' = load /\ clr' = clr /\ task' = task /\ born' = born
            BY <2>2, <3>2 DEF Unmount, KeepHistory
      <4>2. ASSUME NEW q \in Reqs
            PROVE  /\ req'[q].pc = req[q].pc /\ req'[q].tab = req[q].tab
                   /\ req'[q].live = req[q].live /\ req'[q].own = req[q].own
        <5>1. req \in [Reqs -> ReqType]
              BY Typed
        <5>2. req'[q] = req[q] \/ req'[q] = [req[q] EXCEPT !.here = FALSE]
              BY <2>2, <5>1 DEF Unmount
        <5> QED  BY <5>1, <5>2 DEF ReqType
      <4>3. Owned(t, None)' # {}
            BY <3>2, <4>2 DEF Owned, Pending
      <4>4. HistInv(t)'
            BY <4>1, <4>3 DEF HistInv
      <4>5. ASSUME NEW q \in Reqs, req[q].tab = t  PROVE TicketInv(q)' /\ TaskInv(q)'
            BY <4>1, <4>2, <4>5, <1>3, <1>b DEF TicketInv, HistType
      <4> QED  BY <4>4, <4>5
    <3> QED  BY <3>1, <3>2
  <2>3. CASE SwitchAccount(t)
    <3>1. ASSUME NEW q \in Reqs, req[q].tab = t  PROVE req'[q].live = FALSE /\ req'[q].own = FALSE
      <4>1. req \in [Reqs -> ReqType]
            BY Typed
      <4>2. req'[q] = [req[q] EXCEPT !.live = FALSE, !.own = FALSE, !.here = FALSE]
            BY <2>3, <3>1, <4>1 DEF SwitchAccount
      <4> QED  BY <4>1, <4>2 DEF ReqType
    <3> QED  BY <2>3, <3>1, <2>d, DisposeTyped DEF SwitchAccount
  <2>4. CASE Reload(t)
    <3>1. ASSUME NEW q \in Reqs, req[q].tab = t  PROVE req'[q] = DoneReq
          BY <2>4, <3>1, Typed DEF Reload
    <3> QED  BY <2>4, <3>1, <1>c, <2>d, DisposeTyped DEF Reload, Pending
  <2>5. CASE LoadTx(t)
    <3>1. /\ hist' = hist /\ clr' = clr /\ req' = req /\ task' = task /\ view' = view
          /\ \/ load'[t] = [load[t] EXCEPT !.pc = "read", !.epoch = epoch,
                                           !.images = Retained(stored)]
             \/ load'[t] = [load[t] EXCEPT !.pc = "failed"]
          BY <2>5, <1>a DEF LoadTx
    <3>2. load'[t].live = load[t].live /\ load'[t].pc # "none"
          BY <3>1, <1>b DEF LoadType
    <3>3. HistInv(t)'
          BY <3>1, <3>2, <2>k DEF HistInv
    <3> QED  BY <3>1, <3>2, <3>3, <2>k, <1>3, <1>b DEF HistType
  <2>6. CASE LoadDone(t)
    <3>1. /\ hist'[t] = Loaded(hist[t], load[t]) /\ load'[t] = NoLoad
          /\ clr' = clr /\ req' = req /\ task' = task /\ view' = view
          BY <2>6, <1>a DEF LoadDone
    <3>2. /\ Loaded(hist[t], load[t]).clearing = hist[t].clearing
          /\ ~load[t].live => Loaded(hist[t], load[t]) = hist[t]
          BY <1>b DEF Loaded, HistType
    <3>3. HistInv(t)'
          BY <3>1, <3>2, <2>k, <2>v DEF HistInv
    <3> QED  BY <3>1, <3>2, <3>3, <2>k, <2>v, <1>3, <1>b DEF HistType
  <2>7. CASE Clear(t)
    <3>1. /\ hist'[t] = [hist[t] EXCEPT !.shown = {}, !.saved = {}, !.loading = FALSE,
                            !.saving = FALSE, !.clearing = TRUE, !.warning = FALSE]
          /\ load'[t] = [load[t] EXCEPT !.live = FALSE]
          /\ view'[t] = TRUE /\ task' = task
          BY <2>7, <1>a DEF Clear
    <3>2. hist'[t].clearing = TRUE /\ load'[t].live = FALSE
          BY <3>1, <1>b DEF HistType, LoadType
    <3>3. ASSUME NEW q \in Reqs, req[q].tab = t  PROVE req'[q].live = FALSE
      <4>1. req \in [Reqs -> ReqType]
            BY Typed
      <4>2. req'[q] = [req[q] EXCEPT !.live = FALSE]
            BY <2>7, <3>3, <4>1 DEF Clear, Invalidated
      <4> QED  BY <4>1, <4>2 DEF ReqType
    <3> QED  BY <3>1, <3>2, <3>3, <1>3 DEF HistInv
  <2>8. CASE ClearTx(t)
    <3>1. hist' = hist /\ load' = load /\ req' = req /\ task' = task /\ view' = view
          BY <2>8 DEF ClearTx
    <3>2. hist[t].clearing
          BY <2>8 DEF ClearTx, HistInv
    <3>3. HistInv(t)'
          BY <3>1, <3>2, <2>k DEF HistInv
    <3> QED  BY <3>1, <3>3, <2>k, <1>3, <1>b DEF HistType
  <2>9. CASE ClearDone(t)
    <3>1. /\ load' = load /\ req' = req /\ task' = task /\ view' = view /\ clr'[t] = NoClear
          /\ \/ hist'[t] = [hist[t] EXCEPT !.clearing = FALSE, !.epoch = clr[t].epoch]
             \/ hist'[t] = [hist[t] EXCEPT !.clearing = FALSE, !.warning = TRUE]
          BY <2>9, <1>a DEF ClearDone
    <3>2. hist'[t].clearing = FALSE /\ hist'[t].loading = hist[t].loading
          BY <3>1, <1>b DEF HistType
    <3>3. hist[t].clearing
          BY <2>9 DEF ClearDone, HistInv
    <3>4. HistInv(t)'
          BY <3>1, <3>2, <2>v DEF HistInv
    <3> QED  BY <3>1, <3>2, <3>3, <3>4, <2>k, <1>3
  <2> QED  BY <2>1, <2>2, <2>3, <2>4, <2>5, <2>6, <2>7, <2>8, <2>9 DEF TabStep
<1> QED  BY <1>1, <1>2, <1>5

\* The effect of End on the sessions.
Ended(r, h, l, n) ==
    LET t == req[r].tab IN
    /\ task' = n
    /\ \/ /\ req[r].own /\ ~view[t] /\ Owned(t, r) = {}
          /\ hist'[t] = Disposed /\ load'[t] = NoLoad /\ clr'[t] = NoClear
       \/ /\ ~(req[r].own /\ ~view[t] /\ Owned(t, r) = {})
          /\ hist'[t] = h /\ load'[t] = l /\ clr'[t] = clr[t]
    /\ \A u \in Tabs : u # t => hist'[u] = hist[u] /\ load'[u] = load[u] /\ clr'[u] = clr[u]

\* What End does, tab by tab.
LEMMA EndIsEnded ==
    ASSUME TypeOK, NEW r \in Reqs, req[r].tab \in Tabs, NEW h \in HistType,
           NEW l \in LoadType, NEW n \in [Tabs -> TaskType], End(r, h, l, n)
    PROVE  Ended(r, h, l, n)
BY EndTyped DEF Ended

\* The end of request r, for the sessions and for the other requests.  Tickets of
\* the tab are void if its load is started again.
LEMMA EndSafe ==
    ASSUME SafeInv, NEW r \in Reqs, Pending(r),
           NEW h \in HistType, NEW l \in LoadType, NEW n \in [Tabs -> TaskType],
           h.clearing = hist[req[r].tab].clearing, h.epoch = hist[req[r].tab].epoch,
           l.live => h.loading /\ l.pc # "none",
           \A u \in Tabs : u = req[r].tab \/ n[u] = task[u],
           n[req[r].tab] = task[req[r].tab] \/ task[req[r].tab].id = r \/ req[r].own,
           End(r, h, l, n), req'[r] = DoneReq,
           \A q \in Reqs \ {r} :
              \/ req'[q] = req[q] /\ l.live = load[req[r].tab].live
              \/ req'[q] = req[q] /\ req[q].tab # req[r].tab
              \/ req'[q] = [req[q] EXCEPT !.live = FALSE] /\ req[q].tab = req[r].tab,
           UNCHANGED <<view, born>>
    PROVE  /\ \A u \in Tabs : HistInv(u)'
           /\ \A q \in Reqs : TicketInv(q)' /\ TaskInv(q)'
<1> DEFINE t == req[r].tab
<1> /\ TypeInv /\ TypeOK
    /\ \A u \in Tabs : HistInv(u)
    /\ \A q \in Reqs : TicketInv(q) /\ TaskInv(q) /\ Owns(q)
    BY DEF SafeInv, TypeInv
<1>a. /\ t \in Tabs /\ req \in [Reqs -> ReqType]
      /\ \A q \in Reqs : req[q] \in ReqType
      BY Typed DEF Owns
<1>c. DoneReq.pc = "done" /\ DoneReq.live = FALSE
      BY DEF DoneReq, NoReq
<1>v. /\ Disposed.clearing = FALSE /\ NoLoad.live = FALSE /\ NoClear.pc = "none"
      BY DEF Disposed, NoLoad, NoClear
<1>e. /\ task' = n
      /\ \/ /\ req[r].own /\ ~view[t] /\ Owned(t, r) = {}
            /\ hist'[t] = Disposed /\ load'[t] = NoLoad /\ clr'[t] = NoClear
         \/ /\ ~(req[r].own /\ ~view[t] /\ Owned(t, r) = {})
            /\ hist'[t] = h /\ load'[t] = l /\ clr'[t] = clr[t]
      /\ \A u \in Tabs : u # t => hist'[u] = hist[u] /\ load'[u] = load[u] /\ clr'[u] = clr[u]
  <2>1. Ended(r, h, l, n)
        BY <1>a, EndIsEnded
  <2> QED  BY <2>1 DEF Ended
<1>f. ASSUME NEW q \in Reqs \ {r}
      PROVE  /\ req'[q].pc = req[q].pc /\ req'[q].tab = req[q].tab
             /\ req'[q].own = req[q].own /\ req'[q].with = req[q].with
             /\ req'[q].live => req[q].live
             /\ req'[q].live /\ req[q].tab = t => l.live = load[t].live
  <2>1. CASE req'[q] = req[q] /\ (l.live = load[t].live \/ req[q].tab # t)
        BY <2>1
  <2>2. CASE req'[q] = [req[q] EXCEPT !.live = FALSE]
    <3>1. req[q] \in ReqType
          BY <1>a
    <3>2. /\ req'[q].pc = req[q].pc /\ req'[q].tab = req[q].tab
          /\ req'[q].own = req[q].own /\ req'[q].with = req[q].with /\ req'[q].live = FALSE
          BY <2>2, <3>1 DEF ReqType
    <3> QED  BY <3>2
  <2> QED  BY <1>f, <2>1, <2>2
<1>1. ASSUME NEW u \in Tabs  PROVE HistInv(u)'
  <2>1. ASSUME NEW q \in Owned(u, None), q # r  PROVE q \in Owned(u, None)'
        BY <1>f, <2>1 DEF Owned, Pending
  <2>2. CASE u # t
    <3>1. r \notin Owned(u, None)
          BY <2>2 DEF Owned
    <3>2. Owned(u, None) \subseteq Owned(u, None)'
          BY <2>1, <3>1
    <3> QED  BY <1>e, <2>2, <3>2 DEF HistInv
  <2>3. CASE u = t /\ req[r].own /\ ~view[t] /\ Owned(t, r) = {}
        BY <1>e, <1>v, <2>3 DEF HistInv
  <2>4. CASE u = t /\ ~(req[r].own /\ ~view[t] /\ Owned(t, r) = {})
    <3>1. hist'[t] = h /\ load'[t] = l /\ clr'[t] = clr[t]
          BY <1>e, <2>4
    <3>2. Owned(t, r) \subseteq Owned(t, None)
          BY DrawingAssumption DEF Owned, Reqs
    <3>3. ASSUME hist[t].clearing  PROVE view'[u] \/ Owned(u, None)' # {}
      <4>1. CASE view[t]
            BY <2>4, <4>1
      <4>2. CASE ~view[t] /\ req[r].own
        <5>1. PICK q \in Owned(t, r) : TRUE
              BY <2>4, <4>2
        <5>2. q \in Owned(t, None) /\ q # r
              BY <3>2, <5>1 DEF Owned
        <5> QED  BY <2>1, <2>4, <5>2
      <4>3. CASE ~view[t] /\ ~req[r].own
        <5>1. PICK q \in Owned(t, None) : TRUE
              BY <1>a, <3>3, <4>3 DEF HistInv
        <5>2. q # r
              BY <4>3, <5>1 DEF Owned
        <5> QED  BY <2>1, <2>4, <5>1, <5>2
      <4> QED  BY <4>1, <4>2, <4>3
    <3> QED  BY <1>a, <2>4, <3>1, <3>3 DEF HistInv
  <2> QED  BY <2>2, <2>3, <2>4
<1>2. TicketInv(r)' /\ TaskInv(r)'
      BY <1>c DEF TicketInv, TaskInv, Pending
<1>3. ASSUME NEW q \in Reqs \ {r}  PROVE TicketInv(q)'
  <2>1. req'[q].live => /\ req[q].live /\ req[q].tab \in Tabs
                        /\ q \in Owned(req[q].tab, None)
        BY <1>3, <1>f, LiveOwned
  <2>2. req'[q].live /\ req[q].tab = t
          => hist'[t] = h /\ load'[t] = l /\ l.live = load[t].live
    <3>1. req'[q].live /\ req[q].tab = t => q \in Owned(t, r)
          BY <1>3, <2>1 DEF Owned
    <3> QED  BY <1>3, <1>e, <1>f, <3>1
  <2>3. req'[q].live => /\ ~hist'[req[q].tab].clearing
                        /\ hist'[req[q].tab].epoch = hist[req[q].tab].epoch
                        /\ load'[req[q].tab].live = load[req[q].tab].live
        BY <1>e, <2>1, <2>2 DEF TicketInv
  <2> QED  BY <1>3, <1>f, <2>1, <2>3 DEF TicketInv
<1>4. ASSUME NEW q \in Reqs \ {r}  PROVE TaskInv(q)'
  <2>1. Pending(q)' /\ req'[q].own => Pending(q) /\ req[q].own /\ req[q].tab \in Tabs
        BY <1>4, <1>f DEF Pending, Owns
  <2>2. Pending(q) /\ req[q].own /\ req[q].tab = t => task[t].id = q /\ ~req[r].own
    <3>1. ASSUME Pending(q), req[q].own, req[q].tab = t
          PROVE  task[t] = [id |-> q, status |-> "generating"]
          BY <1>4, <3>1 DEF TaskInv
    <3>2. ASSUME req[r].own  PROVE task[t] = [id |-> r, status |-> "generating"]
          BY <3>2 DEF TaskInv
    <3> QED  BY <1>4, <3>1, <3>2
  <2>3. Pending(q)' /\ req'[q].own => task'[req[q].tab] = task[req[q].tab]
        BY <1>4, <1>e, <2>1, <2>2
  <2> QED  BY <1>4, <1>f, <2>1, <2>3 DEF TaskInv
<1> QED  BY <1>1, <1>2, <1>3, <1>4

\* A request that goes on: sessions and tasks are kept.
LEMMA AdvanceSafe ==
    ASSUME SafeInv, NEW r \in Reqs, Pending(r),
           req'[r].pc \notin {"none", "done"},
           req'[r].tab = req[r].tab, req'[r].live = req[r].live, req'[r].own = req[r].own,
           \A q \in Reqs \ {r} : req'[q] = req[q] /\ born'[q] = born[q],
           \A u \in Tabs : /\ hist'[u].clearing = hist[u].clearing
                           /\ hist'[u].loading = hist[u].loading
                           /\ hist'[u].epoch = hist[u].epoch,
           UNCHANGED <<load, clr, view, task>>,
           TicketInv(r)'
    PROVE  /\ \A u \in Tabs : HistInv(u)'
           /\ \A q \in Reqs : TicketInv(q)' /\ TaskInv(q)'
<1> /\ \A u \in Tabs : HistInv(u)
    /\ \A q \in Reqs : TicketInv(q) /\ TaskInv(q) /\ Owns(q)
    BY DEF SafeInv, TypeInv
<1>1. ASSUME NEW u \in Tabs  PROVE HistInv(u)'
  <2>1. Owned(u, None) \subseteq Owned(u, None)'
        BY DEF Owned, Pending
  <2> QED  BY <2>1 DEF HistInv
<1>2. ASSUME NEW q \in Reqs \ {r}  PROVE TicketInv(q)'
      BY <1>2 DEF TicketInv, Owns
<1>3. ASSUME NEW q \in Reqs  PROVE TaskInv(q)'
      BY <1>3 DEF TaskInv, Pending
<1> QED  BY <1>1, <1>2, <1>3

\* The step of a request.
LEMMA RequestSafe ==
    ASSUME SafeInv, NEW r \in Reqs, RequestStep(r)
    PROVE  /\ \A u \in Tabs : HistInv(u)'
           /\ \A q \in Reqs : TicketInv(q)' /\ TaskInv(q)'
<1> DEFINE t == req[r].tab
           Goal == /\ \A u \in Tabs : HistInv(u)'
                   /\ \A q \in Reqs : TicketInv(q)' /\ TaskInv(q)'
<1> /\ TypeInv /\ TypeOK
    /\ \A u \in Tabs : HistInv(u)
    /\ \A q \in Reqs : TicketInv(q) /\ TaskInv(q) /\ Owns(q)
    BY DEF SafeInv, TypeInv
<1>a. /\ hist \in [Tabs -> HistType] /\ load \in [Tabs -> LoadType]
      /\ clr \in [Tabs -> ClrType] /\ view \in [Tabs -> BOOLEAN]
      /\ task \in [Tabs -> TaskType] /\ req \in [Reqs -> ReqType] /\ req[r] \in ReqType
      /\ born \in [Reqs -> Nat \cup {None}] /\ large \subseteq Reqs
      BY Typed
<1>b. ASSUME Pending(r)
      PROVE  t \in Tabs /\ hist[t] \in HistType /\ load[t] \in LoadType /\ task[t] \in TaskType
      BY <1>a, <1>b DEF Owns
\* A request that ends and clears its task, or leaves it as failed.
<1>d. ASSUME Pending(r), NEW h \in HistType, h.clearing = hist[t].clearing,
             h.epoch = hist[t].epoch, h.loading = hist[t].loading,
             \/ End(r, h, load[t], TaskCleared(t, r))
             \/ End(r, h, load[t], TaskFailed(t)) /\ req[r].live,
             req' = Done(r), UNCHANGED <<view, born>>
      PROVE  Goal
  <2>1. PICK n \in [Tabs -> TaskType] :
              /\ End(r, h, load[t], n)
              /\ n = TaskCleared(t, r) \/ (n = TaskFailed(t) /\ req[r].live)
        BY <1>b, <1>d, TasksTyped
  <2>2. \A u \in Tabs : u = t \/ n[u] = task[u]
        BY <1>a, <1>b, <1>d, <2>1 DEF TaskCleared, TaskFailed
  <2>3. n[t] = task[t] \/ task[t].id = r \/ req[r].own
        BY <1>a, <1>b, <1>d, <2>1 DEF TaskCleared, Owns
  <2>4. req'[r] = DoneReq /\ \A q \in Reqs \ {r} : req'[q] = req[q]
        BY <1>a, <1>d DEF Done
  <2>5. load[t].live => h.loading /\ load[t].pc # "none"
        BY <1>b, <1>d DEF HistInv
  <2> QED  BY <1>b, <1>d, <2>1, <2>2, <2>3, <2>4, <2>5, EndSafe
<1>e. ASSUME Pending(r)
      PROVE  /\ Failed(hist[t]) \in HistType
             /\ Failed(hist[t]).clearing = hist[t].clearing
             /\ Failed(hist[t]).epoch = hist[t].epoch
             /\ Failed(hist[t]).loading = hist[t].loading
      BY <1>b, <1>e DEF Failed, HistType
<1>1. ASSUME NEW u \in Tabs, Generate(u, r)  PROVE Goal
  <2>1. /\ req'[r] = [pc |-> "posted", tab |-> u, live |-> TRUE, own |-> TRUE,
                      here |-> TRUE, ok |-> FALSE, with |-> None]
        /\ \A q \in Reqs \ {r} : req'[q] = req[q] /\ born'[q] = born[q]
        /\ born'[r] = IF hist[u].loading THEN None ELSE hist[u].epoch
        /\ task'[u] = [id |-> r, status |-> "generating"]
        /\ \A w \in Tabs \ {u} : task'[w] = task[w]
        /\ UNCHANGED <<hist, load, clr, view>>
        /\ view[u] /\ ~hist[u].clearing /\ task[u].status # "generating" /\ req[r].pc = "none"
        BY <1>1, <1>a DEF Generate
  <2>2. ASSUME NEW w \in Tabs  PROVE HistInv(w)'
    <3>1. Owned(w, None) \subseteq Owned(w, None)'
          BY <2>1 DEF Owned, Pending
    <3> QED  BY <2>1, <3>1 DEF HistInv
  <2>3. TicketInv(r)'
        BY <1>1, <2>1 DEF TicketInv, HistInv
  <2>4. TaskInv(r)'
        BY <2>1 DEF TaskInv
  <2>5. ASSUME NEW q \in Reqs \ {r}  PROVE TicketInv(q)'
        BY <2>1, <2>5 DEF TicketInv
  <2>6. ASSUME NEW q \in Reqs \ {r}  PROVE TaskInv(q)'
    <3>1. Pending(q) /\ req[q].own => req[q].tab \in Tabs \ {u}
      <4>1. ASSUME Pending(q), req[q].own, req[q].tab = u
            PROVE  task[u] = [id |-> q, status |-> "generating"]
            BY <2>6, <4>1 DEF TaskInv
      <4> QED  BY <2>1, <2>6, <4>1 DEF Owns
    <3> QED  BY <2>1, <2>6, <3>1 DEF TaskInv, Pending
  <2> QED  BY <2>2, <2>3, <2>4, <2>5, <2>6
<1>2. CASE Answer(r)
  <2>0. Pending(r) /\ req[r].pc = "posted"
        BY <1>2 DEF Answer, Pending
  <2>1. CASE /\ \/ End(r, hist[t], load[t], TaskCleared(t, r))
                \/ End(r, hist[t], load[t], TaskFailed(t)) /\ req[r].live
             /\ req' = Done(r)
        BY <1>2, <1>b, <1>d, <2>0, <2>1 DEF Answer
  <2>2. CASE /\ hist' = [hist EXCEPT ![t] = Remembered(hist[t], r)]
             /\ req' = [req EXCEPT ![r] = [@ EXCEPT !.pc = "bytes"]]
             /\ UNCHANGED <<load, clr, strays, task, ops>>
    <3>1. /\ Remembered(hist[t], r).clearing = hist[t].clearing
          /\ Remembered(hist[t], r).loading = hist[t].loading
          /\ Remembered(hist[t], r).epoch = hist[t].epoch
          BY <1>b, <2>0 DEF Remembered, HistType
    <3>2. \A u \in Tabs : /\ hist'[u].clearing = hist[u].clearing
                          /\ hist'[u].loading = hist[u].loading
                          /\ hist'[u].epoch = hist[u].epoch
          BY <1>a, <2>2, <3>1
    <3>3. /\ req'[r].pc = "bytes" /\ req'[r].tab = t /\ req'[r].live = req[r].live
          /\ req'[r].own = req[r].own /\ \A q \in Reqs \ {r} : req'[q] = req[q]
          BY <1>a, <2>2 DEF ReqType
    <3>4. view' = view /\ born' = born
          BY <1>2 DEF Answer
    <3>5. TicketInv(r)'
          BY <2>0, <2>2, <3>2, <3>3, <3>4 DEF TicketInv, Owns
    <3> QED  BY <2>0, <2>2, <3>2, <3>3, <3>4, <3>5, AdvanceSafe
  <2> QED  BY <1>2, <2>1, <2>2 DEF Answer
<1>3. CASE Bytes(r) \/ SaveTx(r)
  <2>1. Pending(r) /\ UNCHANGED <<hist, load, clr, view, task, born>>
        BY <1>3 DEF Bytes, SaveTx, Pending
  <2>2. \E p \in {"ready", "saved", "rejected", "failed"} :
           \/ req' = [req EXCEPT ![r] = [@ EXCEPT !.pc = p, !.ok = TRUE]]
           \/ req' = [req EXCEPT ![r] = [@ EXCEPT !.pc = p]]
        BY <1>3 DEF Bytes, SaveTx
  <2>3. /\ req'[r].pc \in {"ready", "saved", "rejected", "failed"} /\ req'[r].tab = t
        /\ req'[r].live = req[r].live
        /\ req'[r].own = req[r].own /\ \A q \in Reqs \ {r} : req'[q] = req[q]
    <3>1. PICK p \in {"ready", "saved", "rejected", "failed"} :
             \/ req' = [req EXCEPT ![r] = [@ EXCEPT !.pc = p, !.ok = TRUE]]
             \/ req' = [req EXCEPT ![r] = [@ EXCEPT !.pc = p]]
          BY <2>2
    <3>2. /\ \/ req'[r] = [req[r] EXCEPT !.pc = p, !.ok = TRUE]
             \/ req'[r] = [req[r] EXCEPT !.pc = p]
          /\ \A q \in Reqs \ {r} : req'[q] = req[q]
          BY <1>a, <3>1
    <3> QED  BY <1>a, <3>2 DEF ReqType
  <2>4. TicketInv(r)'
        BY <2>1, <2>3 DEF TicketInv
  <2> QED  BY <2>1, <2>3, <2>4, AdvanceSafe
<1>4. CASE SaveCall(r)
  <2>0. Pending(r) /\ req[r].pc = "ready"
        BY <1>4 DEF SaveCall, Pending
  <2>1. CASE /\ \/ End(r, hist[t], load[t], TaskCleared(t, r))
                \/ End(r, Failed(hist[t]), load[t], TaskCleared(t, r))
             /\ req' = Done(r) /\ UNCHANGED born
        BY <1>4, <1>b, <1>d, <1>e, <2>0, <2>1 DEF SaveCall
  <2>2. CASE /\ req[r].live /\ hist[t].epoch # None
             /\ req' = [req EXCEPT ![r] = [@ EXCEPT !.pc = "saving", !.with = hist[t].epoch]]
             /\ born' = [born EXCEPT ![r] = IF @ = None THEN hist[t].epoch ELSE @]
             /\ UNCHANGED <<hist, load, clr, strays, task>>
    <3>1. /\ req'[r].pc = "saving" /\ req'[r].tab = t /\ req'[r].live = req[r].live
          /\ req'[r].own = req[r].own /\ req'[r].with = hist[t].epoch
          /\ \A q \in Reqs \ {r} : req'[q] = req[q] /\ born'[q] = born[q]
          /\ born'[r] = IF born[r] = None THEN hist[t].epoch ELSE born[r]
          BY <1>a, <2>2 DEF ReqType
    <3>2. load[t].live = FALSE
      <4>1. load[t].pc = "none"
            BY <1>4, <2>2 DEF SaveCall
      <4> QED  BY <4>1, <1>b, <2>0 DEF HistInv, LoadType
    <3>3. view' = view
          BY <1>4 DEF SaveCall
    <3>4. TicketInv(r)'
          BY <2>2, <3>1, <3>2 DEF TicketInv
    <3> QED  BY <2>0, <2>2, <3>1, <3>3, <3>4, AdvanceSafe
  <2> QED  BY <1>4, <2>1, <2>2 DEF SaveCall
<1>5. CASE SaveDone(r)
  <2>0. Pending(r)
        BY <1>5 DEF SaveDone, Pending
  <2> DEFINE marked == [hist[t] EXCEPT !.saved = @ \cup ({r} \cap hist[t].shown),
                                       !.saving = FALSE]
             emptied == [hist[t] EXCEPT !.shown = {}, !.saved = {}, !.saving = FALSE,
                                        !.loading = TRUE]
  <2>1. /\ marked \in HistType /\ marked.clearing = hist[t].clearing
        /\ marked.epoch = hist[t].epoch /\ marked.loading = hist[t].loading
        BY <1>b, <2>0 DEF HistType
  <2>2. CASE /\ \/ End(r, hist[t], load[t], TaskCleared(t, r))
                \/ End(r, marked, load[t], TaskCleared(t, r))
                \/ End(r, Failed(hist[t]), load[t], TaskCleared(t, r))
             /\ req' = Done(r)
    <3> HIDE DEF marked
    <3> QED  BY <1>5, <1>b, <1>d, <1>e, <2>0, <2>1, <2>2 DEF SaveDone
  <2>3. CASE /\ End(r, emptied, StartedLoad, TaskCleared(t, r))
             /\ req' = [Invalidated(t) EXCEPT ![r] = DoneReq]
    <3>1. /\ emptied \in HistType /\ emptied.clearing = hist[t].clearing
          /\ emptied.epoch = hist[t].epoch /\ emptied.loading = TRUE
          BY <1>b, <2>0 DEF HistType
    <3>2. /\ req'[r] = DoneReq
          /\ \A q \in Reqs \ {r} :
                \/ req'[q] = req[q] /\ req[q].tab # t
                \/ req'[q] = [req[q] EXCEPT !.live = FALSE] /\ req[q].tab = t
          BY <2>3 DEF Invalidated
    <3>3. /\ TaskCleared(t, r) \in [Tabs -> TaskType]
          /\ \A u \in Tabs : u = t \/ TaskCleared(t, r)[u] = task[u]
          /\ TaskCleared(t, r)[t] = task[t] \/ task[t].id = r
          BY <1>a, <1>b, <2>0, TasksTyped DEF TaskCleared
    <3>4. view' = view /\ born' = born
          BY <1>5 DEF SaveDone
    <3> HIDE DEF emptied
    <3>5. PICK n \in [Tabs -> TaskType], l \in LoadType, h \in HistType :
             /\ n = TaskCleared(t, r) /\ l = StartedLoad /\ h = emptied
             /\ l.pc = "sent"
          BY <3>1, <3>3, ValuesTyped DEF StartedLoad, NoLoad
    <3>6. End(r, h, l, n)
          BY <2>3, <3>5
    <3> QED  BY <2>0, <3>1, <3>2, <3>3, <3>4, <3>5, <3>6, EndSafe
  <2> QED  BY <1>5, <2>2, <2>3 DEF SaveDone
<1> QED  BY <1>1, <1>2, <1>3, <1>4, <1>5 DEF RequestStep

\* What a step of a request does to the store and to the epochs of requests.
LEMMA RequestStore ==
    ASSUME SafeInv, NEW r \in Reqs, RequestStep(r)
    PROVE  /\ epoch' = epoch
           /\ \A q \in Reqs : born[q] # None => born'[q] = born[q]
           /\ \/ stored' = stored
              \/ born' = born /\ born[r] = epoch /\ stored' \subseteq stored \cup {r}
<1> TypeOK /\ TicketInv(r)
    BY DEF SafeInv, TypeInv
<1>a. born \in [Reqs -> Nat \cup {None}]
      BY Typed
<1>1. CASE \E t \in Tabs : Generate(t, r)
  <2>1. PICK t \in Tabs : Generate(t, r)
        BY <1>1
  <2>2. req[r].pc = "none" /\ epoch' = epoch /\ stored' = stored
        BY <2>1 DEF Generate
  <2>3. \A q \in Reqs \ {r} : born'[q] = born[q]
        BY <1>a, <2>1 DEF Generate
  <2> QED  BY <2>2, <2>3 DEF TicketInv
<1>2. CASE Answer(r) \/ Bytes(r) \/ SaveDone(r)
      BY <1>2 DEF Answer, Bytes, SaveDone
<1>3. CASE SaveCall(r)
      BY <1>3, <1>a DEF SaveCall
<1>4. CASE SaveTx(r)
  <2>1. epoch' = epoch /\ born' = born /\ req[r].pc = "saving"
        BY <1>4 DEF SaveTx
  <2>2. stored' = stored \/ (req[r].with = epoch /\ stored' \subseteq stored \cup {r})
        BY <1>4, RetainedSubset DEF SaveTx
  <2> QED  BY <2>1, <2>2 DEF TicketInv
<1> QED  BY <1>1, <1>2, <1>3, <1>4 DEF RequestStep

\* Every step keeps the invariant.
LEMMA SafeInvKept == SafeInv /\ [Next]_vars => SafeInv'
<1> SUFFICES ASSUME SafeInv, [Next]_vars  PROVE SafeInv'
    OBVIOUS
<1>a. TypeInv /\ TypeOK /\ ClearIsABarrier /\ TypeInv'
      BY TypeInvKept DEF SafeInv, TypeInv
<1>1. ASSUME NEW t \in Tabs, TabStep(t)  PROVE SafeInv'
      BY <1>1, <1>a, TabSafe, TabBarrier DEF SafeInv
<1>2. ASSUME NEW r \in Reqs, RequestStep(r)  PROVE SafeInv'
  <2>1. epoch # None /\ stored \subseteq Reqs
        BY <1>a, DrawingAssumption DEF TypeOK
  <2>2. ClearIsABarrier'
        BY <1>2, <1>a, <2>1, RequestStore DEF ClearIsABarrier
  <2> QED  BY <1>2, <1>a, <2>2, RequestSafe DEF SafeInv
<1>3. CASE StrayTx \/ UNCHANGED vars
  <2>1. UNCHANGED <<hist, load, clr, view, task, req, born>>
        BY <1>3 DEF StrayTx, vars
  <2>2. stored' = {} \/ (stored' = stored /\ epoch' = epoch)
        BY <1>3 DEF StrayTx, Wipe, vars
  <2>3. \A t \in Tabs : HistInv(t)'
        BY <2>1 DEF SafeInv, HistInv, Owned, Pending
  <2>4. \A r \in Reqs : TicketInv(r)' /\ TaskInv(r)'
        BY <2>1 DEF SafeInv, TicketInv, TaskInv, Pending
  <2> QED  BY <1>a, <2>1, <2>2, <2>3, <2>4 DEF SafeInv, ClearIsABarrier
<1> QED  BY <1>1, <1>2, <1>3 DEF Next

\* The invariant holds in every reachable state.
LEMMA SafeInvHolds == Spec => []SafeInv
BY SafeInvInit, SafeInvKept, PTL DEF Spec

\* clear() is a barrier: whatever tabs, requests, account switches, failures and
\* late transactions there are, no drawing of an epoch that a clear has ended is
\* in the store.
THEOREM ClearBarrier == Spec => []ClearIsABarrier
<1>1. SafeInv => ClearIsABarrier
      BY DEF SafeInv
<1> QED  BY <1>1, SafeInvHolds, PTL

\* For any tabs, mounts and accounts: the requestPendingRef of a mount and the active
\* task of the session together keep a session of a tab to one paid generation at a
\* time.  A request that an account switch has cut loose is no longer its session's.
THEOREM OnePaidGeneration == Spec => []OneGeneration
<1>1. SafeInv => OneGeneration
  <2> SUFFICES ASSUME SafeInv, NEW q \in Reqs, NEW r \in Reqs, q # r, Pending(q), Pending(r),
                      req[q].tab = req[r].tab, req[q].own, req[r].own
               PROVE  FALSE
      BY DEF OneGeneration
  <2>1. TaskInv(q) /\ TaskInv(r)
        BY DEF SafeInv
  <2>2. [id |-> q, status |-> "generating"] = [id |-> r, status |-> "generating"]
        BY <2>1 DEF TaskInv
  <2> QED  BY <2>2
<1> QED  BY <1>1, SafeInvHolds, PTL

-----------------------------------------------------------------------------
(* The archive that the store implements.                                  *)

\* Every step is one of the archive, or leaves it alone.
LEMMA ArchiveStep ==
    SafeInv /\ SafeInv' /\ [Next]_vars => [Archive!Next]_<<stored, Dead>>
<1> SUFFICES ASSUME SafeInv, SafeInv', [Next]_vars
             PROVE  [Archive!Next]_<<stored, Dead>>
    OBVIOUS
<1>a. /\ epoch \in Nat /\ stored \subseteq Reqs /\ born \in [Reqs -> Nat \cup {None}] /\ large \subseteq Reqs
      /\ None \notin Nat /\ \A r \in stored : born[r] = epoch
      BY Typed, DrawingAssumption DEF SafeInv, TypeInv, ClearIsABarrier
<1>b. /\ epoch' \in Nat /\ stored' \subseteq Reqs /\ born' \in [Reqs -> Nat \cup {None}] /\ large' \subseteq Reqs
      /\ \A r \in stored' : born'[r] = epoch'
      BY TypedNext DEF SafeInv, TypeInv, ClearIsABarrier
<1>c. stored \cap Dead = {} /\ stored' \cap Dead' = {}
      BY <1>a, <1>b DEF Dead
\* A clear: what was kept dies.
<1>1. ASSUME Wipe, born' = born  PROVE Archive!Clear
  <2>1. Dead \cup stored \subseteq Dead'
        BY <1>1, <1>a DEF Wipe, Dead
  <2> QED  BY <1>1, <2>1 DEF Wipe, Archive!Clear
\* Nothing happens in the store.
<1>2. ASSUME UNCHANGED <<epoch, stored, born>>  PROVE UNCHANGED <<stored, Dead>>
      BY <1>2 DEF Dead
<1>3. ASSUME NEW t \in Tabs, TabStep(t)
      PROVE  (Wipe /\ born' = born) \/ UNCHANGED <<epoch, stored, born>>
      BY <1>3 DEF TabStep, Mount, Unmount, SwitchAccount, Reload, LoadTx, LoadDone, Clear,
                  ClearTx, ClearDone
<1>4. ASSUME NEW r \in Reqs, RequestStep(r)  PROVE [Archive!Next]_<<stored, Dead>>
  <2>1. /\ epoch' = epoch
        /\ \A q \in Reqs : born[q] # None => born'[q] = born[q]
        /\ \/ stored' = stored
           \/ born' = born /\ born[r] = epoch /\ stored' \subseteq stored \cup {r}
        BY <1>4, RequestStore
  <2>2. Dead \subseteq Dead'
        BY <2>1 DEF Dead
  <2>3. CASE stored' = stored
        BY <1>c, <2>2, <2>3 DEF Archive!Next, Archive!Abandon
  <2>4. CASE born' = born /\ born[r] = epoch /\ stored' \subseteq stored \cup {r}
    <3>1. Dead' = Dead
          BY <2>1, <2>4 DEF Dead
    <3>2. {r} \in SUBSET (Reqs \ Dead)
          BY <1>a, <2>4 DEF Dead
    <3> QED  BY <2>4, <3>1, <3>2 DEF Archive!Next, Archive!Keep
  <2> QED  BY <2>1, <2>3, <2>4
<1>5. CASE StrayTx \/ UNCHANGED vars
  <2>1. (Wipe /\ born' = born) \/ UNCHANGED <<epoch, stored, born>>
        BY <1>5 DEF StrayTx, vars
  <2> QED  BY <1>1, <1>2, <2>1 DEF Archive!Next
<1>6. ASSUME NEW t \in Tabs, TabStep(t)  PROVE [Archive!Next]_<<stored, Dead>>
      BY <1>1, <1>2, <1>3, <1>6 DEF Archive!Next
<1> QED  BY <1>4, <1>5, <1>6 DEF Next

\* The IndexedDB store with its tombstones implements the archive in which a
\* clear is final: every step of every tab is a step of the archive or none.
THEOREM ImplementsArchive == Spec => ArchiveSpec
<1>1. Init => Archive!Init
      BY DEF Init, Archive!Init, Dead
<1>2. SafeInv /\ SafeInv' /\ [Next]_vars => [Archive!Next]_<<stored, Dead>>
      BY ArchiveStep
<1> QED  BY <1>1, <1>2, SafeInvHolds, PTL DEF Spec, ArchiveSpec, Archive!Spec

-----------------------------------------------------------------------------
(* What retainDrawings keeps.                                              *)

\* A set of naturals has a smallest element.
LEMMA Smallest ==
    ASSUME NEW S \in SUBSET Nat, S # {}
    PROVE  \E m \in S : \A k \in S : m <= k
<1>1. PICK m \in S : \A k \in S : ~(<<k, m>> \in OpToRel(<, Nat))
      BY NatLessThanWellFounded, WFMin
<1>2. ASSUME NEW k \in S, k < m  PROVE <<k, m>> \in OpToRel(<, Nat)
      BY <1>2 DEF OpToRel
<1>3. ASSUME NEW k \in S  PROVE m <= k
  <2>1. k \in Nat /\ m \in Nat /\ ~(k < m)
        BY <1>1, <1>2
  <2> QED  BY <2>1
<1> QED  BY <1>3

\* Requests are numbers.
LEMMA ReqsNat == \A k \in Reqs : k \in Nat
BY DrawingAssumption DEF Reqs

\* A set of requests has a newest one.
LEMMA Largest ==
    ASSUME NEW S \in SUBSET Reqs, S # {}
    PROVE  \E m \in S : \A k \in S : k <= m
<1> DEFINE D == {MaxReqs - k : k \in S}
<1>1. D \in SUBSET Nat /\ D # {}
  <2>1. ASSUME NEW k \in S  PROVE MaxReqs - k \in Nat
        BY DrawingAssumption DEF Reqs
  <2> QED  BY <2>1
<1>2. PICK d \in D : \A e \in D : d <= e
      BY <1>1, Smallest
<1>3. PICK m \in S : d = MaxReqs - m
      BY <1>2
<1>4. ASSUME NEW k \in S  PROVE k <= m
  <2>1. d <= MaxReqs - k
        BY <1>2
  <2> QED  BY <1>3, <2>1, DrawingAssumption DEF Reqs
<1> QED  BY <1>4

\* The drawings of S that are newer than i.
Newer(S, i) == {j \in S : j > i}

\* Sets of drawings are finite, and parts of them no larger.
LEMMA NewerCount ==
    ASSUME NEW S \in SUBSET Reqs, NEW i
    PROVE  /\ IsFiniteSet(S) /\ Cardinality(S) \in Nat
           /\ IsFiniteSet(Newer(S, i)) /\ Cardinality(Newer(S, i)) \in Nat
           /\ \A T \in SUBSET S : IsFiniteSet(T) /\ Cardinality(T) \in Nat
                                  /\ Cardinality(T) <= Cardinality(S)
<1>1. IsFiniteSet(Reqs)
      BY FS_Interval, DrawingAssumption DEF Reqs
<1>2. IsFiniteSet(S) /\ IsFiniteSet(Newer(S, i))
      BY <1>1, FS_Subset DEF Newer
<1> QED  BY <1>2, FS_Subset, FS_CardinalityType

\* A drawing that is retained is retained with every newer one.
LEMMA RetainedUp ==
    ASSUME NEW S \in SUBSET Reqs, NEW i \in Retained(S), NEW j \in S, j > i
    PROVE  j \in Retained(S)
<1>0. i \in Nat /\ j \in Nat /\ \A k \in S : k \in Nat
      BY ReqsNat, RetainedSubset
<1>1. Newer(S, j) \subseteq Newer(S, i)
  <2>1. ASSUME NEW k \in Newer(S, j)  PROVE k \in S /\ k > i
    <3>1. k \in S /\ k \in Nat /\ k > j
          BY <1>0, <2>1 DEF Newer
    <3> QED  BY <1>0, <3>1
  <2> QED  BY <2>1 DEF Newer
<1>2. Cardinality(Newer(S, j)) <= Cardinality(Newer(S, i))
      BY <1>1, NewerCount, FS_Subset
<1>3. Cardinality(Newer(S, i)) < Limit
      BY DEF Retained, Newer
<1>4. Cardinality(Newer(S, j)) < Limit
      BY <1>2, <1>3, NewerCount, DrawingAssumption
<1> QED  BY <1>4 DEF Retained, Newer

\* No more than the limit are retained.
LEMMA RetainedBound ==
    ASSUME NEW S \in SUBSET Reqs
    PROVE  Cardinality(Retained(S)) \in Nat /\ Cardinality(Retained(S)) <= Limit
<1> DEFINE T == Retained(S)
<1>1. T \in SUBSET S
      BY RetainedSubset
<1>2. CASE T = {}
      BY <1>2, FS_EmptySet, DrawingAssumption
<1>3. CASE T # {}
  <2>1. T \in SUBSET Nat
        BY <1>1, ReqsNat
  <2>2. PICK i \in T : \A k \in T : i <= k
        BY <1>3, <2>1, Smallest
  <2>3. T = Newer(S, i) \cup {i}
    <3>1. ASSUME NEW k \in T  PROVE k \in Newer(S, i) \cup {i}
      <4>1. k \in S /\ k \in Nat /\ i \in Nat /\ i <= k
            BY <1>1, <2>1, <2>2, <3>1
      <4> QED  BY <4>1 DEF Newer
    <3>2. ASSUME NEW k \in Newer(S, i)  PROVE k \in T
          BY <2>2, <3>2, RetainedUp DEF Newer
    <3> QED  BY <2>2, <3>1, <3>2
  <2>4. i \notin Newer(S, i) /\ Cardinality(Newer(S, i)) < Limit
        BY <2>2 DEF Newer, Retained, Reqs
  <2>5. Cardinality(T) = Cardinality(Newer(S, i)) + 1
        BY <2>3, <2>4, NewerCount, FS_AddElement
  <2> QED  BY <2>4, <2>5, NewerCount, DrawingAssumption
<1> QED  BY <1>2, <1>3

\* When something is dropped the store is full, and of newer drawings.
LEMMA RetainedDrops ==
    ASSUME NEW S \in SUBSET Reqs, NEW x \in S \ Retained(S)
    PROVE  /\ Cardinality(Retained(S)) = Limit
           /\ \A q \in Retained(S) : q > x
<1> DEFINE T == Retained(S)
<1>1. T \in SUBSET S /\ S \ T \in SUBSET Reqs /\ S \ T # {}
      BY RetainedSubset
<1>2. PICK y \in S \ T : \A k \in S \ T : k <= y
      BY <1>1, Largest
<1>0. \A k \in S : k \in Nat
      BY ReqsNat
<1>3. Newer(S, y) \subseteq T
  <2>1. ASSUME NEW k \in Newer(S, y)  PROVE k \in T
    <3>1. k \in S /\ k > y /\ k \in Nat /\ y \in Nat
          BY <1>0, <1>2, <2>1 DEF Newer
    <3>2. k \notin S \ T
          BY <1>2, <3>1
    <3> QED  BY <3>1, <3>2
  <2> QED  BY <2>1
<1>4. Cardinality(Newer(S, y)) >= Limit
  <2>1. ~(Cardinality(Newer(S, y)) < Limit)
        BY <1>2 DEF Retained, Newer
  <2> QED  BY <2>1, NewerCount, DrawingAssumption
<1>5. IsFiniteSet(T) /\ Cardinality(T) \in Nat
      BY <1>1, NewerCount
<1>6. Cardinality(Newer(S, y)) <= Cardinality(T)
      BY <1>3, <1>5, FS_Subset
<1>7. Cardinality(T) = Limit
      BY <1>4, <1>5, <1>6, RetainedBound, NewerCount, DrawingAssumption
<1>8. ASSUME NEW q \in T  PROVE q > x
  <2>1. ~(x > q) /\ x # q /\ x \in Nat /\ q \in Nat
        BY <1>0, <1>1, RetainedUp
  <2> QED  BY <2>1
<1> QED  BY <1>7, <1>8

\* A drawing that is in the store, or was pushed out of it.
WasStored(S, r) == r \in S \/ (Cardinality(S) = Limit /\ \A q \in S : q > r)

\* It stays so when another drawing is put.
LEMMA PutKeeps ==
    ASSUME NEW S \in SUBSET Reqs, NEW n \in Reqs, NEW S2 \in {S, S \cup {n}},
           NEW r \in Reqs, WasStored(S, r) \/ r \in S2
    PROVE  WasStored(Retained(S2), r)
<1>0. S2 \in SUBSET Reqs /\ S \in SUBSET S2
      OBVIOUS
<1>1. CASE r \in S2
  <2>1. CASE r \in Retained(S2)
        BY <2>1 DEF WasStored
  <2>2. CASE r \notin Retained(S2)
        BY <1>0, <1>1, <2>2, RetainedDrops DEF WasStored
  <2> QED  BY <2>1, <2>2
<1>2. CASE r \notin S2
  <2>1. Cardinality(S) = Limit /\ \A q \in S : q > r
        BY <1>2 DEF WasStored
  <2>2. Cardinality(S2) >= Limit /\ Cardinality(S2) \in Nat
        BY <1>0, <2>1, NewerCount, DrawingAssumption
  <2>3. Cardinality(Retained(S2)) = Limit
    <3>1. CASE Retained(S2) = S2
          BY <1>0, <2>2, <3>1, RetainedBound, DrawingAssumption
    <3>2. CASE Retained(S2) # S2
      <4>1. PICK x : x \in S2 \ Retained(S2)
            BY <3>2, RetainedSubset
      <4> QED  BY <1>0, <4>1, RetainedDrops
    <3> QED  BY <3>1, <3>2
  <2>4. ASSUME NEW q \in Retained(S2), ~(q > r)  PROVE FALSE
    <3>1. q \in S2 /\ q \notin S /\ q \in Reqs
          BY <1>0, <2>1, <2>4, RetainedSubset
    <3>2. S \subseteq Newer(S2, q)
          BY <1>0, <2>1, <2>4, <3>1 DEF Newer, Reqs
    <3>3. Cardinality(S) <= Cardinality(Newer(S2, q))
          BY <1>0, <3>2, NewerCount, FS_Subset
    <3>4. Cardinality(Newer(S2, q)) < Limit
          BY <2>4 DEF Retained, Newer
    <3> QED  BY <1>0, <2>1, <3>3, <3>4, NewerCount, DrawingAssumption
  <2> QED  BY <2>3, <2>4 DEF WasStored
<1> QED  BY <1>1, <1>2

-----------------------------------------------------------------------------
(* What a step does to a history.                                          *)

\* Request x shows an image in tab t that is on its way to the store.
WorksIn(t, x) == /\ req[x].live /\ req[x].tab = t
                 /\ req[x].pc \notin {"none", "posted", "done"}

StillWorking(t) == \A x \in Reqs : WorksIn(t, x)' <=> WorksIn(t, x)
NoneWorking(t)  == \A x \in Reqs : ~WorksIn(t, x)'

\* Images and marks stay; a clear may end, with its epoch.
Quiet(t) ==
    /\ hist'[t].shown = hist[t].shown /\ hist'[t].saved = hist[t].saved
    /\ hist'[t].saving = hist[t].saving /\ (hist[t].warning => hist'[t].warning)
    /\ hist'[t].clearing => hist[t].clearing
    /\ \/ hist'[t].epoch = hist[t].epoch
       \/ hist[t].clearing /\ hist'[t].epoch = clr[t].epoch
    /\ load'[t] = load[t] \/ LoadTx(t)
    /\ StillWorking(t)

\* The history is disposed of, started, cleared or found cleared by another tab.
Emptied(t) ==
    /\ hist'[t].shown = {} /\ hist'[t].saved = {}
    /\ hist'[t].epoch \in {hist[t].epoch, None}
    /\ load'[t].epoch \in {load[t].epoch, None} /\ load'[t].images \subseteq load[t].images
    /\ load'[t].live => ~hist'[t].clearing
    /\ NoneWorking(t)

LoadsIn(t) ==
    /\ hist'[t] = Loaded(hist[t], load[t]) /\ load'[t] = NoLoad
    /\ StillWorking(t)

\* The image of r is shown, and nobody else's is on its way.
Shows(t, r) ==
    /\ req[r].live /\ req[r].tab = t
    /\ hist'[t] = Remembered(hist[t], r) /\ load'[t] = load[t]
    /\ \A x \in Reqs : ~WorksIn(t, x) /\ (WorksIn(t, x)' <=> x = r)

\* The image of r is marked as saved, and was the only one on its way.
Marks(t, r) ==
    /\ req[r].live /\ req[r].tab = t /\ req[r].pc = "saved" /\ req[r].ok
    /\ hist'[t] = [hist[t] EXCEPT !.saved = @ \cup ({r} \cap hist[t].shown), !.saving = FALSE]
    /\ load'[t] = load[t]
    /\ \A x \in Reqs : WorksIn(t, x) => x = r
    /\ NoneWorking(t)

GivesUp(t) == /\ hist'[t] = Failed(hist[t]) /\ load'[t] = load[t]
              /\ NoneWorking(t)

Move(t) == \/ Quiet(t) \/ Emptied(t) \/ LoadsIn(t) \/ GivesUp(t)
           \/ \E r \in Reqs : Shows(t, r) \/ Marks(t, r)

\* One current ticket in a tab.
LEMMA LiveAlone ==
    ASSUME SafeInv, NEW q \in Reqs, NEW r \in Reqs, req[q].live, req[r].live,
           req[q].tab = req[r].tab
    PROVE  q = r
<1>1. TaskInv(q) /\ TaskInv(r) /\ Owns(q) /\ Owns(r)
      BY DEF SafeInv, TypeInv
<1>2. [id |-> q, status |-> "generating"] = [id |-> r, status |-> "generating"]
      BY <1>1 DEF TaskInv, Owns
<1> QED  BY <1>2

\* The step of a tab, seen from another one.
LEMMA OtherTabMoves ==
    ASSUME SafeInv, NEW u \in Tabs, TabStep(u), NEW t \in Tabs \ {u}
    PROVE  Quiet(t)
<1>1. TypeOK
      BY DEF SafeInv, TypeInv
<1>2. hist'[t] = hist[t] /\ load'[t] = load[t]
      BY <1>1, TabOthers
<1>3. ASSUME NEW x \in Reqs  PROVE WorksIn(t, x)' <=> WorksIn(t, x)
  <2>1. DoneReq.live = FALSE
        BY DEF DoneReq, NoReq
  <2>2. \/ req'[x] = DoneReq /\ req[x].tab = u
        \/ /\ req'[x].pc = req[x].pc /\ req'[x].tab = req[x].tab
           /\ req'[x].live = req[x].live \/ req[x].tab = u
        BY <1>1, TabRequests
  <2> QED  BY <2>1, <2>2 DEF WorksIn
<1> QED  BY <1>2, <1>3 DEF Quiet, StillWorking

\* A history that is disposed of while no ticket of the tab is current.
LEMMA DisposeMoves ==
    ASSUME SafeInv, NEW t \in Tabs, DisposeHistory(t), NoneWorking(t)
    PROVE  Emptied(t)
<1>1. hist'[t] = Disposed /\ load'[t] = NoLoad
      BY DisposeTyped DEF SafeInv, TypeInv
<1> QED  BY <1>1 DEF Emptied, Disposed, NoLoad

\* The step of a tab, for its own history.
LEMMA TabMoves ==
    ASSUME SafeInv, NEW t \in Tabs, TabStep(t)
    PROVE  Move(t)
<1>a. /\ TypeOK /\ TypeInv /\ HistInv(t) /\ \A q \in Reqs : Owns(q)
      BY DEF SafeInv, TypeInv
<1>b. /\ hist \in [Tabs -> HistType] /\ hist[t] \in HistType
      /\ load \in [Tabs -> LoadType] /\ load[t] \in LoadType
      /\ req \in [Reqs -> ReqType] /\ \A q \in Reqs : req[q] \in ReqType
      BY <1>a, Typed
<1>c. ASSUME Owned(t, None) = {}, NEW q \in Reqs, req[q].tab = t  PROVE ~req[q].live
      BY <1>a, <1>c, LiveOwned
<1>1. CASE Mount(t)
  <2>1. CASE Owned(t, None) = {}
    <3>1. hist'[t] = [Disposed EXCEPT !.active = TRUE] /\ load'[t] = StartedLoad /\ req' = req
          BY <1>1, <1>b, <2>1 DEF Mount
    <3>2. NoneWorking(t)
          BY <1>c, <2>1, <3>1 DEF NoneWorking, WorksIn
    <3>3. /\ hist'[t].shown = {} /\ hist'[t].saved = {} /\ hist'[t].epoch = None
          /\ hist'[t].clearing = FALSE
          /\ load'[t].epoch = None /\ load'[t].images = {}
          BY <3>1 DEF Disposed, StartedLoad, NoLoad
    <3> QED  BY <3>2, <3>3 DEF Move, Emptied
  <2>2. CASE Owned(t, None) # {}
        BY <1>1, <2>2 DEF Mount, Move, Quiet, StillWorking, WorksIn
  <2> QED  BY <2>1, <2>2
<1>2. CASE Unmount(t)
  <2>1. ASSUME NEW q \in Reqs
        PROVE  req'[q].live = req[q].live /\ req'[q].tab = req[q].tab /\ req'[q].pc = req[q].pc
    <3>1. req'[q] = req[q] \/ req'[q] = [req[q] EXCEPT !.here = FALSE]
          BY <1>2, <1>b DEF Unmount
    <3> QED  BY <1>b, <3>1 DEF ReqType
  <2>2. CASE Owned(t, None) = {}
    <3>1. NoneWorking(t)
          BY <1>c, <2>1, <2>2 DEF NoneWorking, WorksIn
    <3> QED  BY <1>2, <2>2, <3>1, DisposeMoves DEF Unmount, Move
  <2>3. CASE Owned(t, None) # {}
    <3>1. hist' = hist /\ load' = load
          BY <1>2, <2>3 DEF Unmount, KeepHistory
    <3> QED  BY <2>1, <3>1 DEF Move, Quiet, StillWorking, WorksIn
  <2> QED  BY <2>2, <2>3
<1>3. CASE SwitchAccount(t) \/ Reload(t)
  <2>1. ASSUME NEW q \in Reqs  PROVE ~WorksIn(t, q)'
    <3>1. CASE SwitchAccount(t)
      <4>1. req'[q] = IF req[q].tab = t
                      THEN [req[q] EXCEPT !.live = FALSE, !.own = FALSE, !.here = FALSE]
                      ELSE req[q]
            BY <3>1, <1>b DEF SwitchAccount
      <4> QED  BY <1>b, <4>1 DEF WorksIn, ReqType
    <3>2. CASE Reload(t)
      <4>1. req'[q] = IF req[q].tab = t THEN DoneReq ELSE req[q]
            BY <3>2, <1>b DEF Reload
      <4> QED  BY <4>1 DEF WorksIn, DoneReq, NoReq
    <3> QED  BY <1>3, <3>1, <3>2
  <2> QED  BY <1>3, <2>1, DisposeMoves DEF SwitchAccount, Reload, Move, NoneWorking
<1>4. CASE LoadTx(t)
  <2>1. hist' = hist /\ req' = req
        BY <1>4 DEF LoadTx
  <2> QED  BY <1>4, <2>1 DEF Move, Quiet, StillWorking, WorksIn
<1>5. CASE LoadDone(t)
  <2>1. hist'[t] = Loaded(hist[t], load[t]) /\ load'[t] = NoLoad /\ req' = req
        BY <1>5, <1>b DEF LoadDone
  <2> QED  BY <2>1 DEF Move, LoadsIn, StillWorking, WorksIn
<1>6. CASE Clear(t)
  <2>1. /\ hist'[t] = [hist[t] EXCEPT !.shown = {}, !.saved = {}, !.loading = FALSE,
                          !.saving = FALSE, !.clearing = TRUE, !.warning = FALSE]
        /\ load'[t] = [load[t] EXCEPT !.live = FALSE]
        BY <1>6, <1>b DEF Clear
  <2>2. /\ hist'[t].shown = {} /\ hist'[t].saved = {} /\ hist'[t].epoch = hist[t].epoch
        /\ load'[t].live = FALSE /\ load'[t].epoch = load[t].epoch
        /\ load'[t].images = load[t].images
        BY <1>b, <2>1 DEF HistType, LoadType
  <2>3. ASSUME NEW q \in Reqs  PROVE ~WorksIn(t, q)'
    <3>1. req'[q] = IF req[q].tab = t THEN [req[q] EXCEPT !.live = FALSE] ELSE req[q]
          BY <1>6, <1>b DEF Clear, Invalidated
    <3> QED  BY <1>b, <3>1 DEF WorksIn, ReqType
  <2> QED  BY <2>2, <2>3 DEF Move, Emptied, NoneWorking
<1>7. CASE ClearTx(t)
  <2>1. hist' = hist /\ req' = req /\ load' = load
        BY <1>7 DEF ClearTx
  <2> QED  BY <2>1 DEF Move, Quiet, StillWorking, WorksIn
<1>8. CASE ClearDone(t)
  <2>1. /\ load' = load /\ req' = req /\ hist[t].clearing
        /\ \/ hist'[t] = [hist[t] EXCEPT !.clearing = FALSE, !.epoch = clr[t].epoch]
           \/ hist'[t] = [hist[t] EXCEPT !.clearing = FALSE, !.warning = TRUE]
        BY <1>8, <1>a, <1>b DEF ClearDone, HistInv
  <2>2. /\ hist'[t].shown = hist[t].shown /\ hist'[t].saved = hist[t].saved
        /\ hist'[t].saving = hist[t].saving
        /\ hist'[t].warning = hist[t].warning \/ hist'[t].warning = TRUE
        /\ hist'[t].epoch = hist[t].epoch \/ hist'[t].epoch = clr[t].epoch
    <3>1. CASE hist'[t] = [hist[t] EXCEPT !.clearing = FALSE, !.epoch = clr[t].epoch]
          BY <1>b, <3>1 DEF HistType
    <3>2. CASE hist'[t] = [hist[t] EXCEPT !.clearing = FALSE, !.warning = TRUE]
          BY <1>b, <3>2 DEF HistType
    <3> QED  BY <2>1, <3>1, <3>2
  <2> QED  BY <2>1, <2>2 DEF Move, Quiet, StillWorking, WorksIn
<1> QED  BY <1>1, <1>2, <1>3, <1>4, <1>5, <1>6, <1>7, <1>8 DEF TabStep

\* A request that goes on leaves every history as it is.
LEMMA AdvanceMoves ==
    ASSUME SafeInv, NEW r \in Reqs, UNCHANGED <<hist, load>>,
           \A q \in Reqs \ {r} : req'[q] = req[q],
           \A t \in Tabs : WorksIn(t, r)' <=> WorksIn(t, r),
           NEW t \in Tabs
    PROVE  Quiet(t)
<1>1. StillWorking(t)
      BY DEF StillWorking, WorksIn
<1> QED  BY <1>1 DEF Quiet

\* A request that ends leaves its tab with h and l, or disposes of the history.
LEMMA EndMoves ==
    ASSUME SafeInv, NEW r \in Reqs, Pending(r), NEW h \in HistType, NEW l \in LoadType,
           NEW n \in [Tabs -> TaskType], End(r, h, l, n), req'[r] = DoneReq,
           \A q \in Reqs \ {r} :
              \/ req'[q] = req[q]
              \/ req'[q] = [req[q] EXCEPT !.live = FALSE] /\ req[q].tab = req[r].tab,
           NEW t \in Tabs
    PROVE  \/ t # req[r].tab /\ Quiet(t)
           \/ t = req[r].tab /\ Emptied(t)
           \/ t = req[r].tab /\ hist'[t] = h /\ load'[t] = l
<1>a. /\ TypeOK /\ TypeInv /\ Owns(r) /\ \A q \in Reqs : req[q] \in ReqType
      BY Typed DEF SafeInv, TypeInv
<1>b. req[r].tab \in Tabs /\ Ended(r, h, l, n)
      BY <1>a, EndIsEnded DEF Owns
<1>c. ~WorksIn(t, r)'
      BY DEF WorksIn, DoneReq, NoReq
<1>d. ASSUME NEW q \in Reqs \ {r}  PROVE WorksIn(t, q)' => req[q].live /\ req[q].tab = t
  <2>1. CASE req'[q] = req[q]
        BY <2>1 DEF WorksIn
  <2>2. CASE req'[q] = [req[q] EXCEPT !.live = FALSE]
        BY <1>a, <1>d, <2>2 DEF WorksIn, ReqType
  <2> QED  BY <1>d, <2>1, <2>2
<1>1. CASE t # req[r].tab
  <2>1. hist'[t] = hist[t] /\ load'[t] = load[t]
        BY <1>1, <1>b DEF Ended
  <2>2. ASSUME NEW q \in Reqs  PROVE WorksIn(t, q)' <=> WorksIn(t, q)
    <3>1. CASE q = r
          BY <1>1, <1>c, <3>1 DEF WorksIn
    <3>2. CASE q # r /\ req'[q] = req[q]
          BY <3>2 DEF WorksIn
    <3>3. CASE q # r /\ req'[q] = [req[q] EXCEPT !.live = FALSE] /\ req[q].tab = req[r].tab
          BY <1>1, <1>a, <3>3 DEF WorksIn, ReqType
    <3> QED  BY <3>1, <3>2, <3>3
  <2> QED  BY <1>1, <2>1, <2>2 DEF Quiet, StillWorking
<1>2. CASE t = req[r].tab /\ Owned(t, r) = {} /\ hist'[t] = Disposed /\ load'[t] = NoLoad
  <2>1. ASSUME NEW q \in Reqs \ {r}, WorksIn(t, q)'  PROVE FALSE
    <3>1. req[q].live /\ req[q].tab = t
          BY <1>d, <2>1
    <3>2. q \in Owned(t, None)
          BY <1>a, <3>1, LiveOwned
    <3> QED  BY <1>2, <2>1, <3>2 DEF Owned
  <2>2. NoneWorking(t)
        BY <1>c, <2>1 DEF NoneWorking
  <2> QED  BY <1>2, <2>2 DEF Emptied, Disposed, NoLoad
<1> QED  BY <1>1, <1>2, <1>b DEF Ended

\* The step of a request, for every history.
LEMMA RequestMoves ==
    ASSUME SafeInv, NEW r \in Reqs, RequestStep(r), NEW t \in Tabs
    PROVE  Move(t)
<1> DEFINE u == req[r].tab
<1>a. /\ TypeOK /\ TypeInv /\ Owns(r) /\ TicketInv(r)
      BY DEF SafeInv, TypeInv
<1>b. /\ hist \in [Tabs -> HistType] /\ hist[t] \in HistType
      /\ load \in [Tabs -> LoadType] /\ load[t] \in LoadType
      /\ task \in [Tabs -> TaskType]
      /\ req \in [Reqs -> ReqType] /\ \A q \in Reqs : req[q] \in ReqType
      BY <1>a, Typed
<1>c. ASSUME Pending(r)
      PROVE  u \in Tabs /\ hist[u] \in HistType /\ load[u] \in LoadType
      BY <1>a, <1>b, <1>c DEF Owns
<1>d. ASSUME NEW q \in Reqs, WorksIn(t, q), req[r].live, u = t  PROVE q = r
      BY <1>d, LiveAlone DEF WorksIn
\* The request ends and leaves history h.
<1>e. ASSUME Pending(r), req' = Done(r), NEW h \in HistType,
             \/ End(r, h, load[u], TaskCleared(u, r))
             \/ End(r, h, load[u], TaskFailed(u)),
             ~Move(t)
      PROVE  /\ t = u /\ hist'[t] = h /\ load'[t] = load[t] /\ ~WorksIn(t, r)'
             /\ \A q \in Reqs \ {r} : req'[q] = req[q]
  <2>0. TaskCleared(u, r) \in [Tabs -> TaskType] /\ TaskFailed(u) \in [Tabs -> TaskType]
        BY <1>a, <1>c, <1>e, TasksTyped
  <2>1. PICK n \in [Tabs -> TaskType] : End(r, h, load[u], n)
        BY <1>e, <2>0
  <2>2. req'[r] = DoneReq /\ \A q \in Reqs \ {r} : req'[q] = req[q]
        BY <1>b, <1>e DEF Done
  <2>3. /\ ~Quiet(t) /\ ~Emptied(t)
        BY <1>e DEF Move
  <2>4. t = u /\ hist'[t] = h /\ load'[t] = load[u]
        BY <1>c, <1>e, <2>1, <2>2, <2>3, EndMoves
  <2> QED  BY <2>2, <2>4 DEF WorksIn, DoneReq, NoReq
\* It had shown nothing, or its ticket is void.
<1>f. ASSUME Pending(r), req' = Done(r), ~req[r].live \/ req[r].pc = "posted",
             \/ End(r, hist[u], load[u], TaskCleared(u, r))
             \/ End(r, hist[u], load[u], TaskFailed(u))
      PROVE  Move(t)
  <2> SUFFICES ASSUME ~Move(t)  PROVE FALSE
      OBVIOUS
  <2>1. /\ t = u /\ hist'[t] = hist[u] /\ load'[t] = load[t] /\ ~WorksIn(t, r)'
        /\ \A q \in Reqs \ {r} : req'[q] = req[q]
        BY <1>c, <1>e, <1>f
  <2>2. ~WorksIn(t, r)
        BY <1>f DEF WorksIn
  <2>3. StillWorking(t)
        BY <2>1, <2>2 DEF StillWorking, WorksIn
  <2> QED  BY <2>1, <2>3 DEF Quiet, Move
\* Nobody has an image under way once the request with the ticket is done.
<1>g. ASSUME req[r].live, t = u, ~WorksIn(t, r)', \A q \in Reqs \ {r} : req'[q] = req[q]
      PROVE  NoneWorking(t)
  <2>1. ASSUME NEW q \in Reqs \ {r}  PROVE ~WorksIn(t, q)'
        BY <1>d, <1>g, <2>1 DEF WorksIn
  <2> QED  BY <1>g, <2>1 DEF NoneWorking
\* Saving failed.
<1>h. ASSUME Pending(r), req' = Done(r), req[r].live,
             End(r, Failed(hist[u]), load[u], TaskCleared(u, r))
      PROVE  Move(t)
  <2> SUFFICES ASSUME ~Move(t)  PROVE FALSE
      OBVIOUS
  <2>1. Failed(hist[u]) \in HistType
        BY <1>c, <1>h DEF Failed, HistType
  <2>2. /\ t = u /\ hist'[t] = Failed(hist[u]) /\ load'[t] = load[t] /\ ~WorksIn(t, r)'
        /\ \A q \in Reqs \ {r} : req'[q] = req[q]
        BY <1>e, <1>h, <2>1
  <2>3. NoneWorking(t)
        BY <1>g, <1>h, <2>2
  <2> QED  BY <2>2, <2>3 DEF GivesUp, Move
<1>1. ASSUME NEW w \in Tabs, Generate(w, r)  PROVE Move(t)
  <2>1. /\ hist' = hist /\ load' = load /\ req[r].pc = "none" /\ req'[r].pc = "posted"
        /\ \A q \in Reqs \ {r} : req'[q] = req[q]
        BY <1>1, <1>b DEF Generate
  <2>2. \A v \in Tabs : WorksIn(v, r)' <=> WorksIn(v, r)
        BY <2>1 DEF WorksIn
  <2> QED  BY <2>1, <2>2, AdvanceMoves DEF Move
<1>2. CASE Answer(r)
  <2>0. Pending(r) /\ req[r].pc = "posted"
        BY <1>2 DEF Answer, Pending
  <2>1. CASE /\ req' = Done(r)
             /\ \/ End(r, hist[u], load[u], TaskCleared(u, r))
                \/ End(r, hist[u], load[u], TaskFailed(u))
        BY <1>f, <2>0, <2>1
  <2>2. CASE /\ req[r].live
             /\ hist' = [hist EXCEPT ![u] = Remembered(hist[u], r)]
             /\ req' = [req EXCEPT ![r] = [@ EXCEPT !.pc = "bytes"]]
             /\ load' = load
    <3>1. /\ req'[r].pc = "bytes" /\ req'[r].tab = u /\ req'[r].live = req[r].live
          /\ \A q \in Reqs \ {r} : req'[q] = req[q]
          BY <1>b, <2>2 DEF ReqType
    <3>2. CASE t = u
      <4>1. ASSUME NEW q \in Reqs  PROVE ~WorksIn(t, q) /\ (WorksIn(t, q)' <=> q = r)
        <5>1. ~WorksIn(t, q)
              BY <1>d, <2>0, <2>2, <3>2 DEF WorksIn
        <5>2. CASE q = r
              BY <2>2, <3>1, <3>2, <5>1, <5>2 DEF WorksIn
        <5>3. CASE q # r
              BY <3>1, <5>1, <5>3 DEF WorksIn
        <5> QED  BY <5>1, <5>2, <5>3
      <4>2. hist'[t] = Remembered(hist[t], r)
            BY <1>b, <2>2, <3>2
      <4> QED  BY <2>2, <3>2, <4>1, <4>2 DEF Shows, Move
    <3>3. CASE t # u
      <4>1. hist'[t] = hist[t]
            BY <1>b, <2>2, <3>3
      <4>2. ASSUME NEW q \in Reqs  PROVE WorksIn(t, q)' <=> WorksIn(t, q)
            BY <3>1, <3>3 DEF WorksIn
      <4> QED  BY <2>2, <4>1, <4>2 DEF Quiet, StillWorking, Move
    <3> QED  BY <3>2, <3>3
  <2> QED  BY <1>2, <2>1, <2>2 DEF Answer
<1>3. CASE Bytes(r) \/ SaveTx(r)
  <2>1. UNCHANGED <<hist, load>>
        BY <1>3 DEF Bytes, SaveTx
  <2>2. /\ req[r].pc \in {"bytes", "saving"}
        /\ \E p \in {"ready", "saved", "rejected", "failed"} :
              \/ req' = [req EXCEPT ![r] = [@ EXCEPT !.pc = p, !.ok = TRUE]]
              \/ req' = [req EXCEPT ![r] = [@ EXCEPT !.pc = p]]
        BY <1>3 DEF Bytes, SaveTx
  <2>3. /\ req'[r].pc \in {"ready", "saved", "rejected", "failed"} /\ req'[r].tab = u
        /\ req'[r].live = req[r].live /\ \A q \in Reqs \ {r} : req'[q] = req[q]
    <3>1. PICK p \in {"ready", "saved", "rejected", "failed"} :
             \/ req' = [req EXCEPT ![r] = [@ EXCEPT !.pc = p, !.ok = TRUE]]
             \/ req' = [req EXCEPT ![r] = [@ EXCEPT !.pc = p]]
          BY <2>2
    <3>2. /\ \/ req'[r] = [req[r] EXCEPT !.pc = p, !.ok = TRUE]
             \/ req'[r] = [req[r] EXCEPT !.pc = p]
          /\ \A q \in Reqs \ {r} : req'[q] = req[q]
          BY <1>b, <3>1
    <3> QED  BY <1>b, <3>2 DEF ReqType
  <2>4. \A v \in Tabs : WorksIn(v, r)' <=> WorksIn(v, r)
        BY <2>2, <2>3 DEF WorksIn
  <2> QED  BY <2>1, <2>3, <2>4, AdvanceMoves DEF Move
<1>4. CASE SaveCall(r)
  <2>0. Pending(r) /\ req[r].pc = "ready"
        BY <1>4 DEF SaveCall, Pending
  <2>1. CASE ~req[r].live /\ End(r, hist[u], load[u], TaskCleared(u, r)) /\ req' = Done(r)
        BY <1>f, <2>0, <2>1
  <2>2. CASE /\ req[r].live /\ End(r, Failed(hist[u]), load[u], TaskCleared(u, r))
             /\ req' = Done(r)
        BY <1>h, <2>0, <2>2
  <2>3. CASE /\ req' = [req EXCEPT ![r] = [@ EXCEPT !.pc = "saving", !.with = hist[u].epoch]]
             /\ hist' = hist /\ load' = load
    <3>1. /\ req'[r].pc = "saving" /\ req'[r].tab = u /\ req'[r].live = req[r].live
          /\ \A q \in Reqs \ {r} : req'[q] = req[q]
          BY <1>b, <2>3 DEF ReqType
    <3>2. \A v \in Tabs : WorksIn(v, r)' <=> WorksIn(v, r)
          BY <2>0, <3>1 DEF WorksIn
    <3> QED  BY <2>3, <3>1, <3>2, AdvanceMoves DEF Move
  <2> QED  BY <1>4, <2>1, <2>2, <2>3 DEF SaveCall
<1>5. CASE SaveDone(r)
  <2>0. Pending(r)
        BY <1>5 DEF SaveDone, Pending
  <2> DEFINE marked == [hist[u] EXCEPT !.saved = @ \cup ({r} \cap hist[u].shown),
                                       !.saving = FALSE]
             emptied == [hist[u] EXCEPT !.shown = {}, !.saved = {}, !.saving = FALSE,
                                        !.loading = TRUE]
  <2>1. CASE ~req[r].live /\ End(r, hist[u], load[u], TaskCleared(u, r)) /\ req' = Done(r)
        BY <1>f, <2>0, <2>1
  <2>2. CASE /\ req[r].live /\ End(r, Failed(hist[u]), load[u], TaskCleared(u, r))
             /\ req' = Done(r)
        BY <1>h, <2>0, <2>2
  <2>3. CASE /\ req[r].live /\ req[r].pc = "saved" /\ req[r].ok
             /\ End(r, marked, load[u], TaskCleared(u, r)) /\ req' = Done(r)
    <3> SUFFICES ASSUME ~Move(t)  PROVE FALSE
        OBVIOUS
    <3>1. marked \in HistType
          BY <1>c, <2>0 DEF HistType
    <3>2. /\ t = u /\ hist'[t] = marked /\ load'[t] = load[t] /\ ~WorksIn(t, r)'
          /\ \A q \in Reqs \ {r} : req'[q] = req[q]
      <4> HIDE DEF marked
      <4> QED  BY <1>e, <2>0, <2>3, <3>1
    <3>3. NoneWorking(t)
          BY <1>g, <2>3, <3>2
    <3>4. \A q \in Reqs : WorksIn(t, q) => q = r
          BY <1>d, <2>3, <3>2
    <3> QED  BY <2>3, <3>2, <3>3, <3>4 DEF Marks, Move
  <2>4. CASE /\ req[r].live
             /\ End(r, emptied, StartedLoad, TaskCleared(u, r))
             /\ req' = [Invalidated(u) EXCEPT ![r] = DoneReq]
    <3>1. /\ emptied \in HistType /\ emptied.clearing = hist[u].clearing
          /\ emptied.epoch = hist[u].epoch /\ emptied.shown = {} /\ emptied.saved = {}
          BY <1>c, <2>0 DEF HistType
    <3>2. /\ req'[r] = DoneReq
          /\ \A q \in Reqs \ {r} :
                \/ req'[q] = req[q] /\ req[q].tab # u
                \/ req'[q] = [req[q] EXCEPT !.live = FALSE] /\ req[q].tab = u
          BY <2>4 DEF Invalidated
    <3>3. ASSUME t = u, NEW q \in Reqs  PROVE ~WorksIn(t, q)'
      <4>1. CASE q = r
            BY <3>2, <4>1 DEF WorksIn, DoneReq, NoReq
      <4>2. CASE q # r
        <5>1. CASE req'[q] = req[q] /\ req[q].tab # u
              BY <3>3, <5>1 DEF WorksIn
        <5>2. CASE req'[q] = [req[q] EXCEPT !.live = FALSE]
              BY <1>b, <5>2 DEF WorksIn, ReqType
        <5> QED  BY <3>2, <3>3, <4>2, <5>1, <5>2
      <4> QED  BY <4>1, <4>2
    <3>4. /\ StartedLoad.epoch = None /\ StartedLoad.images = {}
          BY DEF StartedLoad, NoLoad
    <3>5. ~hist[u].clearing
          BY <1>a, <2>4 DEF TicketInv
    <3> HIDE DEF emptied
    <3>t. TaskCleared(u, r) \in [Tabs -> TaskType] /\ StartedLoad \in LoadType
          BY <1>a, <1>c, <2>0, TasksTyped, ValuesTyped
    <3>6. PICK n \in [Tabs -> TaskType], l \in LoadType, h \in HistType :
             n = TaskCleared(u, r) /\ l = StartedLoad /\ h = emptied
          BY <3>1, <3>t
    <3>7. End(r, h, l, n)
          BY <2>4, <3>6
    <3>8. \/ Quiet(t) \/ Emptied(t)
          \/ t = u /\ hist'[t] = h /\ load'[t] = l
          BY <2>0, <3>2, <3>7, EndMoves
    <3>9. CASE t = u /\ hist'[t] = h /\ load'[t] = l
          BY <3>1, <3>3, <3>4, <3>5, <3>6, <3>9 DEF Emptied, NoneWorking, Move
    <3> QED  BY <3>8, <3>9 DEF Move
  <2> HIDE DEF marked, emptied
  <2> QED  BY <1>5, <2>1, <2>2, <2>3, <2>4 DEF SaveDone, marked, emptied
<1> QED  BY <1>1, <1>2, <1>3, <1>4, <1>5 DEF RequestStep

\* Every step is a move of every history.
LEMMA Moves == ASSUME SafeInv, [Next]_vars, NEW t \in Tabs  PROVE Move(t)
<1>1. ASSUME NEW u \in Tabs, TabStep(u)  PROVE Move(t)
      BY <1>1, TabMoves, OtherTabMoves DEF Move
<1>2. ASSUME NEW r \in Reqs, RequestStep(r)  PROVE Move(t)
      BY <1>2, RequestMoves
<1>3. CASE StrayTx \/ UNCHANGED vars
  <2>1. UNCHANGED <<hist, load, req>>
        BY <1>3 DEF StrayTx, vars
  <2> QED  BY <2>1 DEF Quiet, StillWorking, WorksIn, Move
<1> QED  BY <1>1, <1>2, <1>3 DEF Next

-----------------------------------------------------------------------------
(* What is not saved is announced.                                         *)

\* The user is warned, or every image that is shown is saved or on its way.
Announced(t) ==
    /\ hist[t].warning \/ \A x \in hist[t].shown : x \in hist[t].saved \/ WorksIn(t, x)
    /\ \A x \in Reqs : WorksIn(t, x) => hist[t].saving
AnnounceInv == \A t \in Tabs : Announced(t)

\* A move of a history keeps it.
LEMMA MoveAnnounced ==
    ASSUME SafeInv, NEW t \in Tabs, Announced(t), Move(t)
    PROVE  Announced(t)'
<1>a. hist[t] \in HistType /\ hist[t].shown \subseteq Reqs
      BY Typed DEF SafeInv, TypeInv, HistType
<1>1. CASE Quiet(t)
  <2>1. /\ hist'[t].shown = hist[t].shown /\ hist'[t].saved = hist[t].saved
        /\ hist'[t].saving = hist[t].saving /\ (hist[t].warning => hist'[t].warning)
        /\ \A x \in Reqs : WorksIn(t, x)' <=> WorksIn(t, x)
        BY <1>1 DEF Quiet, StillWorking
  <2> QED  BY <1>a, <2>1 DEF Announced
<1>2. CASE Emptied(t)
      BY <1>2 DEF Emptied, NoneWorking, Announced
<1>3. CASE LoadsIn(t)
  <2>0. \A x \in Reqs : WorksIn(t, x)' <=> WorksIn(t, x)
        BY <1>3 DEF LoadsIn, StillWorking
  <2>1. CASE ~load[t].live
    <3>1. hist'[t] = hist[t]
          BY <1>3, <2>1 DEF LoadsIn, Loaded
    <3> QED  BY <1>a, <2>0, <3>1 DEF Announced
  <2>2. CASE load[t].live /\ load[t].pc = "failed"
    <3>1. hist'[t] = [hist[t] EXCEPT !.loading = FALSE, !.warning = TRUE]
          BY <1>3, <2>2 DEF LoadsIn, Loaded
    <3>2. hist'[t].warning = TRUE /\ hist'[t].saving = hist[t].saving
          BY <1>a, <3>1 DEF HistType
    <3> QED  BY <2>0, <3>2 DEF Announced
  <2>3. CASE load[t].live /\ load[t].pc # "failed"
    <3> DEFINE all == Retained(load[t].images \cup hist[t].shown)
    <3>1. hist'[t] = [hist[t] EXCEPT !.epoch = load[t].epoch, !.loading = FALSE, !.shown = all,
             !.saved = all \cap (hist[t].saved \cup (load[t].images \ hist[t].shown))]
          BY <1>3, <2>3 DEF LoadsIn, Loaded
    <3>2. /\ hist'[t].shown = all /\ hist'[t].saving = hist[t].saving
          /\ hist'[t].warning = hist[t].warning
          /\ hist'[t].saved = all \cap (hist[t].saved \cup (load[t].images \ hist[t].shown))
          BY <1>a, <3>1 DEF HistType
    <3>3. all \subseteq load[t].images \cup hist[t].shown
          BY RetainedSubset
    <3> HIDE DEF all
    <3>4. ASSUME ~hist[t].warning, NEW x \in all
          PROVE  x \in hist'[t].saved \/ WorksIn(t, x)'
          BY <1>a, <2>0, <3>2, <3>3, <3>4 DEF Announced
    <3> QED  BY <2>0, <3>2, <3>4 DEF Announced
  <2> QED  BY <2>1, <2>2, <2>3
<1>4. CASE GivesUp(t)
  <2>1. hist'[t].warning = TRUE
        BY <1>4, <1>a DEF GivesUp, Failed, HistType
  <2> QED  BY <1>4, <2>1 DEF GivesUp, NoneWorking, Announced
<1>5. ASSUME NEW r \in Reqs, Shows(t, r)  PROVE Announced(t)'
  <2>1. /\ hist'[t].shown = Retained(hist[t].shown \cup {r}) /\ hist'[t].saving = TRUE
        /\ hist'[t].saved = hist[t].saved /\ hist'[t].warning = hist[t].warning
        BY <1>5, <1>a DEF Shows, Remembered, HistType
  <2>2. \A x \in Reqs : ~WorksIn(t, x) /\ (WorksIn(t, x)' <=> x = r)
        BY <1>5 DEF Shows
  <2>3. hist'[t].shown \subseteq hist[t].shown \cup {r}
        BY <2>1, RetainedSubset
  <2>4. ASSUME ~hist[t].warning, NEW x \in hist'[t].shown
        PROVE  x \in hist[t].saved \/ WorksIn(t, x)'
        BY <1>a, <2>2, <2>3, <2>4 DEF Announced
  <2> QED  BY <2>1, <2>4 DEF Announced
<1>6. ASSUME NEW r \in Reqs, Marks(t, r)  PROVE Announced(t)'
  <2>1. /\ hist'[t].shown = hist[t].shown /\ hist'[t].warning = hist[t].warning
        /\ hist'[t].saved = hist[t].saved \cup ({r} \cap hist[t].shown)
        BY <1>6, <1>a DEF Marks, HistType
  <2>2. /\ \A x \in Reqs : WorksIn(t, x) => x = r
        /\ \A x \in Reqs : ~WorksIn(t, x)'
        BY <1>6 DEF Marks, NoneWorking
  <2>3. ASSUME ~hist[t].warning, NEW x \in hist[t].shown  PROVE x \in hist'[t].saved
        BY <1>a, <2>1, <2>2, <2>3 DEF Announced
  <2> QED  BY <2>1, <2>2, <2>3 DEF Announced
<1> QED  BY <1>1, <1>2, <1>3, <1>4, <1>5, <1>6 DEF Move

\* An image that no tab has saved is being saved, or the user has been warned:
\* no navigation, failure, late load or clear of another tab loses one silently.
THEOREM UnsavedAnnounced == Spec => []UnsavedIsAnnounced
<1>1. Init => AnnounceInv
      BY DEF Init, AnnounceInv, Announced, WorksIn, Disposed, NoReq
<1>2. SafeInv /\ AnnounceInv /\ [Next]_vars => AnnounceInv'
      BY Moves, MoveAnnounced DEF AnnounceInv
<1>3. SafeInv /\ AnnounceInv => UnsavedIsAnnounced
  <2> SUFFICES ASSUME SafeInv, AnnounceInv, NEW t \in Tabs,
                      ~hist[t].saving, ~hist[t].warning, NEW x \in hist[t].shown
               PROVE  x \in hist[t].saved
      BY DEF UnsavedIsAnnounced
  <2>1. x \in Reqs
        BY Typed DEF SafeInv, TypeInv, HistType
  <2> QED  BY <2>1 DEF AnnounceInv, Announced
<1> QED  BY <1>1, <1>2, <1>3, SafeInvHolds, PTL DEF Spec

-----------------------------------------------------------------------------
(* What is marked as saved is in the store.                                *)

\* A step leaves the store alone, clears it, or puts a drawing.
LEMMA StoreStep ==
    ASSUME SafeInv, [Next]_vars
    PROVE  \/ UNCHANGED <<epoch, stored>>
           \/ epoch' = epoch + 1
           \/ /\ epoch' = epoch
              /\ \E n \in Reqs : \E S \in {stored, stored \cup {n}} : stored' = Retained(S)
<1>1. ASSUME NEW t \in Tabs, TabStep(t)
      PROVE  UNCHANGED <<epoch, stored>> \/ epoch' = epoch + 1
      BY <1>1 DEF TabStep, Mount, Unmount, SwitchAccount, Reload, LoadTx, LoadDone, Clear,
                  ClearTx, ClearDone, Wipe
<1>2. ASSUME NEW r \in Reqs, RequestStep(r), ~SaveTx(r)  PROVE UNCHANGED <<epoch, stored>>
      BY <1>2 DEF RequestStep, Generate, Answer, Bytes, SaveCall, SaveDone
<1>3. ASSUME NEW r \in Reqs, SaveTx(r)
      PROVE  /\ epoch' = epoch
             /\ \/ stored' = stored
                \/ \E S \in {stored, stored \cup {r}} : stored' = Retained(S)
      BY <1>3 DEF SaveTx
<1>4. CASE StrayTx \/ UNCHANGED vars
      BY <1>4 DEF StrayTx, Wipe, vars
<1> QED  BY <1>1, <1>2, <1>3, <1>4 DEF Next

\* An epoch that some part of the program remembers is no later than the store's.
Past(e, now) == e = None \/ (e \in Nat /\ e <= now)

\* It stays so, and is that of the store only if no clear came in between.
LEMMA PastStays ==
    ASSUME SafeInv, [Next]_vars
    PROVE  /\ epoch \in Nat /\ epoch' \in Nat /\ Past(epoch', epoch')
           /\ \A e : Past(e, epoch) => Past(e, epoch') /\ (e = epoch' => epoch' = epoch)
<1>1. epoch \in Nat /\ (epoch' = epoch \/ epoch' = epoch + 1)
      BY StoreStep DEF SafeInv, TypeInv, TypeOK
<1>2. None \notin Nat
      BY DrawingAssumption
<1> QED  BY <1>1, <1>2 DEF Past

\* A drawing that was stored, or that the store does not take.
Safe(S, L, r) == WasStored(S, r) \/ r \in L

\* An image that is too large stays so.
LEMMA LargeStays == [Next]_vars => large \subseteq large'
<1> SUFFICES ASSUME [Next]_vars  PROVE large \subseteq large'
    OBVIOUS
<1>1. ASSUME NEW t \in Tabs, TabStep(t)  PROVE large' = large
      BY <1>1 DEF TabStep, Mount, Unmount, SwitchAccount, Reload, LoadTx, LoadDone, Clear,
                  ClearTx, ClearDone
<1>2. ASSUME NEW r \in Reqs, RequestStep(r)  PROVE large \subseteq large'
      BY <1>2 DEF RequestStep, Generate, Answer, Bytes, SaveCall, SaveTx, SaveDone
<1> QED  BY <1>1, <1>2 DEF Next, StrayTx, vars

\* What was stored in an epoch stays so until the epoch ends.
LEMMA StoredStays ==
    ASSUME SafeInv, [Next]_vars, epoch' = epoch, NEW r \in Reqs, Safe(stored, large, r)
    PROVE  Safe(stored', large', r)
<1>1. epoch \in Nat /\ stored \in SUBSET Reqs
      BY DEF SafeInv, TypeInv, TypeOK
<1>2. CASE r \in large
      BY <1>2, LargeStays DEF Safe
<1>3. CASE WasStored(stored, r) /\ stored' = stored
      BY <1>3 DEF Safe, WasStored
<1>4. CASE /\ WasStored(stored, r)
           /\ \E n \in Reqs : \E S \in {stored, stored \cup {n}} : stored' = Retained(S)
  <2>1. PICK n \in Reqs : \E S \in {stored, stored \cup {n}} : stored' = Retained(S)
        BY <1>4
  <2>2. PICK S \in {stored, stored \cup {n}} : stored' = Retained(S)
        BY <2>1
  <2>3. WasStored(Retained(S), r)
        BY <1>1, <1>4, PutKeeps
  <2> QED  BY <2>2, <2>3 DEF Safe
<1> QED  BY <1>1, <1>2, <1>3, <1>4, StoreStep DEF Safe

\* The epochs and the marks of a tab.
MarkInv(t) ==
    /\ Past(hist[t].epoch, epoch) /\ Past(load[t].epoch, epoch) /\ Past(clr[t].epoch, epoch)
    /\ hist[t].epoch = epoch => \A r \in hist[t].saved : Safe(stored, large, r)
    /\ load[t].epoch = epoch => \A r \in load[t].images : Safe(stored, large, r)
    /\ load[t].live \/ hist[t].clearing => hist[t].saved = {}
    /\ hist[t].clearing => ~load[t].live

\* The epoch of a save, and the drawing once its transaction has committed.
SaveInv(r) ==
    /\ Past(req[r].with, epoch)
    /\ req[r].pc = "saved" => born[r] # None /\ req[r].with = born[r]
    /\ req[r].pc = "saved" /\ req[r].ok /\ req[r].with = epoch => Safe(stored, large, r)

KeptInv == (\A t \in Tabs : MarkInv(t)) /\ (\A r \in Reqs : SaveInv(r))

\* The epoch of a clear is the one that its transaction has set.
LEMMA ClearEpochs ==
    ASSUME SafeInv, [Next]_vars, NEW t \in Tabs
    PROVE  clr'[t].epoch \in {clr[t].epoch, None, epoch'}
<1>a. TypeOK /\ clr \in [Tabs -> ClrType] /\ clr[t] \in ClrType
      BY Typed DEF SafeInv, TypeInv
<1>b. NoClear.epoch = None
      BY DEF NoClear
<1>1. CASE TabStep(t)
  <2>1. CASE Unmount(t) \/ SwitchAccount(t) \/ Reload(t)
        BY <1>a, <1>b, <2>1, DisposeTyped DEF Unmount, SwitchAccount, Reload, KeepHistory
  <2>2. CASE Clear(t) \/ ClearDone(t) \/ ClearTx(t)
    <3>1. \/ clr'[t] = [NoClear EXCEPT !.pc = "sent"] \/ clr'[t] = NoClear
          \/ clr'[t] = [pc |-> "done", epoch |-> epoch']
          \/ clr'[t] = [pc |-> "failed", epoch |-> None]
          BY <1>a, <2>2 DEF Clear, ClearDone, ClearTx
    <3> QED  BY <3>1 DEF NoClear
  <2>3. CASE Mount(t) \/ LoadTx(t) \/ LoadDone(t)
        BY <2>3 DEF Mount, LoadTx, LoadDone
  <2> QED  BY <1>1, <2>1, <2>2, <2>3 DEF TabStep
<1>2. ASSUME NEW u \in Tabs \ {t}, TabStep(u)  PROVE clr'[t] = clr[t]
      BY <1>2, <1>a, TabOthers
<1>3. ASSUME NEW r \in Reqs, RequestStep(r)  PROVE clr'[t].epoch \in {clr[t].epoch, None}
  <2>1. ASSUME NEW h, NEW l, NEW n, End(r, h, l, n)
        PROVE  clr' = clr \/ clr' = [clr EXCEPT ![req[r].tab] = NoClear]
        BY <2>1 DEF End, DisposeHistory
  <2>2. clr' = clr \/ clr' = [clr EXCEPT ![req[r].tab] = NoClear]
    <3>1. CASE (\E u \in Tabs : Generate(u, r)) \/ Bytes(r) \/ SaveTx(r)
          BY <3>1 DEF Generate, Bytes, SaveTx
    <3>2. CASE Answer(r)
          BY <2>1, <3>2 DEF Answer
    <3>3. CASE SaveCall(r)
          BY <2>1, <3>3 DEF SaveCall
    <3>4. CASE SaveDone(r)
          BY <2>1, <3>4 DEF SaveDone
    <3> QED  BY <1>3, <3>1, <3>2, <3>3, <3>4 DEF RequestStep
  <2> QED  BY <1>a, <1>b, <2>2
<1>4. CASE StrayTx \/ UNCHANGED vars
      BY <1>4 DEF StrayTx, vars
<1> QED  BY <1>1, <1>2, <1>3, <1>4 DEF Next

\* Request r commits its save in the epoch of the store.
Commits(r) == /\ req[r].pc = "saving" /\ req[r].with = epoch /\ epoch' = epoch
              /\ stored' = Retained(IF req[r].ok /\ r \notin large THEN stored \cup {r} ELSE stored)

\* How a request comes by the epoch it saves with, and to be saved.
LEMMA SaveStep ==
    ASSUME SafeInv, [Next]_vars, NEW q \in Reqs
    PROVE  /\ \/ req'[q].with \in {None, req[q].with}
              \/ \E t \in Tabs : req'[q].with = hist[t].epoch
           /\ \/ req'[q].pc # "saved"
              \/ /\ req'[q].with = req[q].with /\ req'[q].ok = req[q].ok /\ born'[q] = born[q]
                 /\ req[q].pc = "saved" \/ Commits(q)
<1>a. /\ TypeOK /\ Owns(q) /\ req \in [Reqs -> ReqType] /\ req[q] \in ReqType
      /\ born \in [Reqs -> Nat \cup {None}] /\ large \subseteq Reqs
      BY Typed DEF SafeInv, TypeInv
<1>b. DoneReq.pc = "done" /\ DoneReq.with = None
      BY DEF DoneReq, NoReq
<1>1. ASSUME NEW t \in Tabs, TabStep(t)
      PROVE  \/ req'[q] = DoneReq
             \/ /\ req'[q].pc = req[q].pc /\ req'[q].with = req[q].with
                /\ req'[q].ok = req[q].ok /\ born' = born
      BY <1>1, <1>a, TabRequests, TabOthers
<1>2. ASSUME NEW r \in Reqs \ {q}, RequestStep(r)
      PROVE  /\ req'[q].pc = req[q].pc /\ req'[q].with = req[q].with
             /\ req'[q].ok = req[q].ok /\ born'[q] = born[q]
  <2>1. req'[q] = req[q] \/ req'[q] = [req[q] EXCEPT !.live = FALSE]
        BY <1>2, <1>a, OtherRequests
  <2>2. born'[q] = born[q]
        BY <1>2, <1>a DEF RequestStep, Generate, Answer, Bytes, SaveCall, SaveTx, SaveDone
  <2> QED  BY <1>a, <2>1, <2>2 DEF ReqType
<1>3. ASSUME NEW t \in Tabs, Generate(t, q)
      PROVE  req'[q].with = None /\ req'[q].pc = "posted"
      BY <1>3, <1>a DEF Generate
<1>4. CASE Answer(q) \/ Bytes(q)
  <2>1. \/ req'[q] = DoneReq \/ req'[q] = [req[q] EXCEPT !.pc = "bytes"]
        \/ req'[q] = [req[q] EXCEPT !.pc = "ready", !.ok = TRUE]
        \/ req'[q] = [req[q] EXCEPT !.pc = "ready"]
        BY <1>4, <1>a DEF Answer, Bytes, Done
  <2> QED  BY <1>a, <1>b, <2>1 DEF ReqType
<1>5. CASE SaveCall(q)
  <2>1. /\ req[q].pc = "ready"
        /\ \/ req'[q] = DoneReq
           \/ req'[q] = [req[q] EXCEPT !.pc = "saving", !.with = hist[req[q].tab].epoch]
        BY <1>5, <1>a DEF SaveCall, Done
  <2>2. req[q].tab \in Tabs
        BY <1>a, <2>1 DEF Owns, Pending
  <2> QED  BY <1>a, <1>b, <2>1, <2>2 DEF ReqType
<1>6. CASE SaveTx(q)
  <2>1. \/ req'[q] = [req[q] EXCEPT !.pc = "rejected"]
        \/ req'[q] = [req[q] EXCEPT !.pc = "failed"]
        \/ req'[q] = [req[q] EXCEPT !.pc = "saved"] /\ Commits(q)
        BY <1>6, <1>a DEF SaveTx, Commits
  <2>2. born' = born
        BY <1>6 DEF SaveTx
  <2> QED  BY <1>a, <2>1, <2>2 DEF ReqType
<1>7. CASE SaveDone(q)
      BY <1>7, <1>a, <1>b, RequestsTyped DEF SaveDone, Done
<1>8. CASE StrayTx \/ UNCHANGED vars
      BY <1>8 DEF StrayTx, vars
<1>9. CASE RequestStep(q)
      BY <1>3, <1>4, <1>5, <1>6, <1>7, <1>9 DEF RequestStep
<1>10. CASE \E t \in Tabs : TabStep(t)
      BY <1>1, <1>b, <1>10
<1>11. CASE \E r \in Reqs \ {q} : RequestStep(r)
      BY <1>2, <1>11
<1> QED  BY <1>8, <1>9, <1>10, <1>11 DEF Next

\* Every step keeps what is known of a save.
LEMMA SaveInvKept ==
    ASSUME SafeInv, KeptInv, [Next]_vars, NEW q \in Reqs
    PROVE  SaveInv(q)'
<1>a. /\ SaveInv(q) /\ TicketInv(q) /\ stored \in SUBSET Reqs
      /\ \A t \in Tabs : Past(hist[t].epoch, epoch)
      BY DEF SafeInv, TypeInv, TypeOK, KeptInv, MarkInv
<1>1. Past(req'[q].with, epoch')
  <2>1. Past(None, epoch)
        BY DEF Past
  <2> QED  BY <1>a, <2>1, SaveStep, PastStays DEF SaveInv
<1>2. ASSUME req'[q].pc = "saved"
      PROVE  /\ born'[q] # None /\ req'[q].with = born'[q]
             /\ req'[q].ok /\ req'[q].with = epoch' => Safe(stored', large', q)
  <2>0. /\ req'[q].with = req[q].with /\ req'[q].ok = req[q].ok /\ born'[q] = born[q]
        /\ req[q].pc = "saved" \/ Commits(q)
        BY <1>2, SaveStep
  <2>1. CASE req[q].pc = "saved"
    <3>1. req[q].with = epoch' => epoch' = epoch
          BY <1>a, PastStays DEF SaveInv
    <3> QED  BY <1>a, <2>0, <2>1, <3>1, StoredStays DEF SaveInv
  <2>2. CASE Commits(q)
    <3>1. born[q] # None /\ req[q].with = born[q]
          BY <1>a, <2>2 DEF Commits, TicketInv
    <3>2. ASSUME req[q].ok, q \notin large  PROVE Safe(stored', large', q)
      <4>1. stored' = Retained(stored \cup {q})
            BY <2>2, <3>2 DEF Commits
      <4>2. PICK S \in {stored, stored \cup {q}} : S = stored \cup {q}
            OBVIOUS
      <4>3. WasStored(stored', q)
            BY <1>a, <4>1, <4>2, PutKeeps
      <4> QED  BY <4>3 DEF Safe
    <3>3. q \in large => Safe(stored', large', q)
          BY LargeStays DEF Safe
    <3> QED  BY <2>0, <3>1, <3>2, <3>3
  <2> QED  BY <2>0, <2>1, <2>2
<1> QED  BY <1>1, <1>2 DEF SaveInv

\* Every move of a history keeps what is known of its marks.
LEMMA MarkInvKept ==
    ASSUME SafeInv, KeptInv, [Next]_vars, NEW t \in Tabs
    PROVE  MarkInv(t)'
<1>a. /\ TypeOK /\ MarkInv(t) /\ HistInv(t) /\ hist[t] \in HistType /\ load[t] \in LoadType
      /\ load \in [Tabs -> LoadType]
      /\ hist[t].saved \subseteq Reqs /\ load[t].images \subseteq Reqs /\ stored \in SUBSET Reqs
      /\ hist[t].clearing \in BOOLEAN /\ load[t].live \in BOOLEAN
      BY Typed DEF SafeInv, TypeInv, TypeOK, KeptInv, HistType, LoadType
<1>b. Past(clr'[t].epoch, epoch')
  <2>1. Past(None, epoch)
        BY DEF Past
  <2> QED  BY <1>a, <2>1, ClearEpochs, PastStays DEF MarkInv
\* The marks of an epoch that goes on.
<1>c. ASSUME NEW e, Past(e, epoch), NEW T \in SUBSET Reqs,
             e = epoch => \A r \in T : Safe(stored, large, r), e = epoch'
      PROVE  \A r \in T : Safe(stored', large', r)
  <2>1. epoch' = epoch
        BY <1>c, PastStays
  <2> QED  BY <1>c, <2>1, StoredStays
<1>d. Past(None, epoch) /\ None # epoch'
      BY PastStays, DrawingAssumption DEF Past
<1>v. NoLoad.epoch = None /\ NoLoad.images = {} /\ NoLoad.live = FALSE
      BY DEF NoLoad
\* It is enough to look at the history and the load.
<1> DEFINE HistKept == /\ Past(hist'[t].epoch, epoch')
                       /\ hist'[t].epoch = epoch' => \A r \in hist'[t].saved : Safe(stored', large', r)
           LoadKept == /\ Past(load'[t].epoch, epoch')
                       /\ load'[t].epoch = epoch' => \A r \in load'[t].images : Safe(stored', large', r)
           FlagKept == /\ load'[t].live \/ hist'[t].clearing => hist'[t].saved = {}
                       /\ hist'[t].clearing => ~load'[t].live
<1>e. HistKept /\ LoadKept /\ FlagKept => MarkInv(t)'
      BY <1>b DEF MarkInv
<1>f. ASSUME hist'[t].epoch = hist[t].epoch, hist'[t].saved \subseteq hist[t].saved
      PROVE  HistKept
      BY <1>a, <1>c, <1>f, PastStays DEF MarkInv
<1>g. ASSUME load'[t].epoch = load[t].epoch, load'[t].images \subseteq load[t].images
      PROVE  LoadKept
      BY <1>a, <1>c, <1>g, PastStays DEF MarkInv
<1>h. ASSUME load'[t].epoch = None  PROVE LoadKept
      BY <1>d, <1>h, PastStays
<1>i. ASSUME hist'[t].epoch = None  PROVE HistKept
      BY <1>d, <1>i, PastStays
<1> HIDE DEF HistKept, LoadKept
<1>1. CASE Quiet(t)
  <2>1. HistKept
    <3>1. CASE hist'[t].epoch = hist[t].epoch
          BY <1>1, <1>f, <3>1 DEF Quiet
    <3>2. CASE hist[t].clearing /\ hist'[t].epoch = clr[t].epoch
      <4>1. hist'[t].saved = {}
            BY <1>1, <1>a, <3>2 DEF Quiet, MarkInv
      <4>2. Past(clr[t].epoch, epoch)
            BY <1>a DEF MarkInv
      <4> QED  BY <3>2, <4>1, <4>2, PastStays DEF HistKept
    <3> QED  BY <1>1, <3>1, <3>2 DEF Quiet
  <2>2. LoadKept /\ load'[t].live = load[t].live
    <3>1. CASE load'[t] = load[t]
          BY <1>g, <3>1
    <3>2. CASE LoadTx(t)
      <4>1. /\ epoch' = epoch /\ stored' = stored
            /\ \/ load'[t] = [load[t] EXCEPT !.pc = "read", !.epoch = epoch,
                                             !.images = Retained(stored)]
               \/ load'[t] = [load[t] EXCEPT !.pc = "failed"]
            BY <1>a, <3>2 DEF LoadTx
      <4>2. load'[t].live = load[t].live
            BY <1>a, <4>1 DEF LoadType
      <4>3. CASE load'[t] = [load[t] EXCEPT !.pc = "failed"]
        <5>1. load'[t].epoch = load[t].epoch /\ load'[t].images = load[t].images
              BY <1>a, <4>3 DEF LoadType
        <5> QED  BY <1>g, <4>2, <5>1
      <4>4. CASE load'[t] = [load[t] EXCEPT !.pc = "read", !.epoch = epoch,
                                            !.images = Retained(stored)]
        <5>1. load'[t].epoch = epoch /\ load'[t].images = Retained(stored)
              BY <1>a, <4>4 DEF LoadType
        <5>2. \A r \in load'[t].images : Safe(stored', large', r)
              BY <4>1, <5>1, RetainedSubset DEF Safe, WasStored
        <5> QED  BY <4>1, <4>2, <5>1, <5>2, PastStays DEF LoadKept
      <4> QED  BY <4>1, <4>3, <4>4
    <3> QED  BY <1>1, <3>1, <3>2 DEF Quiet
  <2>3. FlagKept
        BY <1>1, <1>a, <2>2 DEF Quiet, MarkInv
  <2> QED  BY <1>e, <2>1, <2>2, <2>3
<1>2. CASE Emptied(t)
  <2>1. /\ hist'[t].saved = {} /\ hist'[t].epoch \in {hist[t].epoch, None}
        /\ load'[t].epoch \in {load[t].epoch, None} /\ load'[t].images \subseteq load[t].images
        /\ load'[t].live => ~hist'[t].clearing
        BY <1>2 DEF Emptied
  <2>2. HistKept
        BY <1>f, <1>i, <2>1
  <2>3. LoadKept
        BY <1>g, <1>h, <2>1
  <2> QED  BY <1>e, <2>1, <2>2, <2>3
<1>3. CASE LoadsIn(t)
  <2>1. load'[t] = NoLoad /\ hist'[t] = Loaded(hist[t], load[t]) /\ LoadKept
        BY <1>3, <1>h, <1>v DEF LoadsIn
  <2>2. CASE ~load[t].live
    <3>1. hist'[t] = hist[t]
          BY <2>1, <2>2 DEF Loaded
    <3>2. HistKept
          BY <1>f, <3>1
    <3>3. FlagKept
          BY <1>a, <1>v, <2>1, <3>1 DEF MarkInv
    <3> QED  BY <1>e, <2>1, <3>2, <3>3
  <2>3. CASE load[t].live
    <3>0. hist[t].saved = {} /\ ~hist[t].clearing
          BY <1>a, <2>3 DEF MarkInv
    <3>1. CASE load[t].pc = "failed"
      <4>1. hist'[t] = [hist[t] EXCEPT !.loading = FALSE, !.warning = TRUE]
            BY <2>1, <2>3, <3>1 DEF Loaded
      <4>2. /\ hist'[t].epoch = hist[t].epoch /\ hist'[t].saved = hist[t].saved
            /\ hist'[t].clearing = hist[t].clearing
            BY <1>a, <4>1 DEF HistType
      <4>3. HistKept
            BY <1>f, <4>2
      <4> QED  BY <1>e, <1>v, <2>1, <3>0, <4>2, <4>3
    <3>2. CASE load[t].pc # "failed"
      <4> DEFINE all == Retained(load[t].images \cup hist[t].shown)
      <4>1. hist'[t] = [hist[t] EXCEPT !.epoch = load[t].epoch, !.loading = FALSE, !.shown = all,
               !.saved = all \cap (hist[t].saved \cup (load[t].images \ hist[t].shown))]
            BY <2>1, <2>3, <3>2 DEF Loaded
      <4>2. /\ hist'[t].epoch = load[t].epoch /\ hist'[t].clearing = hist[t].clearing
            /\ hist'[t].saved = all \cap (hist[t].saved \cup (load[t].images \ hist[t].shown))
            BY <1>a, <4>1 DEF HistType
      <4> HIDE DEF all
      <4>3. hist'[t].saved \subseteq load[t].images
            BY <3>0, <4>2
      <4>4. HistKept
        <5>1. /\ Past(load[t].epoch, epoch)
              /\ load[t].epoch = epoch => \A r \in load[t].images : Safe(stored, large, r)
              BY <1>a DEF MarkInv
        <5>2. load[t].epoch = epoch' => \A r \in load[t].images : Safe(stored', large', r)
              BY <1>a, <1>c, <5>1
        <5> QED  BY <4>2, <4>3, <5>1, <5>2, PastStays DEF HistKept
      <4> QED  BY <1>e, <1>v, <2>1, <3>0, <4>2, <4>4
    <3> QED  BY <3>1, <3>2
  <2> QED  BY <2>2, <2>3
<1>4. CASE GivesUp(t)
  <2>1. /\ hist'[t].epoch = hist[t].epoch /\ hist'[t].saved = hist[t].saved
        /\ hist'[t].clearing = hist[t].clearing /\ load'[t] = load[t]
        BY <1>4, <1>a DEF GivesUp, Failed, HistType
  <2>2. HistKept /\ LoadKept
        BY <1>f, <1>g, <2>1
  <2>3. FlagKept
        BY <1>a, <2>1 DEF MarkInv
  <2> QED  BY <1>e, <2>2, <2>3
<1>5. ASSUME NEW r \in Reqs, Shows(t, r)  PROVE MarkInv(t)'
  <2>1. /\ hist'[t].epoch = hist[t].epoch /\ hist'[t].saved = hist[t].saved
        /\ hist'[t].clearing = hist[t].clearing /\ load'[t] = load[t]
        BY <1>5, <1>a DEF Shows, Remembered, HistType
  <2>2. HistKept /\ LoadKept
        BY <1>f, <1>g, <2>1
  <2>3. FlagKept
        BY <1>a, <2>1 DEF MarkInv
  <2> QED  BY <1>e, <2>2, <2>3
<1>6. ASSUME NEW r \in Reqs, Marks(t, r)  PROVE MarkInv(t)'
  <2>0. TicketInv(r) /\ SaveInv(r)
        BY DEF SafeInv, KeptInv
  <2>1. /\ req[r].live /\ req[r].tab = t /\ req[r].pc = "saved" /\ req[r].ok
        /\ hist'[t] = [hist[t] EXCEPT !.saved = @ \cup ({r} \cap hist[t].shown), !.saving = FALSE]
        /\ load'[t] = load[t]
        BY <1>6 DEF Marks
  <2>2. /\ hist'[t].epoch = hist[t].epoch /\ hist'[t].clearing = hist[t].clearing
        /\ hist'[t].saved \subseteq hist[t].saved \cup {r}
        BY <1>a, <2>1 DEF HistType
  <2>3. ~hist[t].clearing /\ ~load[t].live /\ hist[t].epoch = req[r].with
        BY <2>0, <2>1 DEF TicketInv, SaveInv
  <2>4. HistKept
    <3>1. Past(hist[t].epoch, epoch)
          BY <1>a DEF MarkInv
    <3>2. hist[t].epoch = epoch => \A q \in hist[t].saved \cup {r} : Safe(stored, large, q)
          BY <1>a, <2>0, <2>1, <2>3 DEF MarkInv, SaveInv
    <3>3. hist[t].epoch = epoch' => \A q \in hist[t].saved \cup {r} : Safe(stored', large', q)
      <4> DEFINE T == hist[t].saved \cup {r}
      <4>1. T \in SUBSET Reqs
            BY <1>a, <1>6
      <4> HIDE DEF T
      <4>2. hist[t].epoch = epoch' => \A q \in T : Safe(stored', large', q)
            BY <1>c, <3>1, <3>2, <4>1 DEF T
      <4> QED  BY <4>2 DEF T
    <3> QED  BY <2>2, <3>1, <3>3, PastStays DEF HistKept
  <2>5. LoadKept
        BY <1>g, <2>1
  <2> QED  BY <1>e, <2>1, <2>2, <2>3, <2>4, <2>5
<1>7. Move(t)
      BY Moves
<1> QED  BY <1>1, <1>2, <1>3, <1>4, <1>5, <1>6, <1>7 DEF Move

\* What any tab marks as saved is in the store, or was pushed out of a full one
\* by newer drawings, until somebody clears the history: for any number of tabs,
\* requests and limits, and whatever loads, saves and clears overlap.  Only an
\* image that is a byte over the store's limit is marked without being there.
THEOREM SavedStored == Spec => []SavedIsStored
<1>1. Init => KeptInv
  <2> SUFFICES ASSUME Init  PROVE KeptInv
      OBVIOUS
  <2>1. \A t \in Tabs : MarkInv(t)
        BY DrawingAssumption DEF Init, MarkInv, Past, Disposed, NoLoad, NoClear
  <2>2. \A r \in Reqs : SaveInv(r)
        BY DEF Init, SaveInv, Past, NoReq
  <2> QED  BY <2>1, <2>2 DEF KeptInv
<1>2. SafeInv /\ KeptInv /\ [Next]_vars => KeptInv'
      BY SaveInvKept, MarkInvKept DEF KeptInv
<1>3. KeptInv => SavedIsStored
      BY DEF KeptInv, MarkInv, SavedIsStored, Safe, WasStored
<1> QED  BY <1>1, <1>2, <1>3, SafeInvHolds, PTL DEF Spec
=============================================================================
