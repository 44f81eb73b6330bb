--------------------------- MODULE DrawingHistory ---------------------------
(***************************************************************************)
(* The drawing workbench of one account in several tabs of one browser     *)
(* (apps/web/src/features/drawing): generation requests, the history that  *)
(* shows their images, and the IndexedDB store the tabs share.  Every call *)
(* of the store is a transaction and, later, the code that awaited it.     *)
(*                                                                         *)
(* A request stands for its drawing; requests are numbered by createdAt.   *)
(* The tickets of a history are kept as the flags `live': the revision has *)
(* not changed since the ticket was taken.                                 *)
(***************************************************************************)
EXTENDS Integers, FiniteSets

CONSTANTS Tabs,
          MaxReqs,    \* bound: generation requests
          MaxOps,     \* bound: departures, clears and failures
          Limit,      \* DRAWING_HISTORY_LIMIT
          None

Reqs == 1 .. MaxReqs

ASSUME DrawingAssumption ==
    /\ MaxReqs \in Nat /\ MaxOps \in Nat /\ Limit \in Nat \ {0}
    /\ None \notin Nat /\ None \notin Tabs

VARIABLES epoch,    \* the account's tombstone in the store
          stored,   \* the account's drawings in the store
          hist,     \* hist[t]: DrawingHistory and its snapshot
          load,     \* load[t]: the load of start(), and `ready'
          clr,      \* clr[t]: the clear under way
          strays,   \* clears of histories that were disposed of
          view,     \* view[t]: the workbench is mounted
          task,     \* task[t]: the account's entry of activeDrawingTasks
          req,      \* req[r]: a call of generate() and of remember()
          ops,
          born,     \* history: the epoch a request belongs to
          large     \* the requests whose image is a byte over DRAWING_IMAGE_BYTES

vars == <<epoch, stored, hist, load, clr, strays, view, task, req, ops, born, large>>

Disposed == [active |-> FALSE, epoch |-> None, shown |-> {}, saved |-> {},
             loading |-> TRUE, saving |-> FALSE, clearing |-> FALSE, warning |-> FALSE]
NoLoad   == [pc |-> "none", live |-> FALSE, epoch |-> None, images |-> {}]
NoClear  == [pc |-> "none", epoch |-> None]
NoTask   == [id |-> None, status |-> "none"]
NoReq    == [pc |-> "none", tab |-> None, live |-> FALSE, own |-> FALSE,
             here |-> FALSE, ok |-> FALSE, with |-> None]
DoneReq  == [NoReq EXCEPT !.pc = "done"]

Init == /\ epoch = 0
        /\ stored = {}
        /\ hist = [t \in Tabs |-> Disposed]
        /\ load = [t \in Tabs |-> NoLoad]
        /\ clr = [t \in Tabs |-> NoClear]
        /\ strays = 0
        /\ view = [t \in Tabs |-> FALSE]
        /\ task = [t \in Tabs |-> NoTask]
        /\ req = [r \in Reqs |-> NoReq]
        /\ ops = 0
        /\ born = [r \in Reqs |-> None]
        /\ large = {}

Begin == ops < MaxOps /\ ops' = ops + 1

\* retainDrawings: the newest ones.
Retained(S) == {i \in S : Cardinality({j \in S : j > i}) < Limit}

Pending(r) == req[r].pc \notin {"none", "done"}

\* The requests that keep the session of tab t alive, r aside.
Owned(t, r) == {q \in Reqs \ {r} : Pending(q) /\ req[q].tab = t /\ req[q].own}

\* ++revision: no ticket taken in tab t is current any more.
Invalidated(t) == [q \in Reqs |-> IF req[q].tab = t THEN [req[q] EXCEPT !.live = FALSE]
                                                    ELSE req[q]]

-----------------------------------------------------------------------------
(* The session of a tab: start, dispose, and who keeps it.                 *)

\* start(): a new ticket, and a load that `ready' stands for.
StartedLoad == [NoLoad EXCEPT !.pc = "sent", !.live = TRUE]

\* dispose(), and what is left of the calls under way.
DisposeHistory(t) ==
    /\ hist' = [hist EXCEPT ![t] = Disposed]
    /\ load' = [load EXCEPT ![t] = NoLoad]
    /\ clr' = [clr EXCEPT ![t] = NoClear]
    /\ strays' = IF clr[t].pc = "sent" THEN strays + 1 ELSE strays

KeepHistory == UNCHANGED <<hist, load, clr, strays>>

\* The workbench is mounted; the first owner starts the history.
Mount(t) ==
    /\ ~view[t]
    /\ view' = [view EXCEPT ![t] = TRUE]
    /\ IF Owned(t, None) = {}
       THEN /\ hist' = [hist EXCEPT ![t] = [Disposed EXCEPT !.active = TRUE]]
            /\ load' = [load EXCEPT ![t] = StartedLoad]
       ELSE UNCHANGED <<hist, load>>
    /\ UNCHANGED <<epoch, stored, clr, strays, task, req, ops, born, large>>

\* Another route is shown; the last owner disposes of the history.  A new mount
\* has a requestPendingRef of its own.
Unmount(t) ==
    /\ view[t]
    /\ Begin
    /\ view' = [view EXCEPT ![t] = FALSE]
    /\ req' = [q \in Reqs |-> IF req[q].tab = t THEN [req[q] EXCEPT !.here = FALSE]
                                                ELSE req[q]]
    /\ IF Owned(t, None) = {} THEN DisposeHistory(t) ELSE KeepHistory
    /\ UNCHANGED <<epoch, stored, task, born, large>>

\* The store's user changes: the session is disposed of and forgotten, with its
\* active task; its requests go on.
SwitchAccount(t) ==
    /\ hist[t].active
    /\ Begin
    /\ DisposeHistory(t)
    /\ view' = [view EXCEPT ![t] = FALSE]
    /\ task' = [task EXCEPT ![t] = NoTask]
    /\ req' = [q \in Reqs |-> IF req[q].tab = t
                              THEN [req[q] EXCEPT !.live = FALSE, !.own = FALSE, !.here = FALSE]
                              ELSE req[q]]
    /\ UNCHANGED <<epoch, stored, born, large>>

\* The document is gone, with every call it was waiting for.
Reload(t) ==
    /\ view[t] \/ hist[t].active
    /\ Begin
    /\ DisposeHistory(t)
    /\ view' = [view EXCEPT ![t] = FALSE]
    /\ task' = [task EXCEPT ![t] = NoTask]
    /\ req' = [q \in Reqs |-> IF req[q].tab = t THEN DoneReq ELSE req[q]]
    /\ UNCHANGED <<epoch, stored, born, large>>

-----------------------------------------------------------------------------
(* Loading.                                                                *)

LoadTx(t) ==
    /\ load[t].pc = "sent"
    /\ \/ /\ load' = [load EXCEPT ![t] = [@ EXCEPT !.pc = "read", !.epoch = epoch,
                                                   !.images = Retained(stored)]]
          /\ UNCHANGED ops
       \/ /\ load' = [load EXCEPT ![t] = [@ EXCEPT !.pc = "failed"]]
          /\ Begin
    /\ UNCHANGED <<epoch, stored, hist, clr, strays, view, task, req, born, large>>

\* The handlers of load l in history h: what is shown wins over what is loaded.
Loaded(h, l) ==
    LET all == Retained(l.images \cup h.shown) IN
    IF ~l.live THEN h
    ELSE IF l.pc = "failed" THEN [h EXCEPT !.loading = FALSE, !.warning = TRUE]
    ELSE [h EXCEPT !.epoch = l.epoch, !.loading = FALSE, !.shown = all,
                   !.saved = all \cap (h.saved \cup (l.images \ h.shown))]

\* The load is answered, and `ready' is settled.
LoadDone(t) ==
    /\ load[t].pc \in {"read", "failed"}
    /\ hist' = [hist EXCEPT ![t] = Loaded(hist[t], load[t])]
    /\ load' = [load EXCEPT ![t] = NoLoad]
    /\ UNCHANGED <<epoch, stored, clr, strays, view, task, req, ops, born, large>>

-----------------------------------------------------------------------------
(* Generating and remembering.                                             *)

\* A bug: only the requests of this mount are looked at, not the active task.
Generate_ThisMount(t, r) ==
    /\ view[t] /\ hist[t].active /\ ~hist[t].clearing
    /\ \A q \in Reqs : ~(Pending(q) /\ req[q].tab = t /\ req[q].here)
    /\ req[r].pc = "none" /\ \A q \in 1 .. r - 1 : req[q].pc # "none"
    /\ req' = [req EXCEPT ![r] = [pc |-> "posted", tab |-> t, live |-> TRUE, own |-> TRUE,
                                  here |-> TRUE, ok |-> FALSE, with |-> None]]
    /\ task' = [task EXCEPT ![t] = [id |-> r, status |-> "generating"]]
    /\ born' = [born EXCEPT ![r] = IF hist[t].loading THEN None ELSE hist[t].epoch]
    /\ UNCHANGED <<epoch, stored, hist, load, clr, strays, view, ops, large>>

\* generate(): one request at a time, as far as this mount and the account's
\* active task know.
Generate(t, r) ==
    /\ view[t] /\ hist[t].active /\ ~hist[t].clearing
    /\ \A q \in Reqs : ~(Pending(q) /\ req[q].tab = t /\ req[q].here)
    /\ task[t].status # "generating"
    /\ req[r].pc = "none" /\ \A q \in 1 .. r - 1 : req[q].pc # "none"
    /\ req' = [req EXCEPT ![r] = [pc |-> "posted", tab |-> t, live |-> TRUE, own |-> TRUE,
                                  here |-> TRUE, ok |-> FALSE, with |-> None]]
    /\ task' = [task EXCEPT ![t] = [id |-> r, status |-> "generating"]]
    /\ born' = [born EXCEPT ![r] = IF hist[t].loading THEN None ELSE hist[t].epoch]
    /\ UNCHANGED <<epoch, stored, hist, load, clr, strays, view, ops, large>>

\* clearActiveDrawingTask(userId, taskId)
TaskCleared(t, r) == [task EXCEPT ![t] = IF @.id = r THEN NoTask ELSE @]

\* updateActiveDrawingTask(userId, failed)
TaskFailed(t) == [task EXCEPT ![t].status = IF @ = "none" THEN @ ELSE "failed"]

\* `finally' of generate: the request releases the session it retained.  h is
\* the history it leaves behind, and l the load.
End(r, h, l, newTask) ==
    LET t == req[r].tab IN
    /\ task' = newTask
    /\ IF req[r].own /\ ~view[t] /\ Owned(t, r) = {}
       THEN DisposeHistory(t)
       ELSE /\ hist' = [hist EXCEPT ![t] = h]
            /\ load' = [load EXCEPT ![t] = l]
            /\ UNCHANGED <<clr, strays>>

Done(r) == [req EXCEPT ![r] = DoneReq]

\* The images of request r are shown, and being saved.
Remembered(h, r) == [h EXCEPT !.saving = TRUE, !.shown = Retained(h.shown \cup {r})]

\* The answer to the paid request: dropped if the ticket is not current, an
\* error, or an image that is shown at once.
Answer(r) ==
    LET t == req[r].tab IN
    /\ req[r].pc = "posted"
    /\ \/ /\ ~req[r].live
          /\ End(r, hist[t], load[t], TaskCleared(t, r))
          /\ req' = Done(r)
          /\ UNCHANGED ops
       \/ /\ req[r].live
          /\ \/ End(r, hist[t], load[t], TaskCleared(t, r))
             \/ End(r, hist[t], load[t], TaskFailed(t))
          /\ req' = Done(r)
          /\ Begin
       \/ /\ req[r].live
          /\ hist' = [hist EXCEPT ![t] = Remembered(hist[t], r)]
          /\ req' = [req EXCEPT ![r] = [@ EXCEPT !.pc = "bytes"]]
          /\ UNCHANGED <<load, clr, strays, task, ops>>
    /\ UNCHANGED <<epoch, stored, view, born, large>>

\* The bytes are decoded or downloaded, or that fails.  drawingBase64Blob bounds
\* the length of the encoding, rounded up: a decoded image may be one byte over
\* DRAWING_IMAGE_BYTES.
Bytes(r) ==
    /\ req[r].pc = "bytes"
    /\ \/ /\ req' = [req EXCEPT ![r] = [@ EXCEPT !.pc = "ready", !.ok = TRUE]]
          /\ \/ UNCHANGED <<ops, large>>
             \/ large' = large \cup {r} /\ Begin
       \/ /\ req' = [req EXCEPT ![r] = [@ EXCEPT !.pc = "ready"]]
          /\ Begin
          /\ UNCHANGED large
    /\ UNCHANGED <<epoch, stored, hist, load, clr, strays, view, task, born>>

\* A bug: the failure is not announced.
Failed_Silent(h) == [h EXCEPT !.saving = FALSE]

\* What remember leaves after a failure.
Failed(h) == [h EXCEPT !.saving = FALSE, !.warning = TRUE]

\* `await this.ready', and the call of store.save with the history's epoch.
SaveCall(r) ==
    LET t == req[r].tab IN
    /\ req[r].pc = "ready"
    /\ req[r].live => load[t].pc = "none"
    /\ \/ /\ ~req[r].live
          /\ End(r, hist[t], load[t], TaskCleared(t, r))
          /\ req' = Done(r)
          /\ UNCHANGED born
       \/ /\ req[r].live /\ hist[t].epoch = None
          /\ End(r, Failed(hist[t]), load[t], TaskCleared(t, r))
          /\ req' = Done(r)
          /\ UNCHANGED born
       \/ /\ req[r].live /\ hist[t].epoch # None
          /\ req' = [req EXCEPT ![r] = [@ EXCEPT !.pc = "saving", !.with = hist[t].epoch]]
          /\ born' = [born EXCEPT ![r] = IF @ = None THEN hist[t].epoch ELSE @]
          /\ UNCHANGED <<hist, load, clr, strays, task>>
    /\ UNCHANGED <<epoch, stored, view, ops, large>>

\* A bug: the transaction does not compare the epochs.
SaveTx_AnyEpoch(r) ==
    /\ req[r].pc = "saving"
    /\ stored' = Retained(stored \cup {r})
    /\ req' = [req EXCEPT ![r] = [@ EXCEPT !.pc = "saved"]]
    /\ UNCHANGED <<epoch, hist, load, clr, strays, view, task, ops, born, large>>

\* The transaction of save: the epoch is compared with the tombstone, and an
\* image over DRAWING_IMAGE_BYTES is left out without a word.
SaveTx(r) ==
    /\ req[r].pc = "saving"
    /\ \/ /\ req[r].with = epoch
          /\ stored' = Retained(IF req[r].ok /\ r \notin large THEN stored \cup {r} ELSE stored)
          /\ req' = [req EXCEPT ![r] = [@ EXCEPT !.pc = "saved"]]
          /\ UNCHANGED ops
       \/ /\ req[r].with # epoch
          /\ req' = [req EXCEPT ![r] = [@ EXCEPT !.pc = "rejected"]]
          /\ UNCHANGED <<stored, ops>>
       \/ /\ req' = [req EXCEPT ![r] = [@ EXCEPT !.pc = "failed"]]
          /\ Begin
          /\ UNCHANGED stored
    /\ UNCHANGED <<epoch, hist, load, clr, strays, view, task, born, large>>

\* The rest of remember: the image is marked, or another tab's clear empties
\* this one and starts it again.
SaveDone(r) ==
    LET t == req[r].tab
        h == hist[t] IN
    /\ req[r].pc \in {"saved", "rejected", "failed"}
    /\ \/ /\ ~req[r].live
          /\ End(r, h, load[t], TaskCleared(t, r))
          /\ req' = Done(r)
       \/ /\ req[r].live /\ req[r].pc = "saved" /\ req[r].ok
          /\ End(r, [h EXCEPT !.saved = @ \cup ({r} \cap h.shown), !.saving = FALSE],
                 load[t], TaskCleared(t, r))
          /\ req' = Done(r)
       \/ /\ req[r].live /\ (req[r].pc = "failed" \/ (req[r].pc = "saved" /\ ~req[r].ok))
          /\ End(r, Failed(h), load[t], TaskCleared(t, r))
          /\ req' = Done(r)
       \/ /\ req[r].live /\ req[r].pc = "rejected"
          /\ End(r, [h EXCEPT !.shown = {}, !.saved = {}, !.saving = FALSE, !.loading = TRUE],
                 StartedLoad, TaskCleared(t, r))
          /\ req' = [Invalidated(t) EXCEPT ![r] = DoneReq]
    /\ UNCHANGED <<epoch, stored, view, ops, born, large>>

-----------------------------------------------------------------------------
(* Clearing.                                                               *)

\* A bug: clear keeps the revision, so that a load under way is still applied.
Clear_KeepsTicket(t) ==
    /\ view[t] /\ hist[t].active /\ ~hist[t].clearing
    /\ Begin
    /\ hist' = [hist EXCEPT ![t] = [@ EXCEPT !.shown = {}, !.saved = {}, !.loading = FALSE,
                    !.saving = FALSE, !.clearing = TRUE, !.warning = FALSE]]
    /\ clr' = [clr EXCEPT ![t] = [NoClear EXCEPT !.pc = "sent"]]
    /\ UNCHANGED <<epoch, stored, load, strays, view, task, req, born, large>>

\* clear(): the display is empty at once, every ticket is void.
Clear(t) ==
    /\ view[t] /\ hist[t].active /\ ~hist[t].clearing
    /\ Begin
    /\ req' = Invalidated(t)
    /\ load' = [load EXCEPT ![t] = [@ EXCEPT !.live = FALSE]]
    /\ hist' = [hist EXCEPT ![t] = [@ EXCEPT !.shown = {}, !.saved = {}, !.loading = FALSE,
                    !.saving = FALSE, !.clearing = TRUE, !.warning = FALSE]]
    /\ clr' = [clr EXCEPT ![t] = [NoClear EXCEPT !.pc = "sent"]]
    /\ UNCHANGED <<epoch, stored, strays, view, task, born, large>>

\* A bug: an account without a row has no epoch.
Wipe_NoDefault == epoch' = None /\ stored' = {}

\* A bug: the drawings stay.
Wipe_KeepsDrawings == epoch' = epoch + 1 /\ stored' = stored

\* The transaction of clear: tombstone and drawings together.
Wipe == epoch' = epoch + 1 /\ stored' = {}

ClearTx(t) ==
    /\ clr[t].pc = "sent"
    /\ \/ /\ Wipe
          /\ clr' = [clr EXCEPT ![t] = [pc |-> "done", epoch |-> epoch']]
          /\ UNCHANGED ops
       \/ /\ clr' = [clr EXCEPT ![t] = [pc |-> "failed", epoch |-> None]]
          /\ Begin
          /\ UNCHANGED <<epoch, stored>>
    /\ UNCHANGED <<hist, load, strays, view, task, req, born, large>>

\* The same for a clear whose history is gone.
StrayTx ==
    /\ strays > 0
    /\ strays' = strays - 1
    /\ Wipe \/ UNCHANGED <<epoch, stored>>
    /\ UNCHANGED <<hist, load, clr, view, task, req, ops, born, large>>

\* A bug: a failed clear is still under way.
ClearDone_Stuck(t) ==
    /\ clr[t].pc = "done"
    /\ hist' = [hist EXCEPT ![t] = [@ EXCEPT !.clearing = FALSE, !.epoch = clr[t].epoch]]
    /\ clr' = [clr EXCEPT ![t] = NoClear]
    /\ UNCHANGED <<epoch, stored, load, strays, view, task, req, ops, born, large>>

ClearDone(t) ==
    /\ clr[t].pc \in {"done", "failed"}
    /\ hist' = [hist EXCEPT ![t] =
           IF clr[t].pc = "done" THEN [@ EXCEPT !.clearing = FALSE, !.epoch = clr[t].epoch]
                                 ELSE [@ EXCEPT !.clearing = FALSE, !.warning = TRUE]]
    /\ clr' = [clr EXCEPT ![t] = NoClear]
    /\ UNCHANGED <<epoch, stored, load, strays, view, task, req, ops, born, large>>

-----------------------------------------------------------------------------
TabStep(t) == \/ Mount(t) \/ Unmount(t) \/ SwitchAccount(t) \/ Reload(t)
              \/ LoadTx(t) \/ LoadDone(t)
              \/ Clear(t) \/ ClearTx(t) \/ ClearDone(t)

RequestStep(r) == \/ \E t \in Tabs : Generate(t, r)
                  \/ Answer(r) \/ Bytes(r) \/ SaveCall(r) \/ SaveTx(r) \/ SaveDone(r)

Next == \/ \E t \in Tabs : TabStep(t)
        \/ \E r \in Reqs : RequestStep(r)
        \/ StrayTx

Spec == Init /\ [][Next]_vars

\* Transactions complete or abort, downloads end after 15 s, and promises that
\* are settled run their handlers.  The answer of a paid request has no
\* deadline.
Fairness == /\ \A t \in Tabs : /\ WF_vars(LoadTx(t)) /\ WF_vars(LoadDone(t))
                               /\ WF_vars(ClearTx(t)) /\ WF_vars(ClearDone(t))
            /\ \A r \in Reqs : /\ WF_vars(Bytes(r)) /\ WF_vars(SaveCall(r))
                               /\ WF_vars(SaveTx(r)) /\ WF_vars(SaveDone(r))

FairSpec == Spec /\ Fairness

-----------------------------------------------------------------------------
(* Properties.                                                             *)

TypeOK ==
    /\ epoch \in Nat
    /\ stored \subseteq Reqs
    /\ hist \in [Tabs -> [active : BOOLEAN, epoch : Nat \cup {None},
                          shown : SUBSET Reqs, saved : SUBSET Reqs, loading : BOOLEAN,
                          saving : BOOLEAN, clearing : BOOLEAN, warning : BOOLEAN]]
    /\ load \in [Tabs -> [pc : {"none", "sent", "read", "failed"}, live : BOOLEAN,
                          epoch : Nat \cup {None}, images : SUBSET Reqs]]
    /\ clr \in [Tabs -> [pc : {"none", "sent", "done", "failed"}, epoch : Nat \cup {None}]]
    /\ strays \in Nat
    /\ view \in [Tabs -> BOOLEAN]
    /\ task \in [Tabs -> [id : Reqs \cup {None}, status : {"none", "generating", "failed"}]]
    /\ req \in [Reqs -> [pc : {"none", "posted", "bytes", "ready", "saving", "saved",
                               "rejected", "failed", "done"},
                         tab : Tabs \cup {None}, live : BOOLEAN, own : BOOLEAN,
                         here : BOOLEAN, ok : BOOLEAN, with : Nat \cup {None}]]
    /\ ops \in 0 .. MaxOps
    /\ born \in [Reqs -> Nat \cup {None}]
    /\ large \subseteq Reqs

\* A clear is a barrier: a drawing asked for in a tab that had loaded the
\* history, before some tab cleared it, is never in the store, however late its
\* bytes and its transaction come.
ClearIsABarrier == \A r \in stored : born[r] = epoch

\* What a tab marks as saved is in the store, or was dropped for newer drawings
\* that fill it, until somebody clears the history.  The one exception is an
\* image that drawingBase64Blob lets through and the store does not: remember
\* marks what it sent, not what the transaction kept.
SavedIsStored ==
    \A t \in Tabs : hist[t].epoch = epoch =>
        \A r \in hist[t].saved :
            \/ r \in stored \/ r \in large
            \/ Cardinality(stored) = Limit /\ \A q \in stored : q > r

\* An image that is shown and not marked as saved is being saved, or the user
\* has been warned.
UnsavedIsAnnounced ==
    \A t \in Tabs : hist[t].shown \subseteq hist[t].saved \/ hist[t].saving \/ hist[t].warning

\* A session of the account pays for one generation at a time, across unmounts,
\* remounts and requests that a clear has made stale: of two requests of a tab
\* that are pending, one is of a session that an account switch has dropped.
\* (The switch clears the active task and does not abort the request, so the
\* account that returns may pay for a second one: use-drawing-history.ts.)
OneGeneration ==
    \A t \in Tabs : \A q, r \in Reqs :
        q # r /\ Pending(q) /\ Pending(r) /\ req[q].tab = t /\ req[r].tab = t
          => ~(req[q].own /\ req[r].own)

\* Loading, saving and clearing end, whatever fails or is superseded.
FlagsEnd ==
    \A t \in Tabs : /\ []<>~(hist[t].active /\ hist[t].loading)
                   /\ []<>~hist[t].saving
                   /\ []<>~hist[t].clearing

\* The store and its epochs implement the archive in which a clear is final.
Dead == {r \in Reqs : born[r] # None /\ born[r] < epoch}
Archive == INSTANCE DrawingArchive WITH Drawings <- Reqs, kept <- stored, dead <- Dead
ArchiveSpec == Archive!Spec
=============================================================================
