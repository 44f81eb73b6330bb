---------------------------- MODULE KeyCreation ----------------------------
(***************************************************************************)
(* Creating an API key in the assistant (apps/web/src/features/assistant): *)
(* the panel that holds a prepared action, the key tool with its phases,   *)
(* its operations, which outlive the tool they were started in, and the    *)
(* server that prepares and consumes confirmation tokens while the groups  *)
(* and their warnings change.                                              *)
(*                                                                         *)
(* A prepared action is its token.  A group is Off or the number of times  *)
(* its warning has to be confirmed.                                        *)
(***************************************************************************)
EXTENDS Integers

CONSTANTS MaxTokens,  \* bound: preparations
          MaxCalls,   \* bound: operations of the tool
          MaxOps,     \* bound: messages, departures, changes and failures
          NGroups,    \* routing groups, in the order of their names
          MaxNeed,    \* confirmations a warning may ask for
          None

Tokens == 1 .. MaxTokens
Calls  == 1 .. MaxCalls
Groups == 1 .. NGroups
Off    == -1
Config == [Groups -> Off .. MaxNeed]

ASSUME KeyAssumption ==
    /\ MaxTokens \in Nat /\ MaxCalls \in Nat /\ MaxOps \in Nat
    /\ NGroups \in Nat /\ MaxNeed \in Nat /\ None \notin Int

VARIABLES cfg,        \* the groups, on the server
          cache,      \* the groups, in the query cache
          flow,       \* flow[k]: the server's record of a confirmation token
          made,       \* made[k]: keys created from it
          panel,      \* keyCreationAction, autoConfirmKeyToken, the chat request
                      \* under way, activeTool = 'key'
          phase,      \* the phase of the mounted tool
          chosen,     \* its group field
          ref,        \* operationRef, externalTokenRef, autoAttemptedTokenRef
          call,       \* call[i]: an operation; `here': its tool is still mounted
          consented,  \* history: tokens the user confirmed
          ops

vars == <<cfg, cache, flow, made, panel, phase, chosen, ref, call, consented, ops>>

Draft     == [kind |-> "draft", tok |-> None, src |-> None,
              of |-> None, need |-> 0, count |-> 0]
Preparing == [Draft EXCEPT !.kind = "preparing"]
With(kind, k, src) == [Draft EXCEPT !.kind = kind, !.tok = k, !.src = src]
Warning(g, n, c)   == [Draft EXCEPT !.kind = "warning", !.of = g, !.need = n, !.count = c]

NoFlow == [st |-> "none", group |-> None, need |-> 0, src |-> None, acks |-> 0, shown |-> None]
NoRef  == [op |-> "none", ext |-> None, tried |-> None]
NoCall == [kind |-> "none", pc |-> "none", tok |-> None, group |-> None, count |-> 0,
           src |-> None, shown |-> None, here |-> FALSE, seen |-> Off, ans |-> "none"]
DoneCall == [NoCall EXCEPT !.pc = "done"]

Init == /\ cfg \in Config
        /\ cache = [g \in Groups |-> Off]
        /\ flow = [k \in Tokens |-> NoFlow]
        /\ made = [k \in Tokens |-> 0]
        /\ panel = [action |-> None, auto |-> None, asked |-> FALSE, open |-> FALSE]
        /\ phase = Draft
        /\ chosen = None
        /\ ref = NoRef
        /\ call = [i \in Calls |-> NoCall]
        /\ consented = {}
        /\ ops = 0

Begin == ops < MaxOps /\ ops' = ops + 1

Live(c) == {g \in Groups : c[g] # Off}

\* selectedGroup: the field, or the first group of the catalogue.
Selected(g) == \/ chosen \in Live(cache) /\ g = chosen
               \/ chosen \notin Live(cache) /\ g \in Live(cache)
                                            /\ \A h \in Live(cache) : g <= h

-----------------------------------------------------------------------------
(* The panel, and the effects of the tool.                                 *)

\* The tool is mounted with action a, prepared for group g.
Mounted(a, g) ==
    /\ phase' = IF a = None THEN Draft ELSE With("external", a, None)
    /\ chosen' = g
    /\ ref' = [NoRef EXCEPT !.ext = a]

\* The tool is unmounted; its operations go on.
Unmounted == /\ phase' = Draft
             /\ chosen' = None
             /\ ref' = NoRef
             /\ call' = [i \in Calls |-> [call[i] EXCEPT !.here = FALSE]]

Dropped(p) == [p EXCEPT !.action = None, !.auto = None]

\* A typed confirmation whose effect has not run.
AutoDue == /\ panel.open /\ panel.auto # None /\ panel.auto = panel.action
           /\ phase.kind = "external" /\ ref.tried # phase.tok

\* Effects run before the next event of the user is handled.
Settled == panel.open => panel.action = ref.ext /\ ~AutoDue

\* A dialog covers the panel.
Covered == panel.open /\ phase.kind \in {"warning", "reviewing", "confirming"}

\* submitMessage, when it is not a confirmation: cards are cleared first.
SendMessage ==
    /\ Settled /\ ~Covered /\ ~panel.asked
    /\ Begin
    /\ panel' = [Dropped(panel) EXCEPT !.asked = TRUE, !.open = FALSE]
    /\ Unmounted
    /\ UNCHANGED <<cfg, cache, flow, made, consented>>

\* The user opens the tool from a suggestion.
OpenTool ==
    /\ ~panel.open
    /\ panel' = [panel EXCEPT !.open = TRUE]
    /\ Mounted(panel.action, IF panel.action = None THEN None ELSE flow[panel.action].group)
    /\ UNCHANGED <<cfg, cache, flow, made, call, consented, ops>>

\* Another tool is opened, a reply suggests something else (which keeps the
\* action or drops it, and may leave autoConfirmKeyToken), or human support
\* takes over and clears the cards.
CloseTool ==
    /\ panel.open
    /\ Begin
    /\ \/ Settled /\ ~Covered /\ panel' = [panel EXCEPT !.open = FALSE]
       \/ panel.asked /\ panel' = [panel EXCEPT !.open = FALSE, !.asked = FALSE]
       \/ panel.asked /\ panel' = [panel EXCEPT !.open = FALSE, !.asked = FALSE, !.action = None]
       \/ panel' = [Dropped(panel) EXCEPT !.open = FALSE, !.asked = FALSE]
    /\ Unmounted
    /\ UNCHANGED <<cfg, cache, flow, made, consented>>

\* The chat prepares a key for group g and its reply opens the tool.
ReplyKey(k, g) ==
    /\ panel.asked
    /\ flow[k].st = "none" /\ \A j \in 1 .. k - 1 : flow[j].st # "none"
    /\ cfg[g] # Off
    /\ flow' = [flow EXCEPT ![k] = [NoFlow EXCEPT !.st = "open", !.group = g,
                                        !.need = cfg[g], !.src = "chat"]]
    /\ panel' = [panel EXCEPT !.action = k, !.asked = FALSE, !.open = TRUE]
    /\ IF panel.open THEN UNCHANGED <<phase, chosen, ref>> ELSE Mounted(k, g)
    /\ UNCHANGED <<cfg, cache, made, call, consented, ops>>

\* The user types a confirmation of the pending action.
TypeConfirm ==
    /\ Settled /\ ~Covered /\ ~panel.asked
    /\ panel.action # None /\ panel.auto # panel.action
    /\ panel' = [panel EXCEPT !.auto = panel.action, !.open = TRUE]
    /\ consented' = consented \cup {panel.action}
    /\ IF panel.open THEN UNCHANGED <<phase, chosen, ref>>
                     ELSE Mounted(panel.action, flow[panel.action].group)
    /\ UNCHANGED <<cfg, cache, flow, made, call, ops>>

\* A bug: the action that the parent clears takes every phase with it.
Cleared_Anything(p) == Draft

\* clear-external
Cleared(p) == IF p.kind = "external" \/ (p.kind = "reviewing" /\ p.src = "external")
              THEN Draft ELSE p

\* The effect on confirmationAction: load-external or clear-external.
SyncExternal ==
    /\ panel.open /\ panel.action # ref.ext
    /\ ref' = [ref EXCEPT !.ext = panel.action, !.tried = None]
    /\ IF panel.action # None
       THEN phase' = With("external", panel.action, None) /\ chosen' = flow[panel.action].group
       ELSE phase' = Cleared(phase) /\ UNCHANGED chosen
    /\ UNCHANGED <<cfg, cache, flow, made, panel, call, consented, ops>>

-----------------------------------------------------------------------------
(* Operations are started.                                                 *)

FreeCall(i) == call[i].pc = "none" /\ \A j \in 1 .. i - 1 : call[j].pc # "none"

\* operationRef is taken; the first thing every operation does is to refetch the
\* groups.
Start(i, c) ==
    /\ ref.op = "none" /\ FreeCall(i)
    /\ call' = [call EXCEPT ![i] = c]

Prepare(i, g, n, of) ==
    /\ Start(i, [NoCall EXCEPT !.kind = "prepare", !.pc = "groups", !.group = g,
                                !.count = n, !.shown = of, !.here = TRUE])
    /\ ref' = [ref EXCEPT !.op = "prepare"]

ConfirmAction(i, k, src) ==
    Start(i, [NoCall EXCEPT !.kind = "confirm", !.pc = "groups", !.tok = k,
                             !.group = flow[k].group, !.src = src, !.here = TRUE])

\* set-group, in a draft.
SetGroup(g) ==
    /\ panel.open /\ Settled /\ phase.kind = "draft"
    /\ g \in Live(cache) /\ chosen # g
    /\ chosen' = g
    /\ UNCHANGED <<cfg, cache, flow, made, panel, phase, ref, call, consented, ops>>

\* review()
Review(i) ==
    /\ panel.open /\ Settled
    /\ \/ phase.kind = "draft" /\ \E g \in Groups : Selected(g) /\ Prepare(i, g, 0, None)
       \/ /\ phase.kind = "external"
          /\ Start(i, [NoCall EXCEPT !.kind = "review", !.pc = "groups",
                       !.tok = phase.tok, !.group = flow[phase.tok].group, !.here = TRUE])
          /\ ref' = [ref EXCEPT !.op = "prepare"]
    /\ UNCHANGED <<cfg, cache, flow, made, panel, phase, chosen, consented, ops>>

\* A bug: one confirmation too many.
Acknowledge_OneMore(i) ==
    /\ panel.open /\ Settled /\ phase.kind = "warning"
    /\ \/ /\ phase.count + 1 <= phase.need
          /\ phase' = [phase EXCEPT !.count = @ + 1]
          /\ UNCHANGED <<ref, call>>
       \/ /\ phase.count + 1 > phase.need
          /\ \E g \in Groups : Selected(g) /\ Prepare(i, g, phase.count + 1, phase.of)
          /\ UNCHANGED phase
    /\ UNCHANGED <<cfg, cache, flow, made, panel, chosen, consented, ops>>

\* acknowledgeWarning()
Acknowledge(i) ==
    /\ panel.open /\ Settled /\ phase.kind = "warning"
    /\ \/ /\ phase.count + 1 < phase.need
          /\ phase' = [phase EXCEPT !.count = @ + 1]
          /\ UNCHANGED <<ref, call>>
       \/ /\ phase.count + 1 >= phase.need
          /\ \E g \in Groups : Selected(g) /\ Prepare(i, g, phase.count + 1, phase.of)
          /\ UNCHANGED phase
    /\ UNCHANGED <<cfg, cache, flow, made, panel, chosen, consented, ops>>

\* confirm(), in the dialog.
Confirm(i) ==
    /\ panel.open /\ Settled /\ phase.kind = "reviewing"
    /\ ConfirmAction(i, phase.tok, phase.src)
    /\ ref' = [ref EXCEPT !.op = "confirm"]
    /\ consented' = consented \cup {phase.tok}
    /\ UNCHANGED <<cfg, cache, flow, made, panel, phase, chosen, ops>>

\* A bug: every prepared action is confirmed as soon as it is loaded.
AutoConfirm_Unasked(i) ==
    /\ panel.open /\ panel.action = ref.ext
    /\ phase.kind = "external" /\ ref.tried # phase.tok
    /\ ConfirmAction(i, phase.tok, "external")
    /\ ref' = [ref EXCEPT !.op = "confirm", !.tried = phase.tok]
    /\ UNCHANGED <<cfg, cache, flow, made, panel, phase, chosen, consented, ops>>

\* The effect on autoConfirm: one attempt for a token, even if another operation
\* is under way and nothing is started.
AutoConfirm(i) ==
    /\ AutoDue /\ panel.action = ref.ext
    /\ \/ /\ ConfirmAction(i, phase.tok, "external")
          /\ ref' = [ref EXCEPT !.op = "confirm", !.tried = phase.tok]
       \/ /\ ref.op # "none"
          /\ ref' = [ref EXCEPT !.tried = phase.tok]
          /\ UNCHANGED call
    /\ UNCHANGED <<cfg, cache, flow, made, panel, phase, chosen, consented, ops>>

\* dismiss(): a dialog is cancelled.
Dismiss ==
    /\ Settled /\ Covered
    /\ Begin
    /\ phase' = Draft
    /\ panel' = IF phase.kind = "warning" THEN panel ELSE Dropped(panel)
    /\ UNCHANGED <<cfg, cache, flow, made, chosen, ref, call, consented>>

-----------------------------------------------------------------------------
(* Operations go on.                                                       *)

\* The query refetches on mount and on focus.
Refetch ==
    /\ panel.open /\ cache # cfg
    /\ cache' = cfg
    /\ UNCHANGED <<cfg, flow, made, panel, phase, chosen, ref, call, consented, ops>>

\* loadLiveGroups: an error, and a catalogue without groups, throw.
GroupsRead(i) ==
    /\ call[i].pc = "groups"
    /\ \/ /\ cache' = cfg
          /\ call' = [call EXCEPT ![i] = [@ EXCEPT !.pc = IF Live(cfg) = {} THEN "unread" ELSE "read",
                                                   !.seen = cfg[call[i].group]]]
          /\ UNCHANGED ops
       \/ /\ call' = [call EXCEPT ![i] = [@ EXCEPT !.pc = "unread"]]
          /\ Begin
          /\ UNCHANGED cache
    /\ UNCHANGED <<cfg, flow, made, panel, phase, chosen, ref, consented>>

\* dispatch: only a mounted tool changes.
Dispatch(i, p, g) == IF call[i].here THEN phase' = p /\ chosen' = g
                                     ELSE UNCHANGED <<phase, chosen>>

\* A bug: operationRef is not released.
Finish_Held(i, p, g, pn) ==
    /\ Dispatch(i, p, g)
    /\ call' = [call EXCEPT ![i] = DoneCall]
    /\ ref' = ref
    /\ panel' = pn

\* The last dispatch of an operation, and `finally'.  The callbacks of the panel
\* run even if the tool is gone.
Finish(i, p, g, pn) ==
    /\ Dispatch(i, p, g)
    /\ call' = [call EXCEPT ![i] = DoneCall]
    /\ ref' = IF call[i].here THEN [ref EXCEPT !.op = "none"] ELSE ref
    /\ panel' = pn

\* The request is about to be sent.
Post(i, p, g) == /\ Dispatch(i, p, g)
                 /\ call' = [call EXCEPT ![i] = [@ EXCEPT !.pc = "post"]]
                 /\ UNCHANGED <<ref, panel>>

\* A bug: the dialog goes on confirming.
FailedConfirmation_Stays(p) == p

\* confirmation-failed
FailedConfirmation(p) == IF p.kind = "confirming" THEN [p EXCEPT !.kind = "reviewing"] ELSE p

\* prepareDraft, after the groups.
PrepareRead(i) ==
    LET c == call[i] IN
    /\ c.kind = "prepare" /\ c.pc \in {"read", "unread"}
    /\ \/ /\ c.pc = "unread"
          /\ Finish(i, Draft, chosen, panel)
       \/ /\ c.pc = "read" /\ c.seen = Off
          /\ Finish(i, phase, chosen, panel)
       \/ /\ c.pc = "read" /\ c.seen > 0 /\ c.count # c.seen
          /\ Finish(i, Warning(c.group, c.seen, 0), chosen, panel)
       \/ /\ c.pc = "read" /\ (c.seen = 0 \/ c.count = c.seen)
          /\ Post(i, Preparing, chosen)
    /\ UNCHANGED <<cfg, cache, flow, made, consented, ops>>

\* review of an external action, after the groups.
ReviewRead(i) ==
    LET c == call[i] IN
    /\ c.kind = "review" /\ c.pc \in {"read", "unread"}
    /\ \/ /\ c.pc = "unread"
          /\ Finish(i, phase, chosen, panel)
       \/ /\ c.pc = "read" /\ c.seen = Off
          /\ Finish(i, Draft, chosen, Dropped(panel))
       \/ /\ c.pc = "read" /\ c.seen # Off
          /\ Finish(i, With("reviewing", c.tok, "external"), c.group, panel)
    /\ UNCHANGED <<cfg, cache, flow, made, consented, ops>>

\* confirmAction, after the groups.
ConfirmRead(i) ==
    LET c == call[i] IN
    /\ c.kind = "confirm" /\ c.pc \in {"read", "unread"}
    /\ \/ /\ c.pc = "unread"
          /\ Finish(i, FailedConfirmation(phase), chosen, panel)
       \/ /\ c.pc = "read" /\ c.seen = Off
          /\ Finish(i, Draft, chosen, Dropped(panel))
       \/ /\ c.pc = "read" /\ c.seen # Off
          /\ Post(i, With("confirming", c.tok, c.src), c.group)
    /\ UNCHANGED <<cfg, cache, flow, made, consented, ops>>

-----------------------------------------------------------------------------
(* The server.                                                             *)

Answered(i, a) == call' = [call EXCEPT ![i] = [@ EXCEPT !.pc = "answered", !.ans = a]]

\* PrepareAssistantDefaultKey: the draft keeps the warning it was prepared under.
\* The group, the confirmations or the database may refuse.
ServePrepare(i) ==
    LET c == call[i] IN
    /\ c.kind = "prepare" /\ c.pc = "post"
    /\ \/ /\ Answered(i, "error")
          /\ UNCHANGED flow
       \/ /\ cfg[c.group] = 0 \/ (cfg[c.group] > 0 /\ c.count = cfg[c.group])
          /\ \E k \in Tokens :
                /\ flow[k].st = "none" /\ \A j \in 1 .. k - 1 : flow[j].st # "none"
                /\ flow' = [flow EXCEPT ![k] = [st |-> "open", group |-> c.group,
                                need |-> cfg[c.group], src |-> "local", acks |-> c.count,
                                shown |-> c.shown]]
                /\ call' = [call EXCEPT ![i] = [@ EXCEPT !.pc = "answered", !.ans = "ok", !.tok = k]]
    /\ UNCHANGED <<cfg, cache, made, panel, phase, chosen, ref, consented, ops>>

\* A bug: the token is not locked, and not looked at again.
Refused_Expired(k) == flow[k].st = "expired" \/ cfg[flow[k].group] # flow[k].need

\* A bug: the warning is not compared with that of the draft.
Refused_AnyWarning(k) == flow[k].st # "open" \/ cfg[flow[k].group] = Off

\* What invalidates a confirmation: the token, the group, or its warning.
Refused(k) == flow[k].st # "open" \/ cfg[flow[k].group] # flow[k].need

\* ConsumeAssistantKeyFlowAndCreateSecureCard: one transaction.  A wrong code, a
\* limit or an internal error leave the token alone.
ServeConfirm(i) ==
    LET k == call[i].tok IN
    /\ call[i].kind = "confirm" /\ call[i].pc = "post"
    /\ \/ /\ Refused(k)
          /\ Answered(i, "invalid")
          /\ UNCHANGED <<flow, made, ops>>
       \/ /\ ~Refused(k)
          /\ Answered(i, "error")
          /\ Begin
          /\ UNCHANGED <<flow, made>>
       \/ /\ ~Refused(k)
          /\ Answered(i, "ok")
          /\ flow' = [flow EXCEPT ![k].st = "used"]
          /\ made' = [made EXCEPT ![k] = @ + 1]
          /\ UNCHANGED ops
    /\ UNCHANGED <<cfg, cache, panel, phase, chosen, ref, consented>>

\* The request or its answer is lost.
Lose(i) ==
    /\ call[i].pc = "post" \/ (call[i].pc = "answered" /\ call[i].ans # "error")
    /\ Answered(i, "error")
    /\ Begin
    /\ UNCHANGED <<cfg, cache, flow, made, panel, phase, chosen, ref, consented>>

\* Ten minutes are over.
Expire(k) ==
    /\ flow[k].st = "open"
    /\ flow' = [flow EXCEPT ![k].st = "expired"]
    /\ Begin
    /\ UNCHANGED <<cfg, cache, made, panel, phase, chosen, ref, call, consented>>

\* An administrator changes a group or its warning.
ChangeGroup(g, n) ==
    /\ cfg[g] # n
    /\ cfg' = [cfg EXCEPT ![g] = n]
    /\ Begin
    /\ UNCHANGED <<cache, flow, made, panel, phase, chosen, ref, call, consented>>

\* The rest of prepareDraft.
PrepareDone(i) ==
    LET c == call[i] IN
    /\ c.kind = "prepare" /\ c.pc = "answered"
    /\ \/ /\ c.ans = "ok"
          /\ Finish(i, With("reviewing", c.tok, "local"), c.group, panel)
       \/ /\ c.ans = "error"
          /\ Finish(i, Draft, chosen, panel)
    /\ UNCHANGED <<cfg, cache, flow, made, consented, ops>>

\* The rest of confirmAction.
ConfirmDone(i) ==
    LET c == call[i] IN
    /\ c.kind = "confirm" /\ c.pc = "answered"
    /\ \/ /\ c.ans = "ok"
          /\ Finish(i, With("created", c.tok, None), chosen, Dropped(panel))
       \/ /\ c.ans = "invalid"
          /\ Finish(i, Draft, chosen, Dropped(panel))
       \/ /\ c.ans = "error"
          /\ Finish(i, FailedConfirmation(phase), chosen, panel)
    /\ UNCHANGED <<cfg, cache, flow, made, consented, ops>>

-----------------------------------------------------------------------------
PanelStep == \/ SendMessage \/ OpenTool \/ CloseTool \/ TypeConfirm \/ SyncExternal
             \/ Dismiss \/ Refetch
             \/ \E g \in Groups : SetGroup(g)
             \/ \E k \in Tokens, g \in Groups : ReplyKey(k, g)

StartStep(i) == Review(i) \/ Acknowledge(i) \/ Confirm(i) \/ AutoConfirm(i)

CallStep(i) == \/ GroupsRead(i) \/ PrepareRead(i) \/ ReviewRead(i) \/ ConfirmRead(i)
               \/ ServePrepare(i) \/ ServeConfirm(i) \/ Lose(i)
               \/ PrepareDone(i) \/ ConfirmDone(i)

ServerStep == \/ \E k \in Tokens : Expire(k)
              \/ \E g \in Groups, n \in Off .. MaxNeed : ChangeGroup(g, n)

Next == PanelStep \/ ServerStep \/ \E i \in Calls : StartStep(i) \/ CallStep(i)

Spec == Init /\ [][Next]_vars

\* Requests are answered or fail, and what was awaited goes on; effects run.
Fairness == /\ \A i \in Calls : WF_vars(CallStep(i))
            /\ WF_vars(SyncExternal)

FairSpec == Spec /\ Fairness

-----------------------------------------------------------------------------
(* Properties.                                                             *)

TypeOK ==
    /\ cfg \in Config /\ cache \in Config
    /\ flow \in [Tokens -> [st : {"none", "open", "used", "expired"},
                            group : Groups \cup {None}, need : 0 .. MaxNeed,
                            src : {"chat", "local", None}, acks : 0 .. MaxNeed,
                            shown : Groups \cup {None}]]
    /\ made \in [Tokens -> Nat]
    /\ panel \in [action : Tokens \cup {None}, auto : Tokens \cup {None},
                  asked : BOOLEAN, open : BOOLEAN]
    /\ phase \in [kind : {"draft", "warning", "preparing", "external", "reviewing",
                          "confirming", "created"},
                  tok : Tokens \cup {None}, src : {"external", "local", None},
                  of : Groups \cup {None}, need : 0 .. MaxNeed, count : 0 .. MaxNeed]
    /\ chosen \in Groups \cup {None}
    /\ ref \in [op : {"none", "prepare", "confirm"}, ext : Tokens \cup {None},
                tried : Tokens \cup {None}]
    /\ call \in [Calls -> [kind : {"none", "prepare", "review", "confirm"},
                           pc : {"none", "groups", "read", "unread", "post", "answered", "done"},
                           tok : Tokens \cup {None}, group : Groups \cup {None},
                           count : 0 .. MaxNeed, src : {"external", "local", None},
                           shown : Groups \cup {None}, here : BOOLEAN,
                           seen : Off .. MaxNeed, ans : {"none", "ok", "error", "invalid"}]]
    /\ consented \subseteq Tokens
    /\ ops \in 0 .. MaxOps

\* A token makes one key, however many tools, lost answers and retries confirm it.
OneKeyPerToken == \A k \in Tokens : made[k] <= 1

\* No key without the user's confirmation of exactly that preparation: neither
\* a newer action nor a tool that is mounted again is confirmed in its place.
NothingUnconfirmed == \A k \in Tokens : made[k] > 0 => k \in consented

\* A tool that shows a spinner has an operation under way that will end it.
SpinnerHasWork ==
    /\ phase.kind = "preparing" =>
          \E i \in Calls : call[i].here /\ call[i].kind = "prepare" /\ call[i].pc \in {"post", "answered"}
    /\ phase.kind = "confirming" =>
          \E i \in Calls : /\ call[i].here /\ call[i].kind = "confirm" /\ call[i].tok = phase.tok
                           /\ call[i].pc \in {"post", "answered"}

\* A created key stays on view until the tool is closed or another preparation
\* arrives: the panel that forgets its action does not take it away.
CommittedStays ==
    [][ phase.kind = "created" /\ panel.open /\ panel'.open /\ phase' # phase
          => phase'.kind = "external" /\ phase'.tok = panel.action /\ phase'.tok # phase.tok ]_vars

\* When a key is made in the form, the user has given as many confirmations as
\* the warning of its group asks for at that moment, also if the warning was
\* changed after the preparation (prepare, confirm).  Whether they were given
\* for this group is another question: see ShownBeforePreparing.
WarningIsConfirmed ==
    [][ \A k \in Tokens : made'[k] # made[k] /\ flow[k].src = "local"
          => cfg[flow[k].group] \in {0, flow[k].acks} ]_vars

\* Every operation of a tool ends, and frees it for the next.
OperationsEnd == ref.op # "none" ~> ref.op = "none"

\* assistant_key_creation_prepare.go: "Show this group warning and collect the
\* exact required confirmations before preparing key creation."
ShownBeforePreparing ==
    \A k \in Tokens : flow[k].src = "local" /\ flow[k].need > 0 => flow[k].shown = flow[k].group
=============================================================================
