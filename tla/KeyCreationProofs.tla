------------------------- MODULE KeyCreationProofs -------------------------
(***************************************************************************)
(* Theorems about KeyCreation for any number of groups, confirmations,     *)
(* preparations, operations and faults: type correctness, one key for a    *)
(* token, no key without a confirmation, no spinner without an operation,  *)
(* and what the steps that make or show a key may do.                      *)
(***************************************************************************)
EXTENDS KeyCreation, TLAPS

FlowType  == [st : {"none", "open", "used", "expired"},
              group : Groups \cup {None}, need : 0 .. MaxNeed,
              src : {"chat", "local", None}, acks : 0 .. MaxNeed,
              shown : Groups \cup {None}]
PanelType == [action : Tokens \cup {None}, auto : Tokens \cup {None},
              asked : BOOLEAN, open : BOOLEAN]
PhaseType == [kind : {"draft", "warning", "preparing", "external", "reviewing",
                      "confirming", "created"},
              tok : Tokens \cup {None}, src : {"external", "local", None},
              of : Groups \cup {None}, need : 0 .. MaxNeed, count : 0 .. MaxNeed]
RefType   == [op : {"none", "prepare", "confirm"}, ext : Tokens \cup {None},
              tried : Tokens \cup {None}]
CallType  == [kind : {"none", "prepare", "review", "confirm"},
              pc : {"none", "groups", "read", "unread", "post", "answered", "done"},
              tok : Tokens \cup {None}, group : Groups \cup {None},
              count : 0 .. MaxNeed, src : {"external", "local", None},
              shown : Groups \cup {None}, here : BOOLEAN,
              seen : Off .. MaxNeed, ans : {"none", "ok", "error", "invalid"}]

Issued(k) == k \in Tokens /\ flow[k].st # "none"

\* A token: what it was prepared for, and that a key uses it up.
FlowInv(k) ==
    /\ flow[k].st = "none" => made[k] = 0
    /\ flow[k].st # "none" => flow[k].group \in Groups
    /\ made[k] <= 1
    /\ made[k] > 0 => flow[k].st = "used" /\ k \in consented
    /\ flow[k].src = "local" => flow[k].need \in {0, flow[k].acks}

\* An operation: it is about an issued token, a confirmation about one the user
\* confirmed; in a mounted tool it holds operationRef.
CallInv(i) ==
    /\ call[i].pc \in {"groups", "read", "unread", "post", "answered"} => call[i].group \in Groups
    /\ call[i].kind \in {"review", "confirm"} => Issued(call[i].tok)
    /\ call[i].kind = "confirm" => call[i].tok \in consented
    /\ call[i].kind = "prepare" /\ call[i].ans = "ok" => Issued(call[i].tok)
    /\ call[i].here => panel.open /\ ref.op # "none" /\ phase.kind # "created"

OneHere == \A i, j \in Calls : call[i].here /\ call[j].here => i = j

\* The mounted tool and the panel around it.
PhaseInv ==
    /\ phase.kind = "warning" => phase.count < phase.need
    /\ phase.kind \in {"external", "reviewing", "confirming", "created"} => Issued(phase.tok)
    /\ phase.kind = "external" => phase.tok = ref.ext
    /\ phase.kind = "created" => panel.action # phase.tok
PanelInv ==
    /\ panel.action # None => Issued(panel.action)
    /\ panel.auto # None => panel.auto \in consented

KeyInv == /\ TypeOK
          /\ \A k \in Tokens : FlowInv(k)
          /\ \A i \in Calls : CallInv(i)
          /\ OneHere /\ PhaseInv /\ PanelInv
          /\ SpinnerHasWork

-----------------------------------------------------------------------------
(* Types.                                                                  *)

\* The type invariant, by the named record sets.
LEMMA Typed ==
    TypeOK <=> /\ cfg \in [Groups -> Off .. MaxNeed] /\ cache \in [Groups -> Off .. MaxNeed]
               /\ flow \in [Tokens -> FlowType] /\ made \in [Tokens -> Nat]
               /\ panel \in PanelType /\ phase \in PhaseType
               /\ chosen \in Groups \cup {None} /\ ref \in RefType
               /\ call \in [Calls -> CallType] /\ consented \subseteq Tokens
               /\ ops \in 0 .. MaxOps
BY DEF TypeOK, Config, FlowType, PanelType, PhaseType, RefType, CallType

\* The same for the next state.
LEMMA TypedNext ==
    TypeOK' <=> /\ cfg' \in [Groups -> Off .. MaxNeed] /\ cache' \in [Groups -> Off .. MaxNeed]
                /\ flow' \in [Tokens -> FlowType] /\ made' \in [Tokens -> Nat]
                /\ panel' \in PanelType /\ phase' \in PhaseType
                /\ chosen' \in Groups \cup {None} /\ ref' \in RefType
                /\ call' \in [Calls -> CallType] /\ consented' \subseteq Tokens
                /\ ops' \in 0 .. MaxOps
BY DEF TypeOK, Config, FlowType, PanelType, PhaseType, RefType, CallType

\* None is neither a token nor a group.
LEMMA NoneApart == None \notin Tokens /\ None \notin Groups /\ Off \in Off .. MaxNeed
                   /\ 0 \in 0 .. MaxNeed /\ 0 .. MaxNeed \subseteq Off .. MaxNeed
BY KeyAssumption DEF Tokens, Groups, Off

\* The values the actions build.
LEMMA ValuesTyped ==
    /\ Draft \in PhaseType /\ Preparing \in PhaseType
    /\ NoFlow \in FlowType /\ NoRef \in RefType
    /\ NoCall \in CallType /\ DoneCall \in CallType
<1>1. Draft \in PhaseType /\ Preparing \in PhaseType
      BY NoneApart DEF Draft, Preparing, PhaseType
<1>2. NoFlow \in FlowType
      BY NoneApart DEF NoFlow, FlowType
<1>3. NoRef \in RefType
      BY DEF NoRef, RefType
<1>4. NoCall \in CallType /\ DoneCall \in CallType
      BY NoneApart DEF NoCall, DoneCall, CallType
<1> QED  BY <1>1, <1>2, <1>3, <1>4

\* Phases that carry a token.
LEMMA WithTyped ==
    ASSUME NEW kind \in {"external", "reviewing", "confirming", "created"}, NEW k \in Tokens,
           NEW src \in {"external", "local", None}
    PROVE  /\ With(kind, k, src) \in PhaseType
           /\ With(kind, k, src).kind = kind /\ With(kind, k, src).tok = k
BY NoneApart DEF With, Draft, PhaseType

\* A warning that has just been shown.
LEMMA WarningTyped ==
    ASSUME NEW g \in Groups, NEW n \in 0 .. MaxNeed
    PROVE  /\ Warning(g, n, 0) \in PhaseType /\ Warning(g, n, 0).kind = "warning"
           /\ Warning(g, n, 0).need = n /\ Warning(g, n, 0).count = 0
BY NoneApart DEF Warning, Draft, PhaseType

\* The counter of operations stays within its bound.
LEMMA BeginTyped == ASSUME TypeOK, Begin  PROVE ops' \in 0 .. MaxOps
BY KeyAssumption DEF TypeOK, Begin

\* Phases and panels the actions derive from the present ones.
LEMMA DerivedTyped ==
    ASSUME NEW p \in PhaseType, NEW q \in PanelType
    PROVE  /\ Cleared(p) \in PhaseType /\ FailedConfirmation(p) \in PhaseType
           /\ Dropped(q) \in PanelType
<1>1. Cleared(p) \in PhaseType
      BY ValuesTyped DEF Cleared
<1>2. FailedConfirmation(p) \in PhaseType
      BY DEF FailedConfirmation, PhaseType
<1>3. Dropped(q) \in PanelType
      BY DEF Dropped, PanelType
<1> QED  BY <1>1, <1>2, <1>3

\* A new operation.
PrepareCall(g, n, of) == [NoCall EXCEPT !.kind = "prepare", !.pc = "groups", !.group = g,
                                        !.count = n, !.shown = of, !.here = TRUE]
ConfirmCall(k, g, src) == [NoCall EXCEPT !.kind = "confirm", !.pc = "groups", !.tok = k,
                                         !.group = g, !.src = src, !.here = TRUE]


-----------------------------------------------------------------------------
(* The inductive invariant.                                                *)

\* What every step keeps: an issued token stays issued.
LEMMA FlowKept ==
    ASSUME KeyInv, UNCHANGED <<flow, made>>, consented \subseteq consented'
    PROVE  /\ \A k \in Tokens : FlowInv(k)'
           /\ \A k : Issued(k) => Issued(k)'
BY DEF KeyInv, FlowInv, Issued

\* Calls that go on as they were, in a tool that is mounted as it was.
LEMMA CallsKept ==
    ASSUME KeyInv, UNCHANGED call, consented \subseteq consented',
           \A k : Issued(k) => Issued(k)',
           \A i \in Calls : call[i].here => panel'.open /\ ref'.op # "none" /\ phase'.kind # "created"
    PROVE  (\A i \in Calls : CallInv(i)') /\ OneHere'
BY DEF KeyInv, CallInv, OneHere

\* No operation is in a mounted tool after the tool is unmounted.
LEMMA UnmountedKept ==
    ASSUME KeyInv, Unmounted, UNCHANGED <<flow, made, consented>>
    PROVE  /\ phase' \in PhaseType /\ chosen' \in Groups \cup {None} /\ ref' \in RefType
           /\ call' \in [Calls -> CallType]
           /\ \A k \in Tokens : FlowInv(k)'
           /\ \A i \in Calls : CallInv(i)'
           /\ OneHere' /\ PhaseInv' /\ SpinnerHasWork'
<1>1. call \in [Calls -> CallType]
      BY Typed DEF KeyInv
<1>2. ASSUME NEW c \in CallType
      PROVE  /\ [c EXCEPT !.here = FALSE] \in CallType
             /\ [c EXCEPT !.here = FALSE].here = FALSE
             /\ \A f \in {"kind", "pc", "tok", "group", "ans"} : [c EXCEPT !.here = FALSE][f] = c[f]
      BY DEF CallType
<1>3. /\ call' \in [Calls -> CallType]
      /\ \A i \in Calls : /\ ~call'[i].here /\ call'[i].kind = call[i].kind
                          /\ call'[i].pc = call[i].pc /\ call'[i].tok = call[i].tok
                          /\ call'[i].group = call[i].group /\ call'[i].ans = call[i].ans
      BY <1>1, <1>2 DEF Unmounted, CallType
<1>4. phase' = Draft /\ phase'.kind = "draft"
      BY DEF Unmounted, Draft
<1>5. phase' \in PhaseType /\ chosen' \in Groups \cup {None} /\ ref' \in RefType
      BY ValuesTyped DEF Unmounted
<1>6. (\A k \in Tokens : FlowInv(k)') /\ \A k : Issued(k) => Issued(k)'
      BY FlowKept
<1>7. (\A i \in Calls : CallInv(i)') /\ OneHere'
      BY <1>3, <1>6 DEF KeyInv, CallInv, OneHere
<1>8. PhaseInv' /\ SpinnerHasWork'
      BY <1>4 DEF PhaseInv, SpinnerHasWork
<1> QED  BY <1>3, <1>5, <1>6, <1>7, <1>8

\* A tool that is mounted has no operation yet.
LEMMA MountedKept ==
    ASSUME KeyInv, ~panel.open, NEW a \in Tokens \cup {None}, NEW g \in Groups \cup {None},
           a # None => Issued(a)', Mounted(a, g), UNCHANGED <<call, consented>>,
           \A k : Issued(k) => Issued(k)'
    PROVE  /\ phase' \in PhaseType /\ chosen' \in Groups \cup {None} /\ ref' \in RefType
           /\ \A i \in Calls : CallInv(i)'
           /\ OneHere' /\ PhaseInv' /\ SpinnerHasWork'
<1>1. \A i \in Calls : ~call[i].here
      BY DEF KeyInv, CallInv
<1>2. ref' \in RefType /\ ref'.ext = a
      BY DEF Mounted, RefType, NoRef
<1>3. phase' \in PhaseType /\ phase'.kind \in {"draft", "external"}
      /\ (phase'.kind = "external" => a # None /\ phase'.tok = a)
  <2>1. CASE a = None
        BY <2>1, ValuesTyped DEF Mounted, Draft
  <2>2. CASE a # None
        BY <2>2, WithTyped DEF Mounted
  <2> QED  BY <2>1, <2>2
<1>4. (\A i \in Calls : CallInv(i)') /\ OneHere'
      BY <1>1, CallsKept
<1>5. PhaseInv' /\ SpinnerHasWork'
      BY <1>2, <1>3 DEF PhaseInv, SpinnerHasWork
<1> QED  BY <1>2, <1>3, <1>4, <1>5 DEF Mounted

\* The steps of the panel and of the effects.
LEMMA PanelKept ==
    ASSUME KeyInv, PanelStep
    PROVE  KeyInv'
<1>a. /\ cfg \in [Groups -> Off .. MaxNeed] /\ cache \in [Groups -> Off .. MaxNeed]
      /\ flow \in [Tokens -> FlowType] /\ made \in [Tokens -> Nat]
      /\ panel \in PanelType /\ phase \in PhaseType
      /\ chosen \in Groups \cup {None} /\ ref \in RefType
      /\ call \in [Calls -> CallType] /\ consented \subseteq Tokens
      /\ ops \in 0 .. MaxOps
      BY Typed DEF KeyInv
<1>b. panel.action \in Tokens \cup {None} /\ Dropped(panel) \in PanelType
      /\ Dropped(panel).action = None /\ Dropped(panel).auto = None
      /\ Dropped(panel).open = panel.open
      BY <1>a, DerivedTyped DEF PanelType, Dropped
<1>c. PhaseInv /\ PanelInv /\ SpinnerHasWork /\ \A i \in Calls : CallInv(i)
      BY DEF KeyInv
<1>d. panel.action # None => flow[panel.action].group \in Groups
      BY <1>c DEF PanelInv, KeyInv, FlowInv, Issued
<1>1. CASE SendMessage
  <2>1. panel' \in PanelType /\ panel'.action = None /\ panel'.auto = None
        BY <1>1, <1>b DEF SendMessage, PanelType
  <2>2. UNCHANGED <<cfg, cache, flow, made, consented>> /\ Unmounted /\ ops' \in 0 .. MaxOps
        BY <1>1, BeginTyped DEF SendMessage, KeyInv
  <2>3. TypeOK'
        BY <1>a, <2>1, <2>2, UnmountedKept, TypedNext
  <2> QED  BY <2>1, <2>2, <2>3, UnmountedKept DEF KeyInv, PanelInv
<1>2. CASE OpenTool
  <2> DEFINE g == IF panel.action = None THEN None ELSE flow[panel.action].group
  <2>1. panel' \in PanelType /\ panel'.action = panel.action /\ panel'.auto = panel.auto
        BY <1>2, <1>a DEF OpenTool, PanelType
  <2>2. /\ UNCHANGED <<cfg, cache, flow, made, call, consented, ops>> /\ ~panel.open
        /\ g \in Groups \cup {None} /\ Mounted(panel.action, g)
        BY <1>2, <1>d DEF OpenTool
  <2>3. (\A k \in Tokens : FlowInv(k)') /\ \A k : Issued(k) => Issued(k)'
        BY <2>2, FlowKept
  <2>4. PICK a \in Tokens \cup {None} : a = panel.action
        BY <1>b
  <2>8. a # None => Issued(a)'
        BY <1>c, <2>3, <2>4 DEF PanelInv
  <2>5. /\ phase' \in PhaseType /\ chosen' \in Groups \cup {None} /\ ref' \in RefType
        /\ \A i \in Calls : CallInv(i)'
        /\ OneHere' /\ PhaseInv' /\ SpinnerHasWork'
        BY <2>2, <2>3, <2>4, <2>8, MountedKept
  <2>6. TypeOK'
        BY <1>a, <2>1, <2>2, <2>5, TypedNext
  <2>7. PanelInv'
        BY <1>c, <2>1, <2>2, <2>4, <2>8 DEF PanelInv
  <2> QED  BY <2>3, <2>5, <2>6, <2>7 DEF KeyInv
<1>3. CASE CloseTool
  <2>1. /\ panel' \in PanelType /\ panel'.action \in {panel.action, None}
        /\ panel'.auto \in {panel.auto, None}
        BY <1>3, <1>a, <1>b DEF CloseTool, PanelType
  <2>2. UNCHANGED <<cfg, cache, flow, made, consented>> /\ Unmounted /\ ops' \in 0 .. MaxOps
        BY <1>3, BeginTyped DEF CloseTool, KeyInv
  <2>3. TypeOK'
        BY <1>a, <2>1, <2>2, UnmountedKept, TypedNext
  <2>4. PanelInv'
        BY <1>c, <2>1, <2>2 DEF PanelInv, Issued
  <2> QED  BY <2>2, <2>3, <2>4, UnmountedKept DEF KeyInv
<1>4. CASE TypeConfirm
  <2>1. /\ panel' \in PanelType /\ panel'.action = panel.action /\ panel'.auto = panel.action
        /\ panel'.open
        BY <1>4, <1>a DEF TypeConfirm, PanelType
  <2>2. /\ UNCHANGED <<cfg, cache, flow, made, call, ops>> /\ panel.action \in Tokens
        /\ consented' = consented \cup {panel.action}
        BY <1>4, <1>b DEF TypeConfirm
  <2>3. (\A k \in Tokens : FlowInv(k)') /\ \A k : Issued(k) => Issued(k)'
        BY <2>2, FlowKept
  <2>4. PanelInv'
        BY <1>c, <2>1, <2>2, <2>3 DEF PanelInv
  <2>5. /\ phase' \in PhaseType /\ chosen' \in Groups \cup {None} /\ ref' \in RefType
        /\ \A i \in Calls : CallInv(i)'
        /\ OneHere' /\ PhaseInv' /\ SpinnerHasWork'
    <3>1. CASE panel.open
      <4>1. UNCHANGED <<phase, chosen, ref>>
            BY <1>4, <3>1 DEF TypeConfirm
      <4>2. \A i \in Calls : call[i].here => panel'.open /\ ref'.op # "none" /\ phase'.kind # "created"
            BY <1>c, <2>1, <4>1 DEF CallInv
      <4>3. (\A i \in Calls : CallInv(i)') /\ OneHere'
            BY <2>2, <2>3, <4>2, CallsKept
      <4>4. PhaseInv' /\ SpinnerHasWork'
            BY <1>c, <2>1, <2>2, <2>3, <4>1 DEF PhaseInv, SpinnerHasWork
      <4> QED  BY <1>a, <4>1, <4>3, <4>4
    <3>2. CASE ~panel.open
      <4>1. Mounted(panel.action, flow[panel.action].group) /\ flow[panel.action].group \in Groups
            /\ Issued(panel.action)'
            BY <1>4, <1>c, <1>d, <2>2, <2>3, <3>2, NoneApart DEF TypeConfirm, PanelInv
      <4>2. /\ phase' \in PhaseType /\ phase' = With("external", panel.action, None)
            /\ chosen' \in Groups /\ ref' \in RefType /\ ref'.ext = panel.action
            BY <2>2, <4>1, WithTyped, NoneApart DEF Mounted, NoRef, RefType
      <4>3. phase'.kind = "external" /\ phase'.tok = panel.action
            BY <2>2, <4>2, WithTyped
      <4>4. \A i \in Calls : ~call[i].here
            BY <1>c, <3>2 DEF CallInv
      <4>5. (\A i \in Calls : CallInv(i)') /\ OneHere'
            BY <2>2, <2>3, <4>4, CallsKept
      <4>6. PhaseInv' /\ SpinnerHasWork'
            BY <2>1, <4>1, <4>2, <4>3 DEF PhaseInv, SpinnerHasWork, Issued
      <4> QED  BY <4>2, <4>5, <4>6
    <3> QED  BY <3>1, <3>2
  <2>6. TypeOK'
        BY <1>a, <2>1, <2>2, <2>5, TypedNext
  <2> QED  BY <2>3, <2>4, <2>5, <2>6 DEF KeyInv
<1>5. CASE SyncExternal
  <2>1. UNCHANGED <<cfg, cache, flow, made, panel, call, consented, ops>>
        BY <1>5 DEF SyncExternal
  <2>2. (\A k \in Tokens : FlowInv(k)') /\ \A k : Issued(k) => Issued(k)'
        BY <2>1, FlowKept
  <2>3. ref' \in RefType /\ ref'.op = ref.op /\ ref'.ext = panel.action
        BY <1>5, <1>a, <1>b DEF SyncExternal, RefType
  <2>4. /\ phase' \in PhaseType /\ chosen' \in Groups \cup {None}
        /\ \/ phase'.kind = "external" /\ phase'.tok = panel.action /\ panel.action # None
           \/ phase' = phase /\ phase.kind # "external" /\ panel.action = None
           \/ phase'.kind = "draft"
    <3>1. CASE panel.action # None
          BY <1>5, <1>b, <1>d, <3>1, WithTyped DEF SyncExternal
    <3>2. CASE panel.action = None
      <4>1. phase' = Cleared(phase) /\ UNCHANGED chosen /\ Draft.kind = "draft"
            BY <1>5, <3>2 DEF SyncExternal, Draft
      <4> QED  BY <1>a, <3>2, <4>1, DerivedTyped DEF Cleared
    <3> QED  BY <3>1, <3>2
  <2>5. (\A i \in Calls : CallInv(i)') /\ OneHere'
    <3>1. \A i \in Calls : call[i].here => panel'.open /\ ref'.op # "none" /\ phase'.kind # "created"
          BY <1>c, <2>1, <2>3, <2>4 DEF CallInv
    <3> QED  BY <2>1, <2>2, <3>1, CallsKept
  <2>6. PhaseInv' /\ PanelInv' /\ SpinnerHasWork'
        BY <1>c, <2>1, <2>2, <2>3, <2>4, NoneApart DEF PhaseInv, PanelInv, SpinnerHasWork, Issued
  <2>7. TypeOK'
        BY <1>a, <2>1, <2>3, <2>4, TypedNext
  <2> QED  BY <2>2, <2>5, <2>6, <2>7 DEF KeyInv
<1>6. CASE Dismiss
  <2>1. UNCHANGED <<cfg, cache, flow, made, chosen, ref, call, consented>> /\ ops' \in 0 .. MaxOps
        BY <1>6, BeginTyped DEF Dismiss, KeyInv
  <2>2. (\A k \in Tokens : FlowInv(k)') /\ \A k : Issued(k) => Issued(k)'
        BY <2>1, FlowKept
  <2>3. /\ phase' = Draft /\ phase' \in PhaseType /\ phase'.kind = "draft"
        /\ panel' \in {panel, Dropped(panel)} /\ panel' \in PanelType
        BY <1>6, <1>a, <1>b, ValuesTyped DEF Dismiss, Draft
  <2>4. (\A i \in Calls : CallInv(i)') /\ OneHere'
    <3>1. \A i \in Calls : call[i].here => panel'.open /\ ref'.op # "none" /\ phase'.kind # "created"
          BY <1>b, <1>c, <2>1, <2>3 DEF CallInv
    <3> QED  BY <2>1, <2>2, <3>1, CallsKept
  <2>5. PhaseInv' /\ PanelInv' /\ SpinnerHasWork'
        BY <1>b, <1>c, <2>1, <2>2, <2>3 DEF PhaseInv, PanelInv, SpinnerHasWork
  <2>6. TypeOK'
        BY <1>a, <2>1, <2>3, TypedNext
  <2> QED  BY <2>2, <2>4, <2>5, <2>6 DEF KeyInv
<1>7. CASE Refetch \/ \E g \in Groups : SetGroup(g)
  <2>1. /\ UNCHANGED <<cfg, flow, made, panel, phase, ref, call, consented, ops>>
        /\ cache' \in [Groups -> Off .. MaxNeed] /\ chosen' \in Groups \cup {None}
        BY <1>7, <1>a DEF Refetch, SetGroup
  <2>2. (\A k \in Tokens : FlowInv(k)') /\ \A k : Issued(k) => Issued(k)'
        BY <2>1, FlowKept
  <2>3. (\A i \in Calls : CallInv(i)') /\ OneHere'
        BY <1>c, <2>1, <2>2, CallsKept DEF CallInv
  <2>4. PhaseInv' /\ PanelInv' /\ SpinnerHasWork'
        BY <1>c, <2>1, <2>2 DEF PhaseInv, PanelInv, SpinnerHasWork
  <2>5. TypeOK'
        BY <1>a, <2>1, TypedNext
  <2> QED  BY <2>2, <2>3, <2>4, <2>5 DEF KeyInv
<1>8. ASSUME NEW k \in Tokens, NEW g \in Groups, ReplyKey(k, g)
      PROVE  KeyInv'
  <2> DEFINE f == [NoFlow EXCEPT !.st = "open", !.group = g, !.need = cfg[g], !.src = "chat"]
  <2>1. UNCHANGED <<cfg, cache, made, call, consented, ops>>
        BY <1>8 DEF ReplyKey
  <2>2. flow' = [flow EXCEPT ![k] = f] /\ flow[k].st = "none" /\ cfg[g] # Off
        BY <1>8 DEF ReplyKey
  <2>3. cfg[g] \in 0 .. MaxNeed
        BY <1>a, <2>2, KeyAssumption DEF Off
  <2>4. f \in FlowType /\ f.st = "open" /\ f.group = g /\ f.src = "chat"
        BY <2>3, NoneApart DEF NoFlow, FlowType
  <2>5. flow' \in [Tokens -> FlowType] /\ flow'[k] = f /\ \A j \in Tokens : j # k => flow'[j] = flow[j]
        BY <1>a, <2>2, <2>4
  <2>6. (\A j : Issued(j) => Issued(j)') /\ Issued(k)'
        BY <2>2, <2>4, <2>5 DEF Issued
  <2>7. \A j \in Tokens : FlowInv(j)'
        BY <2>1, <2>2, <2>4, <2>5 DEF KeyInv, FlowInv
  <2>8. panel' \in PanelType /\ panel'.action = k /\ panel'.auto = panel.auto /\ panel'.open
        BY <1>8, <1>a DEF ReplyKey, PanelType
  <2>9. PanelInv'
        BY <1>c, <2>1, <2>6, <2>8 DEF PanelInv
  <2>10. /\ phase' \in PhaseType /\ chosen' \in Groups \cup {None} /\ ref' \in RefType
         /\ \A i \in Calls : CallInv(i)'
         /\ OneHere' /\ PhaseInv' /\ SpinnerHasWork'
    <3>1. CASE panel.open
      <4>1. UNCHANGED <<phase, chosen, ref>>
            BY <1>8, <3>1 DEF ReplyKey
      <4>2. \A i \in Calls : call[i].here => panel'.open /\ ref'.op # "none" /\ phase'.kind # "created"
            BY <1>c, <2>8, <4>1 DEF CallInv
      <4>3. (\A i \in Calls : CallInv(i)') /\ OneHere'
            BY <2>1, <2>6, <4>2, CallsKept
      <4>4. phase.kind = "created" => phase.tok # k
            BY <1>c, <2>2 DEF PhaseInv, Issued
      <4>5. PhaseInv' /\ SpinnerHasWork'
            BY <1>c, <2>1, <2>6, <2>8, <4>1, <4>4 DEF PhaseInv, SpinnerHasWork
      <4> QED  BY <1>a, <4>1, <4>3, <4>5
    <3>2. CASE ~panel.open
      <4>1. Mounted(k, g)
            BY <1>8, <3>2 DEF ReplyKey
      <4> QED  BY <2>1, <2>6, <3>2, <4>1, MountedKept
    <3> QED  BY <3>1, <3>2
  <2>11. TypeOK'
         BY <1>a, <2>1, <2>5, <2>8, <2>10, TypedNext
  <2> QED  BY <2>7, <2>9, <2>10, <2>11 DEF KeyInv
<1> QED  BY <1>1, <1>2, <1>3, <1>4, <1>5, <1>6, <1>7, <1>8 DEF PanelStep

\* An operation is started: no other is in the mounted tool, which shows no spinner.
LEMMA StartKept ==
    ASSUME KeyInv, NEW i \in Calls, NEW c \in CallType, Start(i, c), panel.open,
           c.pc = "groups", c.group \in Groups, c.ans = "none",
           c.kind \in {"review", "confirm"} => Issued(c.tok),
           c.kind = "confirm" => c.tok \in consented',
           ref' \in RefType, ref'.op # "none", ref'.ext = ref.ext,
           phase.kind \in {"draft", "warning", "external", "reviewing"},
           UNCHANGED <<cfg, cache, flow, made, panel, phase, chosen, ops>>,
           consented \subseteq consented', consented' \subseteq Tokens
    PROVE  KeyInv'
<1>1. \A j \in Calls : ~call[j].here
      BY DEF KeyInv, CallInv, Start
<1>2. /\ call' \in [Calls -> CallType] /\ call'[i] = c
      /\ \A j \in Calls : j # i => call'[j] = call[j]
      BY Typed DEF KeyInv, Start
<1>3. (\A k \in Tokens : FlowInv(k)') /\ \A k : Issued(k) => Issued(k)'
      BY FlowKept
<1>4. \A j \in Calls : CallInv(j)'
  <2>1. CallInv(i)'
        BY <1>2, <1>3 DEF CallInv
  <2>2. ASSUME NEW j \in Calls, j # i  PROVE CallInv(j)'
        BY <1>1, <1>2, <1>3, <2>2 DEF KeyInv, CallInv
  <2> QED  BY <2>1, <2>2
<1>5. OneHere'
      BY <1>1, <1>2 DEF OneHere
<1>6. PhaseInv' /\ PanelInv' /\ SpinnerHasWork'
      BY <1>3 DEF KeyInv, PhaseInv, PanelInv, SpinnerHasWork
<1>7. TypeOK'
      BY <1>2, Typed, TypedNext DEF KeyInv
<1> QED  BY <1>3, <1>4, <1>5, <1>6, <1>7 DEF KeyInv

\* The steps that start an operation, and an acknowledgement that does not.
LEMMA StartStepKept ==
    ASSUME KeyInv, NEW i \in Calls, StartStep(i)
    PROVE  KeyInv'
<1>a. /\ flow \in [Tokens -> FlowType] /\ panel \in PanelType /\ phase \in PhaseType
      /\ chosen \in Groups \cup {None} /\ ref \in RefType /\ consented \subseteq Tokens
      /\ call \in [Calls -> CallType]
      BY Typed DEF KeyInv
<1>b. PhaseInv /\ PanelInv /\ SpinnerHasWork /\ \A j \in Calls : CallInv(j)
      BY DEF KeyInv
<1>c. phase.kind \in {"external", "reviewing"} =>
         phase.tok \in Tokens /\ Issued(phase.tok) /\ flow[phase.tok].group \in Groups
      BY <1>b DEF PhaseInv, KeyInv, FlowInv, Issued
<1>d. \A o \in {"prepare", "confirm"} :
         /\ [ref EXCEPT !.op = o] \in RefType /\ [ref EXCEPT !.op = o].op # "none"
         /\ [ref EXCEPT !.op = o].ext = ref.ext
      BY <1>a DEF RefType
<1>p. ASSUME NEW g \in Groups, NEW n \in 0 .. MaxNeed, NEW of \in Groups \cup {None},
             Prepare(i, g, n, of), panel.open,
             phase.kind \in {"draft", "warning"},
             UNCHANGED <<cfg, cache, flow, made, panel, phase, chosen, consented, ops>>
      PROVE  KeyInv'
  <2>1. /\ PrepareCall(g, n, of) \in CallType /\ PrepareCall(g, n, of).pc = "groups"
        /\ PrepareCall(g, n, of).group = g /\ PrepareCall(g, n, of).ans = "none"
        /\ PrepareCall(g, n, of).kind = "prepare"
        BY NoneApart DEF PrepareCall, NoCall, CallType
  <2>2. Start(i, PrepareCall(g, n, of)) /\ ref' = [ref EXCEPT !.op = "prepare"]
        BY <1>p DEF Prepare, PrepareCall
  <2>3. ref' \in RefType /\ ref'.op # "none" /\ ref'.ext = ref.ext
        BY <1>d, <2>2
  <2> QED  BY <1>a, <1>p, <2>1, <2>2, <2>3, StartKept
<1>t. ASSUME NEW src \in {"external", "local", None},
             phase.kind \in {"external", "reviewing"}, panel.open,
             Start(i, ConfirmCall(phase.tok, flow[phase.tok].group, src)),
             phase.tok \in consented',
             ref' \in RefType, ref'.op # "none", ref'.ext = ref.ext,
             UNCHANGED <<cfg, cache, flow, made, panel, phase, chosen, ops>>,
             consented \subseteq consented', consented' \subseteq Tokens
      PROVE  KeyInv'
  <2> DEFINE c == ConfirmCall(phase.tok, flow[phase.tok].group, src)
  <2>1. /\ c \in CallType /\ c.pc = "groups" /\ c.group \in Groups /\ c.ans = "none"
        /\ c.kind = "confirm" /\ c.tok = phase.tok
        BY <1>c, <1>t, NoneApart DEF ConfirmCall, NoCall, CallType
  <2> HIDE DEF c
  <2>2. Start(i, c)
        BY <1>t DEF c
  <2> QED  BY <1>c, <1>t, <2>1, <2>2, StartKept
<1>1. CASE Review(i)
  <2>1. CASE phase.kind = "draft" /\ \E g \in Groups : Selected(g) /\ Prepare(i, g, 0, None)
        BY <1>1, <1>p, <2>1, NoneApart DEF Review
  <2>2. CASE /\ phase.kind = "external"
             /\ Start(i, [NoCall EXCEPT !.kind = "review", !.pc = "groups",
                          !.tok = phase.tok, !.group = flow[phase.tok].group, !.here = TRUE])
             /\ ref' = [ref EXCEPT !.op = "prepare"]
    <3> DEFINE c == [NoCall EXCEPT !.kind = "review", !.pc = "groups", !.tok = phase.tok,
                                   !.group = flow[phase.tok].group, !.here = TRUE]
    <3>1. /\ c \in CallType /\ c.pc = "groups" /\ c.group \in Groups /\ c.ans = "none"
          /\ c.kind = "review" /\ c.tok = phase.tok /\ Start(i, c)
          BY <1>c, <2>2, NoneApart DEF NoCall, CallType
    <3>2. ref' \in RefType /\ ref'.op # "none" /\ ref'.ext = ref.ext
          BY <1>d, <2>2
    <3> HIDE DEF c
    <3> QED  BY <1>1, <1>a, <1>c, <2>2, <3>1, <3>2, StartKept DEF Review
  <2> QED  BY <1>1, <2>1, <2>2 DEF Review
<1>2. CASE Acknowledge(i)
  <2>0. phase.count \in 0 .. MaxNeed /\ phase.need \in 0 .. MaxNeed /\ phase.count < phase.need
        /\ phase.of \in Groups \cup {None}
        BY <1>2, <1>a, <1>b DEF Acknowledge, PhaseInv, PhaseType
  <2>1. CASE /\ phase.count + 1 < phase.need
             /\ phase' = [phase EXCEPT !.count = @ + 1]
             /\ UNCHANGED <<ref, call>>
    <3>1. phase' \in PhaseType /\ phase'.kind = "warning" /\ phase'.count < phase'.need
          BY <1>2, <1>a, <2>0, <2>1, KeyAssumption DEF Acknowledge, PhaseType
    <3>2. UNCHANGED <<cfg, cache, flow, made, panel, chosen, ref, call, consented, ops>>
          BY <1>2, <2>1 DEF Acknowledge
    <3>3. (\A k \in Tokens : FlowInv(k)') /\ \A k : Issued(k) => Issued(k)'
          BY <3>2, FlowKept
    <3>4. (\A j \in Calls : CallInv(j)') /\ OneHere'
      <4>1. \A j \in Calls : call[j].here => panel'.open /\ ref'.op # "none" /\ phase'.kind # "created"
            BY <1>b, <3>1, <3>2 DEF CallInv
      <4> QED  BY <3>2, <3>3, <4>1, CallsKept
    <3>5. PhaseInv' /\ PanelInv' /\ SpinnerHasWork'
          BY <1>b, <3>1, <3>2, <3>3 DEF PhaseInv, PanelInv, SpinnerHasWork
    <3>6. TypeOK'
          BY <3>1, <3>2, Typed, TypedNext DEF KeyInv
    <3> QED  BY <3>3, <3>4, <3>5, <3>6 DEF KeyInv
  <2>2. CASE /\ phase.count + 1 >= phase.need
             /\ \E g \in Groups : Selected(g) /\ Prepare(i, g, phase.count + 1, phase.of)
             /\ UNCHANGED phase
    <3>1. phase.count + 1 \in 0 .. MaxNeed
          BY <2>0, KeyAssumption
    <3> QED  BY <1>2, <1>p, <2>0, <2>2, <3>1 DEF Acknowledge
  <2> QED  BY <1>2, <2>1, <2>2 DEF Acknowledge
<1>3. CASE Confirm(i)
  <2>1. Start(i, ConfirmCall(phase.tok, flow[phase.tok].group, phase.src))
        BY <1>3 DEF Confirm, ConfirmAction, ConfirmCall
  <2>2. ref' \in RefType /\ ref'.op # "none" /\ ref'.ext = ref.ext
        BY <1>3, <1>d DEF Confirm
  <2>3. phase.src \in {"external", "local", None} /\ phase.kind = "reviewing"
        BY <1>3, <1>a DEF Confirm, PhaseType
  <2>4. consented' = consented \cup {phase.tok} /\ consented' \subseteq Tokens
        BY <1>3, <1>a, <1>c, <2>3 DEF Confirm
  <2> QED  BY <1>3, <1>t, <2>1, <2>2, <2>3, <2>4 DEF Confirm
<1>4. CASE AutoConfirm(i)
  <2>0. phase.kind = "external" /\ panel.open /\ phase.tok \in consented
    <3>1. phase.kind = "external" /\ panel.open /\ panel.auto = panel.action
          /\ panel.auto # None /\ panel.action = ref.ext
          BY <1>4 DEF AutoConfirm, AutoDue
    <3> QED  BY <1>b, <3>1 DEF PhaseInv, PanelInv
  <2>1. CASE /\ ConfirmAction(i, phase.tok, "external")
             /\ ref' = [ref EXCEPT !.op = "confirm", !.tried = phase.tok]
    <3>1. Start(i, ConfirmCall(phase.tok, flow[phase.tok].group, "external"))
          BY <2>1 DEF ConfirmAction, ConfirmCall
    <3>2. ref' \in RefType /\ ref'.op # "none" /\ ref'.ext = ref.ext
          BY <1>a, <1>c, <2>0, <2>1 DEF RefType
    <3> QED  BY <1>4, <1>a, <1>t, <2>0, <3>1, <3>2 DEF AutoConfirm
  <2>2. CASE /\ ref.op # "none"
             /\ ref' = [ref EXCEPT !.tried = phase.tok]
             /\ UNCHANGED call
    <3>1. ref' \in RefType /\ ref'.op = ref.op /\ ref'.ext = ref.ext
          BY <1>a, <1>c, <2>0, <2>2 DEF RefType
    <3>2. UNCHANGED <<cfg, cache, flow, made, panel, phase, chosen, call, consented, ops>>
          BY <1>4, <2>2 DEF AutoConfirm
    <3>3. (\A k \in Tokens : FlowInv(k)') /\ \A k : Issued(k) => Issued(k)'
          BY <3>2, FlowKept
    <3>4. (\A j \in Calls : CallInv(j)') /\ OneHere'
          BY <1>b, <3>1, <3>2, <3>3, CallsKept DEF CallInv
    <3>5. PhaseInv' /\ PanelInv' /\ SpinnerHasWork'
          BY <1>b, <3>1, <3>2, <3>3 DEF PhaseInv, PanelInv, SpinnerHasWork
    <3>6. TypeOK'
          BY <3>1, <3>2, Typed, TypedNext DEF KeyInv
    <3> QED  BY <3>3, <3>4, <3>5, <3>6 DEF KeyInv
  <2> QED  BY <1>4, <2>1, <2>2 DEF AutoConfirm
<1> QED  BY <1>1, <1>2, <1>3, <1>4 DEF StartStep

\* An operation goes on and the tool does not change.
LEMMA AdvancedKept ==
    ASSUME KeyInv, NEW i \in Calls, NEW c \in CallType, call' = [call EXCEPT ![i] = c],
           call[i].pc \in {"groups", "post", "answered"},
           c.kind = call[i].kind, c.here = call[i].here, c.group = call[i].group,
           c.kind \in {"review", "confirm"} => c.tok = call[i].tok,
           c.kind = "prepare" /\ c.ans = "ok" => Issued(c.tok)',
           call[i].pc \in {"post", "answered"} => c.pc = "answered",
           UNCHANGED <<cfg, panel, phase, chosen, ref, consented>>,
           \A k : Issued(k) => Issued(k)',
           \A k \in Tokens : FlowInv(k)',
           flow' \in [Tokens -> FlowType], made' \in [Tokens -> Nat],
           cache' \in [Groups -> Off .. MaxNeed], ops' \in 0 .. MaxOps
    PROVE  KeyInv'
<1>1. /\ call' \in [Calls -> CallType] /\ call'[i] = c
      /\ \A j \in Calls : j # i => call'[j] = call[j]
      BY Typed DEF KeyInv
<1>2. \A j \in Calls : CallInv(j)'
  <2>1. CallInv(i)'
        BY <1>1 DEF KeyInv, CallInv
  <2>2. ASSUME NEW j \in Calls, j # i  PROVE CallInv(j)'
        BY <1>1, <2>2 DEF KeyInv, CallInv
  <2> QED  BY <2>1, <2>2
<1>3. OneHere'
      BY <1>1 DEF KeyInv, OneHere
<1>4. PhaseInv' /\ PanelInv'
      BY DEF KeyInv, PhaseInv, PanelInv
<1>5. SpinnerHasWork'
  <2>1. SpinnerHasWork /\ UNCHANGED phase
        BY DEF KeyInv
  <2>2. phase.kind = "confirming" => phase.tok \in Tokens
        BY DEF KeyInv, PhaseInv, Issued
  <2> QED  BY <1>1, <2>1, <2>2 DEF SpinnerHasWork
<1>6. TypeOK'
      BY <1>1, Typed, TypedNext DEF KeyInv
<1> QED  BY <1>2, <1>3, <1>4, <1>5, <1>6 DEF KeyInv

\* The last step of an operation.
LEMMA FinishKept ==
    ASSUME KeyInv, NEW i \in Calls, NEW p \in PhaseType, NEW g \in Groups \cup {None},
           NEW pn \in {panel, Dropped(panel)}, Finish(i, p, g, pn),
           UNCHANGED <<cfg, cache, flow, made, consented, ops>>,
           call[i].here => /\ p.kind \notin {"preparing", "confirming"}
                           /\ p.kind = "warning" => p.count < p.need
                           /\ p.kind \in {"external", "reviewing", "created"} => Issued(p.tok)
                           /\ p.kind = "external" => p.tok = ref.ext
                           /\ p.kind = "created" => pn.action # p.tok
    PROVE  KeyInv'
<1>a. panel \in PanelType /\ phase \in PhaseType /\ ref \in RefType
      /\ call \in [Calls -> CallType] /\ chosen \in Groups \cup {None}
      BY Typed DEF KeyInv
<1>1. (\A k \in Tokens : FlowInv(k)') /\ \A k : Issued(k) => Issued(k)'
      BY FlowKept
<1>2. /\ panel' \in PanelType /\ panel'.open = panel.open
      /\ panel'.action \in {panel.action, None} /\ panel'.auto \in {panel.auto, None}
      BY <1>a, DerivedTyped DEF Finish, Dropped, PanelType
<1>3. DoneCall \in CallType /\ ~DoneCall.here /\ DoneCall.pc = "done" /\ DoneCall.kind = "none"
      BY ValuesTyped DEF DoneCall, NoCall
<1>4. /\ call' \in [Calls -> CallType] /\ call'[i] = DoneCall
      /\ \A j \in Calls : j # i => call'[j] = call[j]
      BY <1>a, <1>3 DEF Finish
<1>5. PanelInv'
      BY <1>1, <1>2 DEF KeyInv, PanelInv, Issued
<1>6. OneHere'
      BY <1>3, <1>4 DEF KeyInv, OneHere
<1>7. CallInv(i)'
      BY <1>3, <1>4 DEF CallInv
<1>8. CASE call[i].here
  <2>1. phase' = p /\ chosen' = g /\ ref' = [ref EXCEPT !.op = "none"]
        BY <1>8 DEF Finish, Dispatch
  <2>2. ref' \in RefType /\ ref'.ext = ref.ext
        BY <1>a, <2>1 DEF RefType
  <2>3. \A j \in Calls : ~call'[j].here
        BY <1>3, <1>4, <1>8 DEF KeyInv, OneHere
  <2>4. ASSUME NEW j \in Calls, j # i  PROVE CallInv(j)'
        BY <1>1, <1>4, <2>3, <2>4 DEF KeyInv, CallInv
  <2>5. PhaseInv' /\ SpinnerHasWork'
        BY <1>1, <1>8, <2>1, <2>2 DEF PhaseInv, SpinnerHasWork, Issued, Finish
  <2>6. TypeOK'
        BY <1>2, <1>4, <2>1, <2>2, Typed, TypedNext DEF KeyInv
  <2> QED  BY <1>1, <1>5, <1>6, <1>7, <2>4, <2>5, <2>6 DEF KeyInv
<1>9. CASE ~call[i].here
  <2>1. UNCHANGED <<phase, chosen, ref>>
        BY <1>9 DEF Finish, Dispatch
  <2>2. ASSUME NEW j \in Calls, j # i  PROVE CallInv(j)'
        BY <1>1, <1>2, <1>4, <2>1, <2>2 DEF KeyInv, CallInv
  <2>3. PhaseInv'
        BY <1>1, <1>2, <2>1, NoneApart DEF KeyInv, PhaseInv, Issued
  <2>4. SpinnerHasWork'
        BY <1>4, <1>9, <2>1 DEF KeyInv, SpinnerHasWork
  <2>5. TypeOK'
        BY <1>2, <1>4, <2>1, Typed, TypedNext DEF KeyInv
  <2> QED  BY <1>1, <1>5, <1>6, <1>7, <2>2, <2>3, <2>4, <2>5 DEF KeyInv
<1> QED  BY <1>8, <1>9

\* A request is about to be sent; a mounted tool shows the spinner.
LEMMA PostKept ==
    ASSUME KeyInv, NEW i \in Calls, call[i].pc = "read", NEW p \in PhaseType,
           NEW g \in Groups \cup {None}, Post(i, p, g),
           UNCHANGED <<cfg, cache, flow, made, consented, ops>>,
           call[i].here => \/ p.kind = "preparing" /\ call[i].kind = "prepare"
                           \/ /\ p.kind = "confirming" /\ call[i].kind = "confirm"
                              /\ p.tok = call[i].tok
    PROVE  KeyInv'
<1>a. phase \in PhaseType /\ call \in [Calls -> CallType] /\ chosen \in Groups \cup {None}
      BY Typed DEF KeyInv
<1>1. (\A k \in Tokens : FlowInv(k)') /\ \A k : Issued(k) => Issued(k)'
      BY FlowKept
<1>2. /\ call' \in [Calls -> CallType] /\ call'[i].pc = "post"
      /\ call'[i].kind = call[i].kind /\ call'[i].tok = call[i].tok
      /\ call'[i].group = call[i].group /\ call'[i].here = call[i].here
      /\ call'[i].ans = call[i].ans
      /\ \A j \in Calls : j # i => call'[j] = call[j]
  <2>1. ASSUME NEW c \in CallType
        PROVE  /\ [c EXCEPT !.pc = "post"] \in CallType
               /\ [c EXCEPT !.pc = "post"].pc = "post"
               /\ \A f \in {"kind", "tok", "group", "here", "ans"} : [c EXCEPT !.pc = "post"][f] = c[f]
        BY DEF CallType
  <2>2. call' = [call EXCEPT ![i] = [call[i] EXCEPT !.pc = "post"]]
        BY <1>a DEF Post
  <2> QED  BY <1>a, <2>1, <2>2 DEF CallType
<1>3. UNCHANGED <<ref, panel>>
      BY DEF Post
<1>4. OneHere'
      BY <1>2 DEF KeyInv, OneHere
<1>5. PanelInv'
      BY <1>1, <1>3 DEF KeyInv, PanelInv
<1>6. /\ phase' \in PhaseType /\ chosen' \in Groups \cup {None}
      /\ IF call[i].here THEN phase' = p ELSE phase' = phase
      BY <1>a DEF Post, Dispatch
<1>7. \A j \in Calls : CallInv(j)'
  <2>1. phase'.kind = phase.kind \/ phase'.kind # "created"
        BY <1>6
  <2>2. CallInv(i)'
        BY <1>1, <1>2, <1>3, <2>1 DEF KeyInv, CallInv
  <2>3. ASSUME NEW j \in Calls, j # i  PROVE CallInv(j)'
        BY <1>1, <1>2, <1>3, <2>1, <2>3 DEF KeyInv, CallInv
  <2> QED  BY <2>2, <2>3
<1>8. PhaseInv'
      BY <1>1, <1>3, <1>6 DEF KeyInv, PhaseInv, CallInv
<1>9. SpinnerHasWork'
  <2>1. CASE call[i].here
        BY <1>2, <1>6, <2>1 DEF SpinnerHasWork
  <2>2. CASE ~call[i].here
        BY <1>2, <1>6, <2>2 DEF KeyInv, SpinnerHasWork
  <2> QED  BY <2>1, <2>2
<1>10. TypeOK'
       BY <1>2, <1>3, <1>6, Typed, TypedNext DEF KeyInv
<1> QED  BY <1>1, <1>4, <1>5, <1>7, <1>8, <1>9, <1>10 DEF KeyInv

\* The tool keeps its phase when an operation that shows no spinner ends, and
\* leaves `confirming' when a confirmation fails.
LEMMA PhaseAtEnd ==
    ASSUME KeyInv, NEW i \in Calls, call[i].here,
           NEW p \in {phase, FailedConfirmation(phase)},
           \/ call[i].pc \in {"read", "unread"}
           \/ call[i].kind = "confirm" /\ p = FailedConfirmation(phase)
    PROVE  /\ p \in PhaseType
           /\ p.kind \notin {"preparing", "confirming", "created"}
           /\ p.kind = "warning" => p.count < p.need
           /\ p.kind \in {"external", "reviewing"} => Issued(p.tok)
           /\ p.kind = "external" => p.tok = ref.ext
<1>1. phase \in PhaseType /\ FailedConfirmation(phase) \in PhaseType
      BY Typed, DerivedTyped DEF KeyInv, PanelType
<1>2. phase.kind # "preparing" /\ phase.kind # "created"
      BY DEF KeyInv, SpinnerHasWork, OneHere, CallInv
<1>3. phase.kind = "confirming" => call[i].pc \in {"post", "answered"}
      BY DEF KeyInv, SpinnerHasWork, OneHere
<1>4. /\ phase.kind = "confirming" => /\ FailedConfirmation(phase).kind = "reviewing"
                                      /\ FailedConfirmation(phase).tok = phase.tok
      /\ phase.kind # "confirming" => FailedConfirmation(phase) = phase
      BY <1>1 DEF FailedConfirmation, PhaseType
<1> QED  BY <1>1, <1>2, <1>3, <1>4 DEF KeyInv, PhaseInv

\* The steps of an operation, on either side of the network.
LEMMA CallStepKept ==
    ASSUME KeyInv, NEW i \in Calls, CallStep(i)
    PROVE  KeyInv'
<1>a. /\ cfg \in [Groups -> Off .. MaxNeed] /\ cache \in [Groups -> Off .. MaxNeed]
      /\ flow \in [Tokens -> FlowType] /\ made \in [Tokens -> Nat]
      /\ panel \in PanelType /\ phase \in PhaseType
      /\ chosen \in Groups \cup {None} /\ ref \in RefType
      /\ call \in [Calls -> CallType] /\ consented \subseteq Tokens
      /\ ops \in 0 .. MaxOps
      BY Typed DEF KeyInv
<1>b. call[i] \in CallType /\ CallInv(i)
      BY <1>a DEF KeyInv
<1>c. Draft \in PhaseType /\ Draft.kind = "draft"
      /\ Preparing \in PhaseType /\ Preparing.kind = "preparing"
      BY ValuesTyped DEF Draft, Preparing
<1>d. Dropped(panel).action = None
      BY <1>a DEF Dropped, PanelType
<1>e. ASSUME UNCHANGED <<flow, made, consented>>
      PROVE  /\ \A k \in Tokens : FlowInv(k)'
             /\ \A k : Issued(k) => Issued(k)'
             /\ flow' \in [Tokens -> FlowType] /\ made' \in [Tokens -> Nat]
      BY <1>a, <1>e, FlowKept
<1>1. CASE GroupsRead(i)
  <2>0. call[i].pc = "groups" /\ call[i].group \in Groups
        BY <1>1, <1>b DEF GroupsRead, CallInv
  <2>u. UNCHANGED <<cfg, flow, made, panel, phase, chosen, ref, consented>>
        BY <1>1 DEF GroupsRead
  <2>i. call[i].kind = "prepare" /\ call[i].ans = "ok" => Issued(call[i].tok)
        BY <1>b DEF CallInv
  <2>1. ASSUME NEW c \in {[call[i] EXCEPT !.pc = "read", !.seen = cfg[call[i].group]],
                          [call[i] EXCEPT !.pc = "unread", !.seen = cfg[call[i].group]],
                          [call[i] EXCEPT !.pc = "unread"]},
               call' = [call EXCEPT ![i] = c],
               cache' \in [Groups -> Off .. MaxNeed], ops' \in 0 .. MaxOps
        PROVE  KeyInv'
    <3>1. /\ c \in CallType /\ c.kind = call[i].kind /\ c.here = call[i].here
          /\ c.group = call[i].group /\ c.tok = call[i].tok /\ c.ans = call[i].ans
      <4>1. cfg[call[i].group] \in Off .. MaxNeed
            BY <1>a, <2>0
      <4>2. CASE c = [call[i] EXCEPT !.pc = "read", !.seen = cfg[call[i].group]]
            BY <1>b, <4>1, <4>2 DEF CallType
      <4>3. CASE c = [call[i] EXCEPT !.pc = "unread", !.seen = cfg[call[i].group]]
            BY <1>b, <4>1, <4>3 DEF CallType
      <4>4. CASE c = [call[i] EXCEPT !.pc = "unread"]
            BY <1>b, <4>4 DEF CallType
      <4> QED  BY <2>1, <4>2, <4>3, <4>4
    <3>2. c.kind = "prepare" /\ c.ans = "ok" => Issued(c.tok)'
          BY <1>e, <2>u, <2>i, <3>1
    <3> QED  BY <1>e, <2>0, <2>u, <2>1, <3>1, <3>2, AdvancedKept
  <2>2. CASE /\ cache' = cfg
             /\ call' = [call EXCEPT ![i] = [@ EXCEPT !.pc = IF Live(cfg) = {} THEN "unread" ELSE "read",
                                                      !.seen = cfg[call[i].group]]]
             /\ UNCHANGED ops
    <3>1. CASE Live(cfg) = {}
          BY <1>a, <2>1, <2>2, <3>1
    <3>2. CASE Live(cfg) # {}
          BY <1>a, <2>1, <2>2, <3>2
    <3> QED  BY <3>1, <3>2
  <2>3. CASE /\ call' = [call EXCEPT ![i] = [@ EXCEPT !.pc = "unread"]]
             /\ Begin
             /\ UNCHANGED cache
        BY <1>a, <2>1, <2>3, BeginTyped DEF KeyInv
  <2> QED  BY <1>1, <2>2, <2>3 DEF GroupsRead
<1>2. CASE PrepareRead(i)
  <2>u. UNCHANGED <<cfg, cache, flow, made, consented, ops>> /\ call[i].pc \in {"read", "unread"}
        /\ call[i].kind = "prepare" /\ call[i].group \in Groups /\ call[i].seen \in Off .. MaxNeed
        BY <1>2, <1>b DEF PrepareRead, CallInv, CallType
  <2>1. CASE call[i].pc = "unread" /\ Finish(i, Draft, chosen, panel)
        BY <1>a, <1>c, <2>u, <2>1, FinishKept
  <2>2. CASE call[i].pc = "read" /\ call[i].seen = Off /\ Finish(i, phase, chosen, panel)
    <3>1. call[i].here => /\ phase.kind \notin {"preparing", "confirming", "created"}
                          /\ phase.kind = "warning" => phase.count < phase.need
                          /\ phase.kind \in {"external", "reviewing"} => Issued(phase.tok)
                          /\ phase.kind = "external" => phase.tok = ref.ext
          BY <2>u, PhaseAtEnd
    <3> QED  BY <1>a, <2>u, <2>2, <3>1, FinishKept
  <2>3. CASE /\ call[i].pc = "read" /\ call[i].seen > 0 /\ call[i].count # call[i].seen
             /\ Finish(i, Warning(call[i].group, call[i].seen, 0), chosen, panel)
    <3>1. call[i].seen \in 0 .. MaxNeed /\ call[i].seen > 0
          BY <2>u, <2>3, KeyAssumption DEF Off
    <3> DEFINE p == Warning(call[i].group, call[i].seen, 0)
    <3>2. p \in PhaseType /\ p.kind = "warning" /\ p.count < p.need
          BY <2>u, <3>1, WarningTyped
    <3> HIDE DEF p
    <3>3. Finish(i, p, chosen, panel)
          BY <2>3 DEF p
    <3> QED  BY <1>a, <2>u, <3>2, <3>3, FinishKept
  <2>4. CASE /\ call[i].pc = "read" /\ (call[i].seen = 0 \/ call[i].count = call[i].seen)
             /\ Post(i, Preparing, chosen)
        BY <1>a, <1>c, <2>u, <2>4, PostKept
  <2> QED  BY <1>2, <2>1, <2>2, <2>3, <2>4 DEF PrepareRead
<1>3. CASE ReviewRead(i)
  <2>u. UNCHANGED <<cfg, cache, flow, made, consented, ops>> /\ call[i].pc \in {"read", "unread"}
        /\ call[i].kind = "review" /\ Issued(call[i].tok) /\ call[i].tok \in Tokens
        /\ call[i].group \in Groups
        BY <1>3, <1>b DEF ReviewRead, CallInv, Issued
  <2>1. CASE call[i].pc = "unread" /\ Finish(i, phase, chosen, panel)
    <3>1. call[i].here => /\ phase.kind \notin {"preparing", "confirming", "created"}
                          /\ phase.kind = "warning" => phase.count < phase.need
                          /\ phase.kind \in {"external", "reviewing"} => Issued(phase.tok)
                          /\ phase.kind = "external" => phase.tok = ref.ext
          BY <2>u, PhaseAtEnd
    <3> QED  BY <1>a, <2>u, <2>1, <3>1, FinishKept
  <2>2. CASE call[i].pc = "read" /\ call[i].seen = Off /\ Finish(i, Draft, chosen, Dropped(panel))
        BY <1>a, <1>c, <2>u, <2>2, FinishKept
  <2>3. CASE /\ call[i].pc = "read" /\ call[i].seen # Off
             /\ Finish(i, With("reviewing", call[i].tok, "external"), call[i].group, panel)
        BY <2>u, <2>3, WithTyped, FinishKept
  <2> QED  BY <1>3, <2>1, <2>2, <2>3 DEF ReviewRead
<1>4. CASE ConfirmRead(i)
  <2>u. UNCHANGED <<cfg, cache, flow, made, consented, ops>> /\ call[i].pc \in {"read", "unread"}
        /\ call[i].kind = "confirm" /\ Issued(call[i].tok) /\ call[i].tok \in Tokens
        /\ call[i].group \in Groups /\ call[i].src \in {"external", "local", None}
        BY <1>4, <1>b DEF ConfirmRead, CallInv, Issued, CallType
  <2>1. CASE call[i].pc = "unread" /\ Finish(i, FailedConfirmation(phase), chosen, panel)
    <3> DEFINE p == FailedConfirmation(phase)
    <3>1. p \in PhaseType
          BY <1>a, DerivedTyped
    <3>2. call[i].here => /\ p.kind \notin {"preparing", "confirming", "created"}
                          /\ p.kind = "warning" => p.count < p.need
                          /\ p.kind \in {"external", "reviewing"} => Issued(p.tok)
                          /\ p.kind = "external" => p.tok = ref.ext
          BY <2>u, PhaseAtEnd
    <3> QED  BY <1>a, <2>u, <2>1, <3>1, <3>2, FinishKept
  <2>2. CASE call[i].pc = "read" /\ call[i].seen = Off /\ Finish(i, Draft, chosen, Dropped(panel))
        BY <1>a, <1>c, <2>u, <2>2, FinishKept
  <2>3. CASE /\ call[i].pc = "read" /\ call[i].seen # Off
             /\ Post(i, With("confirming", call[i].tok, call[i].src), call[i].group)
        BY <2>u, <2>3, WithTyped, PostKept
  <2> QED  BY <1>4, <2>1, <2>2, <2>3 DEF ConfirmRead
<1>5. ASSUME NEW a \in {"ok", "error", "invalid"}, Answered(i, a),
             call[i].pc \in {"post", "answered"}, call[i].kind = "prepare" => a # "ok",
             UNCHANGED <<cfg, cache, panel, phase, chosen, ref, consented>>,
             \A k : Issued(k) => Issued(k)',
             \A k \in Tokens : FlowInv(k)',
             flow' \in [Tokens -> FlowType], made' \in [Tokens -> Nat], ops' \in 0 .. MaxOps
      PROVE  KeyInv'
  <2> DEFINE c == [call[i] EXCEPT !.pc = "answered", !.ans = a]
  <2>1. /\ c \in CallType /\ c.kind = call[i].kind /\ c.here = call[i].here
        /\ c.group = call[i].group /\ c.tok = call[i].tok /\ c.ans = a /\ c.pc = "answered"
        BY <1>b, <1>5 DEF CallType
  <2>2. call' = [call EXCEPT ![i] = c]
        BY <1>a, <1>5 DEF Answered
  <2> HIDE DEF c
  <2> QED  BY <1>a, <1>5, <2>1, <2>2, AdvancedKept
<1>6. CASE ServePrepare(i)
  <2>u. /\ UNCHANGED <<cfg, cache, made, panel, phase, chosen, ref, consented, ops>>
        /\ call[i].kind = "prepare" /\ call[i].pc = "post" /\ call[i].group \in Groups
        /\ call[i].count \in 0 .. MaxNeed /\ call[i].shown \in Groups \cup {None}
        BY <1>6, <1>b DEF ServePrepare, CallInv, CallType
  <2>1. CASE Answered(i, "error") /\ UNCHANGED flow
        BY <1>a, <1>e, <1>5, <2>u, <2>1
  <2>2. ASSUME NEW k \in Tokens, flow[k].st = "none",
               cfg[call[i].group] = 0 \/ (cfg[call[i].group] > 0 /\ call[i].count = cfg[call[i].group]),
               flow' = [flow EXCEPT ![k] = [st |-> "open", group |-> call[i].group,
                                need |-> cfg[call[i].group], src |-> "local",
                                acks |-> call[i].count, shown |-> call[i].shown]],
               call' = [call EXCEPT ![i] = [@ EXCEPT !.pc = "answered", !.ans = "ok", !.tok = k]]
        PROVE  KeyInv'
    <3> DEFINE f == [st |-> "open", group |-> call[i].group, need |-> cfg[call[i].group],
                     src |-> "local", acks |-> call[i].count, shown |-> call[i].shown]
               d == [call[i] EXCEPT !.pc = "answered", !.ans = "ok", !.tok = k]
    <3>1. cfg[call[i].group] \in 0 .. MaxNeed /\ cfg[call[i].group] \in {0, call[i].count}
          BY <1>a, <2>u, <2>2, KeyAssumption DEF Off
    <3>2. /\ f \in FlowType /\ f.st = "open" /\ f.group \in Groups /\ f.need \in {0, f.acks}
          BY <2>u, <3>1 DEF FlowType
    <3>9. /\ d \in CallType /\ d.kind = call[i].kind /\ d.here = call[i].here
          /\ d.group = call[i].group /\ d.tok = k /\ d.pc = "answered"
          BY <1>b DEF CallType
    <3>3. PICK c \in CallType : /\ c = d /\ c.kind = call[i].kind /\ c.here = call[i].here
                                /\ c.group = call[i].group /\ c.tok = k /\ c.pc = "answered"
          BY <3>9
    <3>4. call' = [call EXCEPT ![i] = c] /\ flow' = [flow EXCEPT ![k] = f]
          BY <1>a, <2>2, <3>3
    <3> HIDE DEF f, d
    <3>5. flow' \in [Tokens -> FlowType] /\ flow'[k] = f /\ \A j \in Tokens : j # k => flow'[j] = flow[j]
          BY <1>a, <3>2, <3>4
    <3>6. (\A j : Issued(j) => Issued(j)') /\ Issued(k)'
          BY <2>2, <3>2, <3>5 DEF Issued
    <3>7. \A j \in Tokens : FlowInv(j)'
          BY <2>u, <2>2, <3>2, <3>5 DEF KeyInv, FlowInv
    <3>8. Issued(c.tok)'
          BY <3>3, <3>6
    <3> QED  BY <1>a, <2>u, <3>3, <3>4, <3>5, <3>6, <3>7, <3>8, AdvancedKept
  <2> QED  BY <1>6, <2>1, <2>2 DEF ServePrepare
<1>7. CASE ServeConfirm(i)
  <2> DEFINE k == call[i].tok
  <2>u. /\ UNCHANGED <<cfg, cache, panel, phase, chosen, ref, consented>>
        /\ call[i].kind = "confirm" /\ call[i].pc = "post"
        BY <1>7 DEF ServeConfirm
  <2>0. k \in Tokens /\ k \in consented
        BY <1>b, <2>u DEF CallInv, Issued
  <2>1. CASE Refused(k) /\ Answered(i, "invalid") /\ UNCHANGED <<flow, made, ops>>
        BY <1>a, <1>e, <1>5, <2>u, <2>1
  <2>2. CASE ~Refused(k) /\ Answered(i, "error") /\ Begin /\ UNCHANGED <<flow, made>>
        BY <1>a, <1>e, <1>5, <2>u, <2>2, BeginTyped DEF KeyInv
  <2>3. CASE /\ ~Refused(k) /\ Answered(i, "ok")
             /\ flow' = [flow EXCEPT ![k].st = "used"]
             /\ made' = [made EXCEPT ![k] = @ + 1]
             /\ UNCHANGED ops
    <3>1. flow[k].st = "open" /\ made[k] = 0
      <4>1. FlowInv(k) /\ made[k] \in Nat
            BY <1>a, <2>0 DEF KeyInv
      <4> QED  BY <2>3, <4>1 DEF Refused, FlowInv
    <3>2. made' \in [Tokens -> Nat] /\ made'[k] = 1 /\ \A j \in Tokens : j # k => made'[j] = made[j]
          BY <1>a, <2>0, <2>3, <3>1
    <3>3. /\ flow' \in [Tokens -> FlowType]
          /\ flow'[k].st = "used" /\ flow'[k].group = flow[k].group /\ flow'[k].src = flow[k].src
          /\ flow'[k].need = flow[k].need /\ flow'[k].acks = flow[k].acks
          /\ \A j \in Tokens : j # k => flow'[j] = flow[j]
      <4>1. /\ [flow[k] EXCEPT !.st = "used"] \in FlowType
            /\ [flow[k] EXCEPT !.st = "used"].st = "used"
            /\ \A f \in {"group", "src", "need", "acks"} : [flow[k] EXCEPT !.st = "used"][f] = flow[k][f]
            BY <1>a, <2>0 DEF FlowType
      <4>2. flow' = [flow EXCEPT ![k] = [flow[k] EXCEPT !.st = "used"]]
            BY <1>a, <2>0, <2>3
      <4> QED  BY <1>a, <2>0, <4>1, <4>2
    <3>4. \A j : Issued(j) => Issued(j)'
          BY <3>3 DEF Issued
    <3>5. \A j \in Tokens : FlowInv(j)'
      <4>1. FlowInv(k) /\ FlowInv(k) => flow[k].group \in Groups
            BY <2>0, <3>1 DEF KeyInv, FlowInv
      <4>2. ASSUME NEW j \in Tokens, j = k  PROVE FlowInv(j)'
            BY <2>u, <2>0, <3>1, <3>2, <3>3, <4>1, <4>2 DEF KeyInv, FlowInv
      <4>3. ASSUME NEW j \in Tokens, j # k  PROVE FlowInv(j)'
            BY <2>u, <3>2, <3>3, <4>3 DEF KeyInv, FlowInv
      <4> QED  BY <4>2, <4>3
    <3> QED  BY <1>a, <1>5, <2>u, <2>3, <3>2, <3>3, <3>4, <3>5
  <2> QED  BY <1>7, <2>1, <2>2, <2>3 DEF ServeConfirm
<1>8. CASE Lose(i)
  <2>1. /\ UNCHANGED <<cfg, cache, flow, made, panel, phase, chosen, ref, consented>>
        /\ call[i].pc \in {"post", "answered"} /\ Answered(i, "error") /\ ops' \in 0 .. MaxOps
        BY <1>8, BeginTyped DEF Lose, KeyInv
  <2> QED  BY <1>a, <1>e, <1>5, <2>1
<1>9. CASE PrepareDone(i)
  <2>u. UNCHANGED <<cfg, cache, flow, made, consented, ops>> /\ call[i].kind = "prepare"
        /\ call[i].pc = "answered" /\ call[i].group \in Groups
        BY <1>9, <1>b DEF PrepareDone, CallInv
  <2>1. CASE call[i].ans = "ok" /\ Finish(i, With("reviewing", call[i].tok, "local"), call[i].group, panel)
    <3>1. Issued(call[i].tok) /\ call[i].tok \in Tokens
          BY <1>b, <2>u, <2>1 DEF CallInv, Issued
    <3> QED  BY <2>u, <2>1, <3>1, WithTyped, FinishKept
  <2>2. CASE call[i].ans = "error" /\ Finish(i, Draft, chosen, panel)
        BY <1>a, <1>c, <2>u, <2>2, FinishKept
  <2> QED  BY <1>9, <2>1, <2>2 DEF PrepareDone
<1>10. CASE ConfirmDone(i)
  <2>u. UNCHANGED <<cfg, cache, flow, made, consented, ops>> /\ call[i].kind = "confirm"
        /\ call[i].pc = "answered" /\ Issued(call[i].tok) /\ call[i].tok \in Tokens
        BY <1>10, <1>b DEF ConfirmDone, CallInv, Issued
  <2>1. CASE call[i].ans = "ok" /\ Finish(i, With("created", call[i].tok, None), chosen, Dropped(panel))
        BY <1>a, <1>d, <2>u, <2>1, NoneApart, WithTyped, FinishKept
  <2>2. CASE call[i].ans = "invalid" /\ Finish(i, Draft, chosen, Dropped(panel))
        BY <1>a, <1>c, <2>u, <2>2, FinishKept
  <2>3. CASE call[i].ans = "error" /\ Finish(i, FailedConfirmation(phase), chosen, panel)
    <3> DEFINE p == FailedConfirmation(phase)
    <3>1. p \in PhaseType
          BY <1>a, DerivedTyped
    <3>2. call[i].here => /\ p.kind \notin {"preparing", "confirming", "created"}
                          /\ p.kind = "warning" => p.count < p.need
                          /\ p.kind \in {"external", "reviewing"} => Issued(p.tok)
                          /\ p.kind = "external" => p.tok = ref.ext
          BY <2>u, PhaseAtEnd
    <3> QED  BY <1>a, <2>u, <2>3, <3>1, <3>2, FinishKept
  <2> QED  BY <1>10, <2>1, <2>2, <2>3 DEF ConfirmDone
<1> QED  BY <1>1, <1>2, <1>3, <1>4, <1>6, <1>7, <1>8, <1>9, <1>10 DEF CallStep

\* A token expires, or a group changes.
LEMMA ServerKept ==
    ASSUME KeyInv, ServerStep
    PROVE  KeyInv'
<1>a. /\ flow \in [Tokens -> FlowType] /\ cfg \in [Groups -> Off .. MaxNeed]
      BY Typed DEF KeyInv
<1>1. ASSUME NEW k \in Tokens, Expire(k)  PROVE KeyInv'
  <2>1. UNCHANGED <<cfg, cache, made, panel, phase, chosen, ref, call, consented>>
        /\ flow[k].st = "open" /\ ops' \in 0 .. MaxOps
        BY <1>1, BeginTyped DEF Expire, KeyInv
  <2>2. /\ flow' \in [Tokens -> FlowType]
        /\ flow'[k].st = "expired" /\ flow'[k].group = flow[k].group /\ flow'[k].src = flow[k].src
        /\ flow'[k].need = flow[k].need /\ flow'[k].acks = flow[k].acks
        /\ \A j \in Tokens : j # k => flow'[j] = flow[j]
    <3>1. /\ [flow[k] EXCEPT !.st = "expired"] \in FlowType
          /\ [flow[k] EXCEPT !.st = "expired"].st = "expired"
          /\ \A f \in {"group", "src", "need", "acks"} : [flow[k] EXCEPT !.st = "expired"][f] = flow[k][f]
          BY <1>a DEF FlowType
    <3>2. flow' = [flow EXCEPT ![k] = [flow[k] EXCEPT !.st = "expired"]]
          BY <1>1, <1>a DEF Expire
    <3> QED  BY <1>a, <3>1, <3>2
  <2>3. \A j : Issued(j) => Issued(j)'
        BY <2>2 DEF Issued
  <2>4. \A j \in Tokens : FlowInv(j)'
    <3>1. FlowInv(k)'
          BY <2>1, <2>2 DEF KeyInv, FlowInv
    <3>2. ASSUME NEW j \in Tokens, j # k  PROVE FlowInv(j)'
          BY <2>1, <2>2, <3>2 DEF KeyInv, FlowInv
    <3> QED  BY <3>1, <3>2
  <2>5. (\A i \in Calls : CallInv(i)') /\ OneHere'
        BY <2>1, <2>3, CallsKept DEF KeyInv, CallInv
  <2>6. PhaseInv' /\ PanelInv' /\ SpinnerHasWork'
        BY <2>1, <2>3 DEF KeyInv, PhaseInv, PanelInv, SpinnerHasWork
  <2>7. TypeOK'
        BY <2>1, <2>2, Typed, TypedNext DEF KeyInv
  <2> QED  BY <2>4, <2>5, <2>6, <2>7 DEF KeyInv
<1>2. ASSUME NEW g \in Groups, NEW n \in Off .. MaxNeed, ChangeGroup(g, n)  PROVE KeyInv'
  <2>1. UNCHANGED <<cache, flow, made, panel, phase, chosen, ref, call, consented>>
        /\ cfg' \in [Groups -> Off .. MaxNeed] /\ ops' \in 0 .. MaxOps
        BY <1>2, <1>a, BeginTyped DEF ChangeGroup, KeyInv
  <2>2. (\A k \in Tokens : FlowInv(k)') /\ \A k : Issued(k) => Issued(k)'
        BY <2>1, FlowKept
  <2>3. (\A i \in Calls : CallInv(i)') /\ OneHere'
        BY <2>1, <2>2, CallsKept DEF KeyInv, CallInv
  <2>4. PhaseInv' /\ PanelInv' /\ SpinnerHasWork'
        BY <2>1, <2>2 DEF KeyInv, PhaseInv, PanelInv, SpinnerHasWork
  <2>5. TypeOK'
        BY <2>1, Typed, TypedNext DEF KeyInv
  <2> QED  BY <2>2, <2>3, <2>4, <2>5 DEF KeyInv
<1> QED  BY <1>1, <1>2 DEF ServerStep

\* The invariant holds initially.
LEMMA KeyInit == Init => KeyInv
<1> SUFFICES ASSUME Init  PROVE KeyInv
    OBVIOUS
<1>1. NoFlow.st = "none" /\ ~NoCall.here /\ NoCall.kind = "none"
      /\ NoCall.pc = "none" /\ Draft.kind = "draft"
      BY DEF NoFlow, NoCall, Draft
<1>2. TypeOK
  <2>1. panel \in PanelType
        BY DEF Init, PanelType
  <2>2. ops \in 0 .. MaxOps
        BY KeyAssumption DEF Init
  <2> QED  BY <2>1, <2>2, ValuesTyped, NoneApart, Typed DEF Init, Config
<1>3. \A k \in Tokens : FlowInv(k)
      BY <1>1 DEF Init, FlowInv, NoFlow
<1>4. (\A i \in Calls : CallInv(i)) /\ OneHere
      BY <1>1 DEF Init, CallInv, OneHere
<1>5. PhaseInv /\ PanelInv /\ SpinnerHasWork
      BY <1>1 DEF Init, PhaseInv, PanelInv, SpinnerHasWork
<1> QED  BY <1>2, <1>3, <1>4, <1>5 DEF KeyInv

\* Every step keeps the invariant.
LEMMA KeyStep == KeyInv /\ [Next]_vars => KeyInv'
<1> SUFFICES ASSUME KeyInv, [Next]_vars  PROVE KeyInv'
    OBVIOUS
<1>1. CASE UNCHANGED vars
  <2>1. UNCHANGED <<cfg, cache, flow, made, panel, phase, chosen, ref, call, consented, ops>>
        BY <1>1 DEF vars
  <2>2. (\A k \in Tokens : FlowInv(k)') /\ \A k : Issued(k) => Issued(k)'
        BY <2>1, FlowKept
  <2>3. (\A i \in Calls : CallInv(i)') /\ OneHere'
        BY <2>1, <2>2, CallsKept DEF KeyInv, CallInv
  <2>4. PhaseInv' /\ PanelInv' /\ SpinnerHasWork'
        BY <2>1, <2>2 DEF KeyInv, PhaseInv, PanelInv, SpinnerHasWork
  <2>5. TypeOK'
        BY <2>1, Typed, TypedNext DEF KeyInv
  <2> QED  BY <2>2, <2>3, <2>4, <2>5 DEF KeyInv
<1>2. CASE Next
      BY <1>2, PanelKept, ServerKept, StartStepKept, CallStepKept DEF Next
<1> QED  BY <1>1, <1>2

\* The invariant holds in every reachable state.
LEMMA Inductive == Spec => []KeyInv
<1> QED  BY KeyInit, KeyStep, PTL DEF Spec

-----------------------------------------------------------------------------
(* The theorems.                                                           *)

\* Every variable keeps its type; in particular no warning is acknowledged more
\* often than it asks for (acknowledgeWarning).
THEOREM KeyTypeCorrect == Spec => []TypeOK
<1>1. KeyInv => TypeOK
      BY DEF KeyInv
<1> QED  BY <1>1, Inductive, PTL

\* A confirmation token makes at most one key, whatever is lost, retried or
\* confirmed from a tool that is mounted again.
THEOREM OneKeyForAToken == Spec => []OneKeyPerToken
<1>1. KeyInv => OneKeyPerToken
      BY DEF KeyInv, FlowInv, OneKeyPerToken
<1> QED  BY <1>1, Inductive, PTL

\* Every key was confirmed by the user, for exactly the preparation it was made
\* from: confirmAction never runs for a token of which nobody was asked.
THEOREM EveryKeyConfirmed == Spec => []NothingUnconfirmed
<1>1. KeyInv => NothingUnconfirmed
      BY DEF KeyInv, FlowInv, NothingUnconfirmed
<1> QED  BY <1>1, Inductive, PTL

\* While the tool shows that it prepares or confirms, that operation is under way.
THEOREM SpinnersWork == Spec => []SpinnerHasWork
<1>1. KeyInv => SpinnerHasWork
      BY DEF KeyInv
<1> QED  BY <1>1, Inductive, PTL

\* Only ServeConfirm makes keys.
LEMMA MakesKeys ==
    ASSUME Next, made' # made
    PROVE  \E i \in Calls : ServeConfirm(i)
<1>1. ~PanelStep
      BY DEF PanelStep, SendMessage, OpenTool, CloseTool, TypeConfirm, SyncExternal, Dismiss,
             Refetch, SetGroup, ReplyKey
<1>2. ~ServerStep
      BY DEF ServerStep, Expire, ChangeGroup
<1>3. \A i \in Calls : ~StartStep(i)
      BY DEF StartStep, Review, Acknowledge, Confirm, AutoConfirm
<1>4. ASSUME NEW i \in Calls, CallStep(i)  PROVE ServeConfirm(i)
      BY <1>4 DEF CallStep, GroupsRead, PrepareRead, ReviewRead, ConfirmRead, ServePrepare,
                  Lose, PrepareDone, ConfirmDone
<1> QED  BY <1>1, <1>2, <1>3, <1>4 DEF Next

\* A key made in the form is made under a warning that was confirmed as often as
\* it asks for at the moment the key is made, whatever the administrator changed
\* since it was prepared.
THEOREM WarningsConfirmed == Spec => WarningIsConfirmed
<1>1. ASSUME KeyInv, [Next]_vars,
             NEW k \in Tokens, made'[k] # made[k], flow[k].src = "local"
      PROVE  cfg[flow[k].group] \in {0, flow[k].acks}
  <2>1. PICK i \in Calls : ServeConfirm(i)
        BY <1>1, MakesKeys DEF vars
  <2>2. made \in [Tokens -> Nat]
        BY <1>1, Typed DEF KeyInv
  <2>3. ~Refused(call[i].tok) /\ made' = [made EXCEPT ![call[i].tok] = @ + 1]
        BY <1>1, <2>1 DEF ServeConfirm
  <2>4. k = call[i].tok
        BY <1>1, <2>2, <2>3
  <2>5. cfg[flow[k].group] = flow[k].need
        BY <2>3, <2>4 DEF Refused
  <2>6. FlowInv(k)
        BY <1>1 DEF KeyInv
  <2> QED  BY <1>1, <2>5, <2>6 DEF FlowInv
<1>2. KeyInv /\ [Next]_vars
        => [\A k \in Tokens : made'[k] # made[k] /\ flow[k].src = "local"
               => cfg[flow[k].group] \in {0, flow[k].acks}]_vars
      BY <1>1
<1> QED  BY <1>2, Inductive, PTL DEF Spec, WarningIsConfirmed

\* The created key leaves the tool only when the tool is closed or when the chat
\* prepares another key; the parent that drops its action (clear-external) and
\* operations of earlier tools never take it away.
THEOREM CreatedKeyStays == Spec => CommittedStays
<1>1. ASSUME KeyInv, [Next]_vars,
             phase.kind = "created", panel.open, panel'.open, phase' # phase
      PROVE  phase'.kind = "external" /\ phase'.tok = panel.action /\ phase'.tok # phase.tok
  <2>1. Next /\ panel \in PanelType /\ phase \in PhaseType
        BY <1>1, Typed DEF vars, KeyInv
  <2>2. \A i \in Calls : ~call[i].here
        BY <1>1 DEF KeyInv, CallInv
  <2>3. ASSUME NEW i \in Calls  PROVE ~StartStep(i) /\ ~CallStep(i)
    <3>1. ~StartStep(i)
          BY <1>1 DEF StartStep, Review, Acknowledge, Confirm, AutoConfirm, AutoDue
    <3>2. \A p, g : Dispatch(i, p, g) => phase' = phase
          BY <2>2 DEF Dispatch
    <3>3. ~CallStep(i)
          BY <1>1, <3>2 DEF CallStep, GroupsRead, PrepareRead, ReviewRead, ConfirmRead,
                  ServePrepare, ServeConfirm, Lose, PrepareDone, ConfirmDone, Finish, Post
    <3> QED  BY <3>1, <3>3
  <2>4. ~ServerStep
        BY <1>1 DEF ServerStep, Expire, ChangeGroup
  <2>5. PanelStep
        BY <2>1, <2>3, <2>4 DEF Next
  <2>6. ~SendMessage /\ ~CloseTool
        BY <1>1, <2>1 DEF SendMessage, CloseTool, Dropped, PanelType
  <2>7. SyncExternal
        BY <1>1, <2>5, <2>6 DEF PanelStep, OpenTool, TypeConfirm, Dismiss, Covered, Refetch,
                  SetGroup, ReplyKey
  <2>8. panel.action # None /\ phase' = With("external", panel.action, None)
        BY <1>1, <2>7 DEF SyncExternal, Cleared
  <2>9. panel.action \in Tokens
        BY <2>1, <2>8 DEF PanelType
  <2>10. phase'.kind = "external" /\ phase'.tok = panel.action
         BY <2>8, <2>9, WithTyped
  <2> QED  BY <1>1, <2>10 DEF KeyInv, PhaseInv
<1>2. KeyInv /\ [Next]_vars
        => [phase.kind = "created" /\ panel.open /\ panel'.open /\ phase' # phase
              => phase'.kind = "external" /\ phase'.tok = panel.action /\ phase'.tok # phase.tok]_vars
      BY <1>1
<1> QED  BY <1>2, Inductive, PTL DEF Spec, CommittedStays
=============================================================================
