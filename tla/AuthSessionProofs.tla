------------------------- MODULE AuthSessionProofs -------------------------
(***************************************************************************)
(* Theorems about AuthSession for any number of tabs, sessions, rotations  *)
(* and failures: type correctness, the sign-out of a tab, late answers and,*)
(* where the browser has Web Locks, the cookie jar.                        *)
(***************************************************************************)
EXTENDS AuthSession, TLAPS

-----------------------------------------------------------------------------
(* Types of the values the actions are built from.                         *)

RefType   == [pc : {"none", "lock", "sent", "served", "settled"},
              live : BOOLEAN, exp : Sids \cup {None}, cookie : Cookies \cup {None},
              ans : Answers \cup Outcomes \cup {None}]
PageType  == [sid : Sids \cup {None}, boot : {"idle", "checking", "complete"},
              cache : SUBSET Sids]
FetchType == [pc : {"none", "refresh", "sent"}, again : BOOLEAN,
              as : Sids \cup {None}, live : BOOLEAN]

\* An answer carries a cookie exactly if it is a bundle.
Answered(r) == r.pc = "served" => IF r.ans = "ok" THEN r.cookie \in Cookies
                                                  ELSE r.cookie = None
TypeInv     == TypeOK /\ \A t \in Tabs : Answered(ref[t])

\* The records a tab starts from, and the ones its helpers return, are typed.
LEMMA ValuesTyped ==
    ASSUME TypeOK, NEW t \in Tabs
    PROVE  /\ FreshPage \in PageType /\ SignedOut \in PageType
           /\ NoRefresh \in RefType /\ NoFetch \in FetchType
           /\ \A o \in Outcomes : Settled(o) \in RefType
           /\ NewEpoch(t) \in RefType /\ Refreshing(t) \in RefType
           /\ Uncached(t) \in FetchType /\ Sent(t) \in FetchType
           /\ Resumed(t) \in FetchType
           /\ \A s \in Sids : Bundled(t, s) \in PageType
<1>1. FreshPage \in PageType /\ SignedOut \in PageType
      BY DEF FreshPage, SignedOut, PageType
<1>2. NoRefresh \in RefType /\ \A o \in Outcomes : Settled(o) \in RefType
      BY DEF NoRefresh, Settled, RefType
<1>3. NoFetch \in FetchType
      BY DEF NoFetch, FetchType
<1>4. ref[t] \in RefType /\ fetch[t] \in FetchType /\ page[t] \in PageType
      BY DEF TypeOK, RefType, FetchType, PageType
<1>5. NewEpoch(t) \in RefType /\ Refreshing(t) \in RefType
      BY <1>4 DEF NewEpoch, Refreshing, NoRefresh, RefType
<1>6. Uncached(t) \in FetchType /\ Sent(t) \in FetchType
      BY <1>4 DEF Uncached, Sent, FetchType, PageType
<1>7. Resumed(t) \in FetchType
      BY <1>3, <1>4, <1>6 DEF Resumed
<1>8. \A s \in Sids : Bundled(t, s) \in PageType
      BY <1>4 DEF Bundled, PageType
<1> QED  BY <1>1, <1>2, <1>3, <1>5, <1>6, <1>7, <1>8

\* Publishing keeps the inboxes typed.
LEMMA PublishedTyped ==
    ASSUME TypeOK, NEW t \in Tabs, NEW s \in Sids \cup {None},
           NEW kind \in {"authenticated", "signed_out"}
    PROVE  Published(t, kind, s) \in [Tabs -> SUBSET Events]
BY AuthAssumption DEF TypeOK, Published, Events

\* Rotation and revocation keep the session rows typed.
LEMMA SessionsTyped ==
    ASSUME TypeOK
    PROVE  /\ \A c \in Cookies, a \in Answers : MayRotate(c) =>
                 Rotated(c, a) \in [Sids -> [status : {"none", "active", "revoked"},
                                             gen : 0 .. MaxGen]]
           /\ \A S \in SUBSET Sids :
                 Revoked(S) \in [Sids -> [status : {"none", "active", "revoked"},
                                          gen : 0 .. MaxGen]]
<1>1. ASSUME NEW c \in Cookies, NEW a \in Answers, MayRotate(c)
      PROVE  Rotated(c, a) \in [Sids -> [status : {"none", "active", "revoked"},
                                         gen : 0 .. MaxGen]]
      BY <1>1, AuthAssumption DEF TypeOK, Rotated, MayRotate, Current, Active, Cookies
<1>2. ASSUME NEW S \in SUBSET Sids
      PROVE  Revoked(S) \in [Sids -> [status : {"none", "active", "revoked"},
                                      gen : 0 .. MaxGen]]
      BY DEF TypeOK, Revoked, Active
<1> QED  BY <1>1, <1>2

\* A page load and a request nobody waits for are typed.
LEMMA PageLoadTyped ==
    ASSUME TypeOK, NEW t \in Tabs, PageLoad(t), ops' \in 0 .. MaxOps
    PROVE  TypeOK'
<1>1. Orphan(ref[t]) \subseteq Cookies
      BY DEF TypeOK, Orphan
<1>2. late' \subseteq Cookies
      BY <1>1 DEF TypeOK, PageLoad
<1>3. NoLogout \in [pc : {"none", "mismatch", "refresh", "ready", "done"}, again : BOOLEAN]
      BY DEF NoLogout
<1> QED  BY <1>2, <1>3, ValuesTyped DEF TypeOK, PageLoad, PageType, RefType, FetchType

-----------------------------------------------------------------------------
(* Type correctness.                                                       *)

\* The steps of a refresh run.
LEMMA RefreshTyped ==
    ASSUME TypeInv, NEW t \in Tabs, RefreshStep(t)
    PROVE  TypeOK'
<1> USE AuthAssumption
<1> TypeOK /\ Answered(ref[t])
    BY DEF TypeInv
<1>0. /\ FreshPage \in PageType /\ SignedOut \in PageType
      /\ NoRefresh \in RefType /\ NoFetch \in FetchType
      /\ Settled("transient_error") \in RefType /\ Settled("authenticated") \in RefType
      /\ Settled("anonymous") \in RefType /\ Settled("out_of_sync") \in RefType
      /\ NewEpoch(t) \in RefType /\ Refreshing(t) \in RefType
      /\ Uncached(t) \in FetchType /\ Resumed(t) \in FetchType
      BY ValuesTyped DEF Outcomes
<1>a. ref[t] \in RefType /\ page[t] \in PageType /\ fetch[t] \in FetchType
      BY DEF TypeOK, RefType, PageType, FetchType
<1>1. CASE Bootstrap(t)
  <2>1. [page[t] EXCEPT !.boot = "checking"] \in PageType
        BY <1>a DEF PageType
  <2>2. page' = [page EXCEPT ![t] = [page[t] EXCEPT !.boot = "checking"]]
        BY <1>1 DEF Bootstrap, TypeOK
  <2>3. ops' \in 0 .. MaxOps
        BY <1>1 DEF TypeOK, Bootstrap, Begin
  <2>4. page' \in [Tabs -> PageType] /\ ref' \in [Tabs -> RefType]
    <3>1. page \in [Tabs -> PageType] /\ ref \in [Tabs -> RefType]
          BY DEF TypeOK, RefType, PageType
    <3>2. page' \in [Tabs -> PageType]
          BY <2>1, <2>2, <3>1
    <3>3. ref' \in [Tabs -> RefType]
          BY <1>0, <1>1, <3>1 DEF Bootstrap
    <3> QED  BY <3>2, <3>3
  <2> QED  BY <1>1, <2>3, <2>4 DEF TypeOK, Bootstrap, RefType, PageType
<1>2. CASE Acquire(t)
  <2>1. Send(ref[t], page[t].sid) \in RefType
        BY <1>a DEF TypeOK, Send, RefType, PageType
  <2> QED  BY <1>0, <1>2, <2>1 DEF TypeOK, Acquire, RefType
<1>3. CASE Serve(t)
  <2>1. CASE \E a \in Answer(ref[t].cookie, ref[t].exp) :
                /\ ref[t].cookie # None => MayRotate(ref[t].cookie)
                /\ session' = Rotated(ref[t].cookie, a)
                /\ ref' = [ref EXCEPT ![t] = Served(ref[t], a,
                       IF a # "ok" THEN None
                       ELSE [sid |-> ref[t].cookie.sid,
                             gen |-> session'[ref[t].cookie.sid].gen])]
                /\ UNCHANGED ops
    <3>1. PICK a \in Answer(ref[t].cookie, ref[t].exp) :
                /\ ref[t].cookie # None => MayRotate(ref[t].cookie)
                /\ session' = Rotated(ref[t].cookie, a)
                /\ ref' = [ref EXCEPT ![t] = Served(ref[t], a,
                       IF a # "ok" THEN None
                       ELSE [sid |-> ref[t].cookie.sid,
                             gen |-> session'[ref[t].cookie.sid].gen])]
                /\ UNCHANGED ops
          BY <2>1
    <3>2. a \in Answers /\ (a = "ok" => ref[t].cookie # None)
          BY DEF Answer, Answers
    <3>3. session' \in [Sids -> [status : {"none", "active", "revoked"}, gen : 0 .. MaxGen]]
      <4>1. CASE ref[t].cookie = None
            BY <3>1, <4>1 DEF Rotated, TypeOK
      <4>2. CASE ref[t].cookie # None
            BY <3>1, <3>2, <4>2, <1>a, SessionsTyped DEF RefType
      <4> QED  BY <4>1, <4>2
    <3>4. a = "ok" => [sid |-> ref[t].cookie.sid,
                       gen |-> session'[ref[t].cookie.sid].gen] \in Cookies
          BY <3>2, <3>3, <1>a DEF RefType, Cookies
    <3>5. ref' \in [Tabs -> RefType]
      <4>1. Served(ref[t], a, IF a # "ok" THEN None
                ELSE [sid |-> ref[t].cookie.sid,
                      gen |-> session'[ref[t].cookie.sid].gen]) \in RefType
            BY <3>2, <3>4, <1>a DEF RefType, Served
      <4> QED  BY <3>1, <4>1 DEF TypeOK, RefType
    <3> QED  BY <1>3, <3>1, <3>3, <3>5 DEF TypeOK, Serve, RefType
  <2>2. CASE /\ ref' = [ref EXCEPT ![t] = Served(ref[t], "other", None)]
             /\ Begin
             /\ UNCHANGED session
    <3>1. Served(ref[t], "other", None) \in RefType
          BY <1>a DEF Served, RefType, Answers
    <3> QED  BY <1>3, <2>2, <3>1 DEF TypeOK, Serve, Begin, RefType
  <2> QED  BY <1>3, <2>1, <2>2 DEF Serve
<1>4. CASE DeliverSuperseded(t)
      BY <1>0, <1>4 DEF TypeOK, DeliverSuperseded, StoreCookie, RefType
<1>5. CASE DeliverBundle(t)
  <2>1. Bundled(t, ref[t].cookie.sid) \in PageType
        BY <1>5, ValuesTyped DEF Answered, DeliverBundle, Cookies
  <2> QED  BY <1>0, <1>5, <2>1 DEF TypeOK, DeliverBundle, StoreCookie, RefType, PageType, FetchType
<1>6. CASE DeliverMismatch(t)
  <2>1. [FreshPage EXCEPT !.cache = page[t].cache] \in PageType
        BY <1>a DEF FreshPage, PageType
  <2>2. Send([ref[t] EXCEPT !.ans = None], None) \in RefType
        BY <1>a DEF Send, RefType, TypeOK
  <2> QED  BY <1>6, <2>1, <2>2 DEF TypeOK, DeliverMismatch, RefType, PageType
<1>7. CASE DeliverUnauthorized(t)
  <2>1. Published(t, "signed_out", page[t].sid) \in [Tabs -> SUBSET Events]
        BY <1>a, PublishedTyped DEF PageType
  <2> QED  BY <1>0, <1>7, <2>1 DEF TypeOK, DeliverUnauthorized, ClearAuthentication,
               StoreCookie, RefType, PageType, FetchType
<1>8. CASE DeliverOther(t)
      BY <1>0, <1>8 DEF TypeOK, DeliverOther, ClearAuthentication, RefType, PageType, FetchType
<1>9. CASE Timeout(t)
  <2>1. Orphan(ref[t]) \subseteq Cookies
        BY <1>a DEF Orphan, RefType
  <2>2. page' \in [Tabs -> PageType]
    <3>1. [page[t] EXCEPT !.boot = "idle"] \in PageType
          BY <1>a DEF PageType
    <3>2. page' = page \/ page' = [page EXCEPT ![t] = [page[t] EXCEPT !.boot = "idle"]]
          BY <1>9 DEF Timeout, TypeOK
    <3> QED  BY <3>1, <3>2 DEF TypeOK, PageType
  <2>3. ref' \in [Tabs -> RefType]
        BY <1>0, <1>9 DEF TypeOK, Timeout, RefType
  <2>4. late' \subseteq Cookies /\ ops' \in 0 .. MaxOps
        BY <1>9, <2>1 DEF TypeOK, Timeout, Begin
  <2> QED  BY <1>9, <2>2, <2>3, <2>4 DEF TypeOK, Timeout, RefType, PageType
<1>10. CASE Settle(t)
  <2>1. CASE PageLoad(t) /\ UNCHANGED ops
        BY <2>1, PageLoadTyped DEF TypeOK
  <2>2. CASE /\ page' = [page EXCEPT ![t] = SignedOut]
             /\ inbox' = Published(t, "signed_out", page[t].sid)
             /\ fetch' = [fetch EXCEPT ![t] = IF Waiting(t) THEN NoFetch ELSE Uncached(t)]
             /\ logout' = [logout EXCEPT ![t] = NoLogout]
             /\ ref' = [ref EXCEPT ![t] = NoRefresh]
             /\ UNCHANGED <<session, jar, late, login, ops>>
    <3>1. Published(t, "signed_out", page[t].sid) \in [Tabs -> SUBSET Events]
          BY <1>a, PublishedTyped DEF PageType
    <3> QED  BY <1>0, <2>2, <3>1 DEF TypeOK, NoLogout, RefType, PageType, FetchType
  <2>3. CASE /\ fetch' = [fetch EXCEPT ![t] = Resumed(t)]
             /\ logout' = [logout EXCEPT ![t] =
                    IF @.pc # "refresh" THEN @
                    ELSE IF ref[t].ans = "authenticated" THEN [pc |-> "ready", again |-> TRUE]
                    ELSE NoLogout]
             /\ ref' = [ref EXCEPT ![t] = NoRefresh]
             /\ UNCHANGED <<session, jar, late, page, login, inbox, ops>>
        BY <1>0, <2>3 DEF TypeOK, NoLogout, RefType, FetchType
  <2> QED  BY <1>10, <2>1, <2>2, <2>3 DEF Settle
<1> QED  BY <1>1, <1>2, <1>3, <1>4, <1>5, <1>6, <1>7, <1>8, <1>9, <1>10 DEF RefreshStep

\* The steps of a request.
LEMMA RequestTyped ==
    ASSUME TypeOK, NEW t \in Tabs, RequestStep(t)
    PROVE  TypeOK'
<1> USE AuthAssumption
<1>0. /\ SignedOut \in PageType /\ NoFetch \in FetchType
      /\ NewEpoch(t) \in RefType /\ Refreshing(t) \in RefType
      BY ValuesTyped
<1>a. ref[t] \in RefType /\ page[t] \in PageType /\ fetch[t] \in FetchType
      BY DEF TypeOK, RefType, PageType, FetchType
<1>1. CASE FetchStart(t)
  <2>1. \A q \in {"sent", "refresh"}, s \in Sids \cup {None} :
           [pc |-> q, again |-> FALSE, as |-> s, live |-> TRUE] \in FetchType
        BY DEF FetchType
  <2>2. fetch' \in [Tabs -> FetchType] /\ ref' \in [Tabs -> RefType]
    <3>1. fetch \in [Tabs -> FetchType] /\ ref \in [Tabs -> RefType]
          BY DEF TypeOK, RefType, FetchType
    <3>2. page[t].sid \in Sids \cup {None}
          BY <1>a DEF PageType
    <3>3. fetch' \in [Tabs -> FetchType]
          BY <1>1, <2>1, <3>1, <3>2 DEF FetchStart
    <3>4. ref' \in [Tabs -> RefType]
          BY <1>0, <1>1, <3>1 DEF FetchStart
    <3> QED  BY <3>3, <3>4
  <2> QED  BY <1>1, <2>2 DEF TypeOK, FetchStart, Begin, RefType, FetchType
<1>2. CASE FetchOK(t)
  <2>1. [page[t] EXCEPT !.cache = @ \cup {fetch[t].as}] \in PageType
        BY <1>a, <1>2 DEF FetchOK, PageType, FetchType
  <2>2. page' \in [Tabs -> PageType]
        BY <1>2, <2>1 DEF TypeOK, FetchOK, PageType
  <2> QED  BY <1>0, <1>2, <2>2 DEF TypeOK, FetchOK, PageType, FetchType
<1>3. CASE FetchRefused(t)
  <2>1. [fetch[t] EXCEPT !.pc = "refresh", !.again = TRUE] \in FetchType
        BY <1>a DEF FetchType
  <2>2. fetch' \in [Tabs -> FetchType]
        BY <1>3, <2>1 DEF TypeOK, FetchRefused, FetchType
  <2>3. ref' \in [Tabs -> RefType]
        BY <1>0, <1>3 DEF TypeOK, FetchRefused, RefType
  <2> QED  BY <1>3, <2>2, <2>3 DEF TypeOK, FetchRefused, RefType, FetchType
<1>4. CASE FetchRefusedAgain(t)
  <2>1. CASE PageLoad(t) /\ UNCHANGED ops
        BY <2>1, PageLoadTyped DEF TypeOK
  <2>2. CASE /\ page' = [page EXCEPT ![t] = SignedOut]
             /\ ref' = [ref EXCEPT ![t] = NewEpoch(t)]
             /\ fetch' = [fetch EXCEPT ![t] = NoFetch]
             /\ UNCHANGED <<session, jar, late, login, logout, inbox, ops>>
        BY <1>0, <2>2 DEF TypeOK, PageType, RefType, FetchType
  <2> QED  BY <1>4, <2>1, <2>2 DEF FetchRefusedAgain
<1>5. CASE FetchFail(t)
      BY <1>0, <1>5 DEF TypeOK, FetchFail, Begin, FetchType
<1>6. CASE Rotation(t)
  <2>1. PICK S \in SUBSET (Sids \ {fetch[t].as}) : session' = Revoked(S)
        BY <1>6 DEF Rotation
  <2>2. session' \in [Sids -> [status : {"none", "active", "revoked"}, gen : 0 .. MaxGen]]
        BY <2>1, SessionsTyped
  <2>3. Bundled(t, fetch[t].as) \in PageType
        BY <1>6, <1>a, ValuesTyped DEF Rotation, FetchType
  <2>4. Published(t, "signed_out", page[t].sid) \in [Tabs -> SUBSET Events]
        BY <1>a, PublishedTyped DEF PageType
  <2>5. /\ page' \in [Tabs -> PageType] /\ ref' \in [Tabs -> RefType]
        /\ inbox' \in [Tabs -> SUBSET Events]
    <3>1. page \in [Tabs -> PageType] /\ ref \in [Tabs -> RefType]
          BY DEF TypeOK, RefType, PageType
    <3>2. page' \in [Tabs -> PageType]
          BY <1>0, <1>6, <2>3, <3>1 DEF Rotation
    <3>3. ref' \in [Tabs -> RefType]
          BY <1>0, <1>6, <3>1 DEF Rotation
    <3>4. inbox' \in [Tabs -> SUBSET Events]
          BY <1>6, <2>4 DEF Rotation, TypeOK
    <3> QED  BY <3>2, <3>3, <3>4
  <2> QED  BY <1>0, <1>6, <2>2, <2>5 DEF TypeOK, Rotation, PageType, RefType, FetchType
<1> QED  BY <1>1, <1>2, <1>3, <1>4, <1>5, <1>6 DEF RequestStep

\* Logins, logouts, events and page loads.
LEMMA SessionTyped ==
    ASSUME TypeOK, NEW t \in Tabs, SessionStep(t)
    PROVE  TypeOK'
<1> USE AuthAssumption
<1>0. /\ SignedOut \in PageType /\ Uncached(t) \in FetchType
      /\ NewEpoch(t) \in RefType /\ Refreshing(t) \in RefType
      BY ValuesTyped
<1>a. page[t] \in PageType /\ fetch[t] \in FetchType
      BY DEF TypeOK, PageType, FetchType
<1>b. NoLogout \in [pc : {"none", "mismatch", "refresh", "ready", "done"}, again : BOOLEAN]
      BY DEF NoLogout
<1>c. Published(t, "signed_out", page[t].sid) \in [Tabs -> SUBSET Events]
      BY <1>a, PublishedTyped DEF PageType
<1>d. logout[t] \in [pc : {"none", "mismatch", "refresh", "ready", "done"}, again : BOOLEAN]
      BY DEF TypeOK
<1>e. \A q \in {"mismatch", "refresh", "done"} : [logout[t] EXCEPT !.pc = q] \in
         [pc : {"none", "mismatch", "refresh", "ready", "done"}, again : BOOLEAN]
      BY <1>d
<1>1. ASSUME NEW s \in Sids, LoginAnswer(t, s)  PROVE TypeOK'
      BY <1>1 DEF TypeOK, LoginAnswer, Begin, Cookies
<1>2. CASE LoginApply(t)
  <2>1. login[t] \in Sids
        BY <1>2 DEF LoginApply, TypeOK
  <2>2. Bundled(t, login[t]) \in PageType
        BY <2>1, ValuesTyped
  <2>3. Published(t, "authenticated", login[t]) \in [Tabs -> SUBSET Events]
        BY <2>1, PublishedTyped
  <2> QED  BY <1>0, <1>2, <2>2, <2>3 DEF TypeOK, LoginApply, PageType, RefType, FetchType
<1>3. CASE LogoutRequest(t)
  <2>1. /\ Revoked({page[t].sid} \ {None})
             \in [Sids -> [status : {"none", "active", "revoked"}, gen : 0 .. MaxGen]]
        /\ jar # None => Revoked({jar.sid})
             \in [Sids -> [status : {"none", "active", "revoked"}, gen : 0 .. MaxGen]]
        BY <1>a, SessionsTyped DEF TypeOK, PageType, Cookies
  <2>2. /\ session' \in [Sids -> [status : {"none", "active", "revoked"}, gen : 0 .. MaxGen]]
        /\ jar' \in Cookies \cup {None}
        BY <1>3, <2>1 DEF LogoutRequest, TypeOK
  <2>3. logout' \in [Tabs -> [pc : {"none", "mismatch", "refresh", "ready", "done"},
                              again : BOOLEAN]]
    <3>2. \/ logout' = [logout EXCEPT ![t] = NoLogout]
          \/ logout' = [logout EXCEPT ![t] = [logout[t] EXCEPT !.pc = "mismatch"]]
          \/ logout' = [logout EXCEPT ![t] = [logout[t] EXCEPT !.pc = "done"]]
          BY <1>3 DEF LogoutRequest, TypeOK
    <3> QED  BY <1>e, <3>2, <1>b DEF TypeOK
  <2> QED  BY <1>3, <2>2, <2>3 DEF TypeOK, LogoutRequest, Begin
<1>4. CASE LogoutAnswer(t)
  <2>1. CASE /\ logout' = [logout EXCEPT ![t].pc = "refresh"]
             /\ ref' = [ref EXCEPT ![t] = Refreshing(t)]
             /\ UNCHANGED <<session, jar, late, page, fetch, login, inbox, ops>>
    <3>2. logout' = [logout EXCEPT ![t] = [logout[t] EXCEPT !.pc = "refresh"]]
          BY <2>1 DEF TypeOK
    <3>3. ref' \in [Tabs -> RefType]
          BY <1>0, <2>1 DEF TypeOK, RefType
    <3>4. logout' \in [Tabs -> [pc : {"none", "mismatch", "refresh", "ready", "done"},
                                again : BOOLEAN]]
          BY <1>e, <3>2 DEF TypeOK
    <3> QED  BY <2>1, <3>3, <3>4 DEF TypeOK, RefType
  <2>2. CASE /\ ClearAuthentication(t, TRUE, NewEpoch(t), NoLogout)
             /\ UNCHANGED <<session, jar, late, login, ops>>
        BY <1>0, <1>b, <1>c, <2>2 DEF TypeOK, ClearAuthentication, PageType, RefType, FetchType
  <2> QED  BY <1>4, <2>1, <2>2 DEF LogoutAnswer
<1>5. ASSUME NEW e \in inbox[t], EventAuthenticated(t, e)  PROVE TypeOK'
      BY <1>5, PageLoadTyped DEF EventAuthenticated, TypeOK
<1>6. ASSUME NEW e \in inbox[t], EventSignedOut(t, e)  PROVE TypeOK'
      BY <1>0, <1>6 DEF TypeOK, EventSignedOut, PageType, RefType, FetchType
<1>7. ASSUME NEW e \in inbox[t], EventIgnored(t, e)  PROVE TypeOK'
      BY <1>7 DEF TypeOK, EventIgnored, Begin
<1>8. CASE Reload(t)
  <2>1. ops' \in 0 .. MaxOps
        BY <1>8 DEF Reload, Begin, TypeOK
  <2> QED  BY <1>8, <2>1, PageLoadTyped DEF Reload
<1> QED  BY <1>1, <1>2, <1>3, <1>4, <1>5, <1>6, <1>7, <1>8 DEF SessionStep

\* The steps of nobody's tab.
LEMMA ServerTyped ==
    ASSUME TypeOK,
           (\E c \in late : ServeLate(c)) \/ (\E s \in Sids : Revoke(s))
    PROVE  TypeOK'
<1> USE AuthAssumption
<1>1. ASSUME NEW c \in late, ServeLate(c)  PROVE TypeOK'
  <2>1. PICK a \in Answer(c, None) : session' = Rotated(c, a)
        BY <1>1 DEF ServeLate
  <2>2. a \in Answers /\ c \in Cookies /\ MayRotate(c)
        BY <1>1 DEF Answer, Answers, ServeLate, TypeOK
  <2>3. session' \in [Sids -> [status : {"none", "active", "revoked"}, gen : 0 .. MaxGen]]
        BY <2>1, <2>2, SessionsTyped
  <2> QED  BY <1>1, <2>3 DEF TypeOK, ServeLate
<1>2. ASSUME NEW s \in Sids, Revoke(s)  PROVE TypeOK'
  <2>1. session' \in [Sids -> [status : {"none", "active", "revoked"}, gen : 0 .. MaxGen]]
        BY <1>2, SessionsTyped DEF Revoke
  <2>2. ops' \in 0 .. MaxOps
        BY <1>2 DEF TypeOK, Revoke, Begin
  <2> QED  BY <1>2, <2>1, <2>2 DEF TypeOK, Revoke
<1> QED  BY <1>1, <1>2

\* What a step may do to a run: nothing but its epoch, begin one that waits for
\* the lock, settle or forget it, send it, or answer it.
LEMMA AnswersKept ==
    ASSUME TypeInv, [Next]_vars
    PROVE  \A t \in Tabs : Answered(ref[t])'
<1> SUFFICES ASSUME NEW u \in Tabs  PROVE Answered(ref[u])'
    OBVIOUS
<1> TypeOK /\ Answered(ref[u])
    BY DEF TypeInv
<1> DEFINE Kept == ref'[u] = ref[u] \/ ref'[u].pc # "served"
                   \/ ref'[u] = [ref[u] EXCEPT !.live = FALSE]
<1>1. ASSUME Kept  PROVE Answered(ref[u])'
      BY <1>1 DEF Answered, TypeOK
<1>2. ASSUME NEW t \in Tabs  PROVE NewEpoch(t) \in {ref[t], [ref[t] EXCEPT !.live = FALSE]}
      BY DEF NewEpoch
<1>3. ASSUME NEW t \in Tabs  PROVE Refreshing(t) = ref[t] \/ Refreshing(t).pc = "lock"
      BY DEF Refreshing, NoRefresh
<1>4. NoRefresh.pc = "none" /\ \A o : Settled(o).pc = "settled"
      BY DEF NoRefresh, Settled
<1>5. ASSUME NEW t \in Tabs, PageLoad(t)  PROVE Kept
      BY <1>4, <1>5 DEF PageLoad, TypeOK
<1>6. ASSUME NEW t \in Tabs, RefreshStep(t)  PROVE Answered(ref[u])'
  <2>1. CASE Serve(t)
    <3>1. CASE \E a \in Answer(ref[t].cookie, ref[t].exp) :
             ref' = [ref EXCEPT ![t] = Served(ref[t], a,
                       IF a # "ok" THEN None
                       ELSE [sid |-> ref[t].cookie.sid,
                             gen |-> session'[ref[t].cookie.sid].gen])]
      <4>1. PICK a \in Answer(ref[t].cookie, ref[t].exp) :
             ref' = [ref EXCEPT ![t] = Served(ref[t], a,
                       IF a # "ok" THEN None
                       ELSE [sid |-> ref[t].cookie.sid,
                             gen |-> session'[ref[t].cookie.sid].gen])]
            BY <3>1
      <4>2. a = "ok" => ref[t].cookie \in Cookies
            BY DEF Answer, TypeOK
      <4>3. a = "ok" => [sid |-> ref[t].cookie.sid,
                         gen |-> session'[ref[t].cookie.sid].gen] \in Cookies
            BY <4>2, RefreshTyped, <1>6 DEF TypeOK, Cookies
      <4> QED  BY <4>1, <4>3, <1>1 DEF Answered, Served, TypeOK
    <3>2. CASE ref' = [ref EXCEPT ![t] = Served(ref[t], "other", None)]
          BY <3>2, <1>1 DEF Answered, Served, TypeOK
    <3> QED  BY <2>1, <3>1, <3>2 DEF Serve
  <2>2. CASE Bootstrap(t)
        BY <2>2, <1>1, <1>3 DEF Bootstrap, TypeOK
  <2>3. CASE Acquire(t) \/ DeliverMismatch(t)
    <3>1. \A r \in {ref[t], [ref[t] EXCEPT !.ans = None]}, s \in Sids \cup {None} :
             Send(r, s).pc = "sent"
          BY DEF Send, TypeOK
    <3>2. page[t].sid \in Sids \cup {None}
          BY DEF TypeOK
    <3>3. ref \in [Tabs -> RefType]
          BY DEF TypeOK, RefType
    <3>4. Kept
          BY <2>3, <1>4, <3>1, <3>2, <3>3 DEF Acquire, DeliverMismatch
    <3> QED  BY <1>1, <3>4
  <2>4. CASE \/ DeliverSuperseded(t) \/ DeliverBundle(t) \/ DeliverUnauthorized(t)
             \/ DeliverOther(t) \/ Timeout(t)
        BY <2>4, <1>1, <1>4 DEF DeliverSuperseded, DeliverBundle, DeliverUnauthorized,
             DeliverOther, Timeout, ClearAuthentication, TypeOK
  <2>5. CASE Settle(t)
        BY <2>5, <1>1, <1>4, <1>5 DEF Settle, TypeOK
  <2> QED  BY <1>6, <2>1, <2>2, <2>3, <2>4, <2>5 DEF RefreshStep
<1>7. ASSUME NEW t \in Tabs, RequestStep(t)  PROVE Kept
      BY <1>2, <1>3, <1>4, <1>5, <1>7 DEF RequestStep, FetchStart, FetchOK, FetchRefused,
         FetchRefusedAgain, FetchFail, Rotation, TypeOK
<1>8. ASSUME NEW t \in Tabs, SessionStep(t)  PROVE Kept
      BY <1>2, <1>3, <1>4, <1>5, <1>8 DEF SessionStep, LoginAnswer, LoginApply, LogoutRequest,
         LogoutAnswer, ClearAuthentication, EventAuthenticated, EventSignedOut, EventIgnored,
         Reload, TypeOK
<1>9. CASE (\E c \in late : ServeLate(c)) \/ (\E s \in Sids : Revoke(s)) \/ UNCHANGED vars
      BY <1>1, <1>9 DEF ServeLate, Revoke, vars
<1> QED  BY <1>1, <1>6, <1>7, <1>8, <1>9 DEF Next

\* Every step keeps the types.
LEMMA TypeInvInductive == TypeInv /\ [Next]_vars => TypeInv'
<1> SUFFICES ASSUME TypeInv, [Next]_vars  PROVE TypeOK'
    BY AnswersKept DEF TypeInv
<1>1. CASE UNCHANGED vars
      BY <1>1 DEF TypeInv, TypeOK, vars
<1>2. CASE Next
      BY <1>2, RefreshTyped, RequestTyped, SessionTyped, ServerTyped DEF Next, TypeInv
<1> QED  BY <1>1, <1>2

\* The initial state is typed.
LEMMA TypeInvInit == Init => TypeInv
BY AuthAssumption DEF Init, TypeInv, TypeOK, Answered, FreshPage, NoRefresh, NoFetch,
   NoLogout, Cookies

\* Every reachable state of tabs, browser and server is well typed, for any
\* number of tabs, sessions, rotations and failures; in particular an event is
\* only ever published for a session.
THEOREM AuthTypeCorrect == Spec => []TypeOK
<1>1. Spec => []TypeInv
      BY TypeInvInit, TypeInvInductive, PTL DEF Spec
<1>2. TypeInv => TypeOK
      BY DEF TypeInv
<1> QED  BY <1>1, <1>2, PTL


-----------------------------------------------------------------------------
(* The cookie jar and the generations.                                     *)

Existing(c)   == session[c.sid].status # "none" /\ c.gen <= session[c.sid].gen
SameSid(c, d) == c # None /\ d # None /\ c.sid = d.sid

\* Rows begin at generation 0; a request nobody waits for carries a token that
\* exists, and none newer than the jar's.
RowsInv == \A s \in Sids : session[s].status = "none" => session[s].gen = 0
LateInv == \A c \in late : Existing(c)
BackInv == jar # None => /\ Existing(jar)
                         /\ session[jar.sid].gen - jar.gen \in {0, 1}
                         /\ \A c \in late : c.sid = jar.sid => c.gen <= jar.gen

\* A request under way carries a token between those of the late requests and
\* that of the jar; an answer carries the current one, which no late request has.
Carried(r) == r.pc = "sent" /\ r.cookie # None =>
    /\ Existing(r.cookie)
    /\ \A c \in late : c.sid = r.cookie.sid => c.gen <= r.cookie.gen
    /\ SameSid(jar, r.cookie) => r.cookie.gen <= jar.gen
Brought(r) == r.pc = "served" /\ r.ans = "ok" =>
    /\ Existing(r.cookie) /\ Current(r.cookie)
    /\ \A c \in late : c.sid = r.cookie.sid => c.gen < r.cookie.gen
RunsInv == \A t \in Tabs : Carried(ref[t]) /\ Brought(ref[t])
LockInv == \A t, u \in Tabs : Holding(ref[t]) /\ Holding(ref[u]) => t = u

JarInv == RowsInv /\ LateInv /\ BackInv /\ RunsInv /\ LockInv
AnonInv == \A t \in Tabs : page[t].boot = "complete" /\ page[t].sid = None
                             => page[t].cache = {} /\ ~fetch[t].live
ExpInv == \A t \in Tabs : Holding(ref[t]) /\ ref[t].live => page[t].sid = ref[t].exp

-----------------------------------------------------------------------------
(* What the helpers return, as far as the invariants look at it.           *)

\* The values that end a run, a page or a request.
LEMMA Shapes ==
    ASSUME TypeOK, NEW t \in Tabs
    PROVE  /\ NoRefresh.pc = "none" /\ ~Holding(NoRefresh)
           /\ \A o : Settled(o).pc = "settled" /\ ~Holding(Settled(o))
           /\ FreshPage.boot = "idle" /\ FreshPage.sid = None
           /\ SignedOut.boot = "complete" /\ SignedOut.cache = {} /\ SignedOut.sid = None
           /\ ~NoFetch.live /\ ~Uncached(t).live
           /\ \A s : Bundled(t, s).sid = s
<1>1. ref[t] \in RefType /\ fetch[t] \in FetchType /\ page[t] \in PageType
      BY DEF TypeOK, RefType, FetchType, PageType
<1>2. ~Uncached(t).live
      BY <1>1 DEF Uncached, FetchType
<1> QED  BY <1>2 DEF NoRefresh, Settled, Holding, FreshPage, SignedOut, NoFetch, Bundled

\* NewEpoch ends the wish for an answer and changes nothing else.
LEMMA NewEpochShape ==
    ASSUME TypeOK, NEW t \in Tabs
    PROVE  LET r == NewEpoch(t) IN
           /\ Holding(r) => ~r.live
           /\ r.pc = ref[t].pc /\ r.cookie = ref[t].cookie
           /\ r.ans = ref[t].ans /\ r.exp = ref[t].exp
<1>1. ref[t] \in RefType
      BY DEF TypeOK, RefType
<1> QED  BY <1>1 DEF NewEpoch, Holding, Running, RefType

\* Refreshing leaves a run alone or begins one that waits for the lock.
LEMMA RefreshingShape ==
    ASSUME NEW t \in Tabs
    PROVE  Refreshing(t) = ref[t] \/ Refreshing(t).pc = "lock"
BY DEF Refreshing, NoRefresh

-----------------------------------------------------------------------------
(* A tab that knows itself signed out.                                     *)

\* No tab begins signed out.
LEMMA AnonInit == Init => AnonInv
BY DEF Init, AnonInv, FreshPage, NoFetch

\* A tab that signs out is emptied, and nothing is written into it afterwards.
LEMMA AnonInductive == TypeInv /\ AnonInv /\ [Next]_vars => AnonInv'
<1> SUFFICES ASSUME TypeInv, AnonInv, [Next]_vars, NEW u \in Tabs
             PROVE  page'[u].boot = "complete" /\ page'[u].sid = None
                      => page'[u].cache = {} /\ ~fetch'[u].live
    BY DEF AnonInv
<1> TypeOK
    BY DEF TypeInv
<1> DEFINE Goal == page'[u].boot = "complete" /\ page'[u].sid = None
                     => page'[u].cache = {} /\ ~fetch'[u].live
<1>a. page[u].boot = "complete" /\ page[u].sid = None => page[u].cache = {} /\ ~fetch[u].live
      BY DEF AnonInv
<1>b. page \in [Tabs -> PageType] /\ fetch \in [Tabs -> FetchType]
      BY DEF TypeOK, PageType, FetchType
<1>c. ASSUME NEW t \in Tabs, PageLoad(t)  PROVE Goal
      BY <1>a, <1>b, <1>c, Shapes DEF PageLoad
<1>1. ASSUME NEW t \in Tabs, RefreshStep(t)  PROVE Goal
  <2>1. CASE Bootstrap(t)
        BY <2>1, <1>a, <1>b DEF Bootstrap, PageType
  <2>2. CASE Acquire(t) \/ Serve(t) \/ DeliverSuperseded(t)
        BY <2>2, <1>a DEF Acquire, Serve, DeliverSuperseded
  <2>3. CASE DeliverBundle(t)
    <3>1. ref[t].cookie \in Cookies
          BY <2>3 DEF DeliverBundle, TypeInv, Answered
    <3>2. Bundled(t, ref[t].cookie.sid).sid # None
          BY <3>1, Shapes, AuthAssumption DEF Cookies
    <3>3. CASE t = u
          BY <2>3, <3>2, <3>3, <1>b DEF DeliverBundle
    <3>4. CASE t # u
          BY <2>3, <3>4, <1>a, <1>b DEF DeliverBundle
    <3> QED  BY <3>3, <3>4
  <2>4. CASE DeliverMismatch(t)
    <3>1. [FreshPage EXCEPT !.cache = page[t].cache].boot = "idle"
          BY DEF FreshPage
    <3> QED  BY <2>4, <3>1, <1>a, <1>b DEF DeliverMismatch
  <2>5. CASE DeliverUnauthorized(t) \/ DeliverOther(t)
        BY <2>5, <1>a, <1>b, Shapes DEF DeliverUnauthorized, DeliverOther, ClearAuthentication
  <2>6. CASE Timeout(t)
        BY <2>6, <1>a, <1>b DEF Timeout, PageType
  <2>7. CASE Settle(t)
    <3>1. CASE PageLoad(t)
          BY <3>1, <1>c
    <3>2. CASE /\ page' = [page EXCEPT ![t] = SignedOut]
               /\ fetch' = [fetch EXCEPT ![t] = IF Waiting(t) THEN NoFetch ELSE Uncached(t)]
          BY <3>2, <1>a, <1>b, Shapes
    <3>3. CASE fetch' = [fetch EXCEPT ![t] = Resumed(t)] /\ UNCHANGED page
      <4>1. fetch[t] \in FetchType
            BY <1>b
      <4>2. Resumed(t).live => fetch[t].live
            BY <4>1 DEF Resumed, Sent, NoFetch, FetchType
      <4> QED  BY <3>3, <4>2, <1>a, <1>b
    <3> QED  BY <2>7, <3>1, <3>2, <3>3 DEF Settle
  <2> QED  BY <1>1, <2>1, <2>2, <2>3, <2>4, <2>5, <2>6, <2>7 DEF RefreshStep
<1>2. ASSUME NEW t \in Tabs, RequestStep(t)  PROVE Goal
  <2>1. CASE FetchStart(t)
        BY <2>1, <1>a, <1>b DEF FetchStart
  <2>2. CASE FetchOK(t)
    <3>1. CASE fetch[t].live /\ t = u
          BY <2>2, <3>1, <1>a, <1>b DEF FetchOK, PageType
    <3>2. CASE ~(fetch[t].live /\ t = u)
          BY <2>2, <3>2, <1>a, <1>b, Shapes DEF FetchOK, PageType
    <3> QED  BY <3>1, <3>2
  <2>3. CASE FetchRefused(t)
        BY <2>3, <1>a, <1>b DEF FetchRefused, FetchType
  <2>4. CASE FetchRefusedAgain(t)
        BY <2>4, <1>a, <1>b, <1>c, Shapes DEF FetchRefusedAgain
  <2>5. CASE FetchFail(t)
        BY <2>5, <1>a, <1>b, Shapes DEF FetchFail
  <2>6. CASE Rotation(t)
    <3>1. Bundled(t, fetch[t].as).sid # None
          BY <2>6, Shapes DEF Rotation
    <3> QED  BY <2>6, <3>1, <1>a, <1>b, Shapes DEF Rotation
  <2> QED  BY <1>2, <2>1, <2>2, <2>3, <2>4, <2>5, <2>6 DEF RequestStep
<1>3. ASSUME NEW t \in Tabs, SessionStep(t)  PROVE Goal
  <2>1. CASE LoginApply(t)
    <3>1. Bundled(t, login[t]).sid # None
          BY <2>1, Shapes DEF LoginApply
    <3>2. CASE t = u
          BY <2>1, <3>1, <3>2, <1>b DEF LoginApply
    <3>3. CASE t # u
          BY <2>1, <3>3, <1>a, <1>b DEF LoginApply
    <3> QED  BY <3>2, <3>3
  <2>2. CASE LogoutAnswer(t)
        BY <2>2, <1>a, <1>b, Shapes DEF LogoutAnswer, ClearAuthentication
  <2>3. CASE (\E s \in Sids : LoginAnswer(t, s)) \/ LogoutRequest(t)
             \/ (\E e \in inbox[t] : EventIgnored(t, e))
        BY <2>3, <1>a DEF LoginAnswer, LogoutRequest, EventIgnored
  <2>4. CASE (\E e \in inbox[t] : EventAuthenticated(t, e)) \/ Reload(t)
        BY <2>4, <1>c DEF EventAuthenticated, Reload
  <2>5. CASE \E e \in inbox[t] : EventSignedOut(t, e)
        BY <2>5, <1>a, <1>b, Shapes DEF EventSignedOut
  <2> QED  BY <1>3, <2>1, <2>2, <2>3, <2>4, <2>5 DEF SessionStep
<1>4. CASE (\E c \in late : ServeLate(c)) \/ (\E s \in Sids : Revoke(s)) \/ UNCHANGED vars
      BY <1>4, <1>a DEF ServeLate, Revoke, vars
<1> QED  BY <1>1, <1>2, <1>3, <1>4 DEF Next

\* Whatever answers still arrive and whichever way it was signed out, a tab
\* that knows itself signed out holds no account's data (lib/auth-session.ts,
\* clearAuthentication and queryClient.clear).
THEOREM SignedOutTabIsEmpty == Spec => []AnonymousIsEmpty
<1>1. Init => TypeInv /\ AnonInv
      BY TypeInvInit, AnonInit
<1>2. (TypeInv /\ AnonInv) /\ [Next]_vars => (TypeInv /\ AnonInv)'
      BY TypeInvInductive, AnonInductive
<1>3. AnonInv => AnonymousIsEmpty
      BY DEF AnonInv, AnonymousIsEmpty
<1> QED  BY <1>1, <1>2, <1>3, PTL DEF Spec

-----------------------------------------------------------------------------
(* The answer of a run that was superseded.                                *)

\* No run is under way at the start.
LEMMA ExpInit == Init => ExpInv
BY DEF Init, ExpInv, NoRefresh, Holding

\* A live run was sent for the session its tab still shows.
LEMMA ExpInductive == TypeInv /\ ExpInv /\ [Next]_vars => ExpInv'
<1> SUFFICES ASSUME TypeInv, ExpInv, [Next]_vars, NEW u \in Tabs
             PROVE  Holding(ref'[u]) /\ ref'[u].live => page'[u].sid = ref'[u].exp
    BY DEF ExpInv, Holding
<1> TypeOK
    BY DEF TypeInv
<1> DEFINE Goal == Holding(ref'[u]) /\ ref'[u].live => page'[u].sid = ref'[u].exp
<1>a. Holding(ref[u]) /\ ref[u].live => page[u].sid = ref[u].exp
      BY DEF ExpInv
<1>b. page \in [Tabs -> PageType] /\ ref \in [Tabs -> RefType]
      BY DEF TypeOK, PageType, RefType
<1>c. ASSUME NEW t \in Tabs, PageLoad(t)  PROVE Goal
      BY <1>a, <1>b, <1>c, Shapes DEF PageLoad
<1>d. ASSUME NEW t \in Tabs, ref' = [ref EXCEPT ![t] = Refreshing(t)],
             page'[u].sid = page[u].sid
      PROVE  Goal
  <2>1. ref'[u] = ref[u] \/ ref'[u].pc = "lock"
        BY <1>b, <1>d, RefreshingShape
  <2> QED  BY <1>a, <1>d, <2>1 DEF Holding
<1>e. ASSUME NEW t \in Tabs, ref' = [ref EXCEPT ![t] = NewEpoch(t)],
             t # u => page'[u] = page[u]
      PROVE  Goal
      BY <1>a, <1>b, <1>e, NewEpochShape
<1>f. ASSUME NEW t \in Tabs, NEW o, ref' = [ref EXCEPT ![t] = Settled(o)],
             t # u => page'[u] = page[u]
      PROVE  Goal
      BY <1>a, <1>b, <1>f, Shapes
<1>1. ASSUME NEW t \in Tabs, RefreshStep(t)  PROVE Goal
  <2>1. CASE Bootstrap(t)
    <3>1. page'[u].sid = page[u].sid
          BY <2>1, <1>b DEF Bootstrap, PageType
    <3> QED  BY <2>1, <3>1, <1>d DEF Bootstrap
  <2>2. CASE Acquire(t)
    <3>1. CASE ref[t].live
      <4>1. ref[t] \in RefType
            BY <1>b
      <4>2. Send(ref[t], page[t].sid).exp = page[t].sid
            BY <4>1 DEF Send, RefType
      <4> QED  BY <2>2, <3>1, <4>2, <1>a, <1>b DEF Acquire
    <3>2. CASE ~ref[t].live
          BY <2>2, <3>2, <1>f DEF Acquire
    <3> QED  BY <3>1, <3>2
  <2>3. CASE Serve(t)
    <3>1. PICK a, c : ref' = [ref EXCEPT ![t] = Served(ref[t], a, c)]
          BY <2>3 DEF Serve
    <3>2. ref[t] \in RefType
          BY <1>b
    <3>3. /\ Served(ref[t], a, c).live = ref[t].live
          /\ Served(ref[t], a, c).exp = ref[t].exp
          BY <3>2 DEF Served, RefType
    <3> QED  BY <2>3, <3>1, <3>3, <1>a, <1>b DEF Serve, Holding
  <2>4. CASE DeliverSuperseded(t) \/ DeliverBundle(t)
        BY <2>4, <1>b, <1>f DEF DeliverSuperseded, DeliverBundle
  <2>5. CASE DeliverMismatch(t)
    <3>1. [ref[t] EXCEPT !.ans = None] \in RefType
          BY <1>b DEF RefType
    <3>2. Send([ref[t] EXCEPT !.ans = None], None).exp = None
          BY <3>1 DEF Send, RefType
    <3>3. [FreshPage EXCEPT !.cache = page[t].cache].sid = None
          BY DEF FreshPage
    <3> QED  BY <2>5, <3>2, <3>3, <1>a, <1>b DEF DeliverMismatch
  <2>6. CASE DeliverUnauthorized(t) \/ DeliverOther(t)
        BY <2>6, <1>b, <1>f DEF DeliverUnauthorized, DeliverOther, ClearAuthentication
  <2>7. CASE Timeout(t)
        BY <2>7, <1>b, <1>f DEF Timeout
  <2>8. CASE Settle(t)
        BY <2>8, <1>a, <1>b, <1>c, Shapes DEF Settle
  <2> QED  BY <1>1, <2>1, <2>2, <2>3, <2>4, <2>5, <2>6, <2>7, <2>8 DEF RefreshStep
<1>2. ASSUME NEW t \in Tabs, RequestStep(t)  PROVE Goal
  <2>1. CASE FetchStart(t) \/ FetchRefused(t)
        BY <2>1, <1>a, <1>d DEF FetchStart, FetchRefused
  <2>2. CASE FetchOK(t)
    <3>1. page'[u].sid = page[u].sid
          BY <2>2, <1>b DEF FetchOK, PageType
    <3> QED  BY <2>2, <3>1, <1>a DEF FetchOK
  <2>3. CASE FetchRefusedAgain(t) \/ Rotation(t)
        BY <2>3, <1>b, <1>c, <1>e DEF FetchRefusedAgain, Rotation
  <2>4. CASE FetchFail(t)
        BY <2>4, <1>a DEF FetchFail
  <2> QED  BY <1>2, <2>1, <2>2, <2>3, <2>4 DEF RequestStep
<1>3. ASSUME NEW t \in Tabs, SessionStep(t)  PROVE Goal
  <2>1. CASE LoginApply(t) \/ (\E e \in inbox[t] : EventSignedOut(t, e))
        BY <2>1, <1>b, <1>e DEF LoginApply, EventSignedOut
  <2>2. CASE LogoutAnswer(t)
        BY <2>2, <1>b, <1>d, <1>e DEF LogoutAnswer, ClearAuthentication
  <2>3. CASE (\E s \in Sids : LoginAnswer(t, s)) \/ LogoutRequest(t)
             \/ (\E e \in inbox[t] : EventIgnored(t, e))
        BY <2>3, <1>a DEF LoginAnswer, LogoutRequest, EventIgnored
  <2>4. CASE (\E e \in inbox[t] : EventAuthenticated(t, e)) \/ Reload(t)
        BY <2>4, <1>c DEF EventAuthenticated, Reload
  <2> QED  BY <1>3, <2>1, <2>2, <2>3, <2>4 DEF SessionStep
<1>4. CASE (\E c \in late : ServeLate(c)) \/ (\E s \in Sids : Revoke(s)) \/ UNCHANGED vars
      BY <1>4, <1>a DEF ServeLate, Revoke, vars
<1> QED  BY <1>1, <1>2, <1>3, <1>4 DEF Next

Dropped == \A t \in Tabs : ref[t].pc = "served" /\ ref'[t].pc = "settled"
                             /\ page'[t].sid # page[t].sid => page[t].sid = ref[t].exp

\* Only a delivery turns an answered run into a settled one.
LEMMA DroppedStep == TypeInv /\ ExpInv /\ [Next]_vars => Dropped
<1> SUFFICES ASSUME TypeInv, ExpInv, [Next]_vars, NEW u \in Tabs,
                    ref[u].pc = "served", ref'[u].pc = "settled",
                    page'[u].sid # page[u].sid
             PROVE  page[u].sid = ref[u].exp
    BY DEF Dropped
<1> TypeOK
    BY DEF TypeInv
<1>a. ref[u].live => page[u].sid = ref[u].exp
      BY DEF ExpInv, Holding
<1>b. page \in [Tabs -> PageType] /\ ref \in [Tabs -> RefType]
      BY DEF TypeOK, PageType, RefType
<1>c. ASSUME NEW t \in Tabs, PageLoad(t)  PROVE FALSE
      BY <1>b, <1>c, Shapes DEF PageLoad
<1>d. ASSUME NEW t \in Tabs, ref' = [ref EXCEPT ![t] = NewEpoch(t)]  PROVE FALSE
      BY <1>b, <1>d, NewEpochShape
<1>e. ASSUME NEW t \in Tabs, ref' = [ref EXCEPT ![t] = Refreshing(t)]  PROVE FALSE
      BY <1>b, <1>e, RefreshingShape
<1>1. ASSUME NEW t \in Tabs, RefreshStep(t)  PROVE page[u].sid = ref[u].exp
  <2>1. CASE Bootstrap(t)
        BY <2>1, <1>e DEF Bootstrap
  <2>2. CASE Acquire(t) \/ Serve(t) \/ DeliverSuperseded(t)
        BY <2>2 DEF Acquire, Serve, DeliverSuperseded
  <2>3. CASE DeliverBundle(t) \/ DeliverMismatch(t)
        BY <2>3, <1>a, <1>b DEF DeliverBundle, DeliverMismatch
  <2>4. CASE DeliverUnauthorized(t) \/ DeliverOther(t)
        BY <2>4, <1>a, <1>b DEF DeliverUnauthorized, DeliverOther, ClearAuthentication
  <2>5. CASE Timeout(t)
        BY <2>5, <1>b DEF Timeout, PageType
  <2>6. CASE Settle(t)
        BY <2>6, <1>b, <1>c, Shapes DEF Settle
  <2> QED  BY <1>1, <2>1, <2>2, <2>3, <2>4, <2>5, <2>6 DEF RefreshStep
<1>2. ASSUME NEW t \in Tabs, RequestStep(t)  PROVE FALSE
      BY <1>2, <1>c, <1>d, <1>e DEF RequestStep, FetchStart, FetchOK, FetchRefused,
         FetchRefusedAgain, FetchFail, Rotation
<1>3. ASSUME NEW t \in Tabs, SessionStep(t)  PROVE FALSE
      BY <1>3, <1>c, <1>d, <1>e DEF SessionStep, LoginAnswer, LoginApply, LogoutRequest,
         LogoutAnswer, ClearAuthentication, EventAuthenticated, EventSignedOut,
         EventIgnored, Reload
<1>4. CASE (\E c \in late : ServeLate(c)) \/ (\E s \in Sids : Revoke(s)) \/ UNCHANGED vars
      BY <1>4 DEF ServeLate, Revoke, vars
<1> QED  BY <1>1, <1>2, <1>3, <1>4 DEF Next

\* A refresh moves a tab to another session only from the session it was sent
\* for: what a login, a logout or another tab did in between stands (the epoch
\* comparison of lib/auth-session-sync.ts).
THEOREM LateAnswersDropped == Spec => LateAnswersAreDropped
<1>1. Init => TypeInv /\ ExpInv
      BY TypeInvInit, ExpInit
<1>2. (TypeInv /\ ExpInv) /\ [Next]_vars => (TypeInv /\ ExpInv)'
      BY TypeInvInductive, ExpInductive
<1>3. (TypeInv /\ ExpInv) /\ [Next]_vars => [Dropped]_vars
      BY DroppedStep
<1>4. Spec => [][Dropped]_vars
      BY <1>1, <1>2, <1>3, PTL DEF Spec
<1> QED  BY <1>4 DEF LateAnswersAreDropped, Dropped

-----------------------------------------------------------------------------
(* The cookie jar, with Web Locks.                                         *)

\* The profile begins without a cookie.
LEMMA JarInit == Init => JarInv
BY DEF Init, JarInv, RowsInv, LateInv, BackInv, RunsInv, LockInv, Carried, Brought,
   NoRefresh, Holding

\* A run is as it was, as far as the jar is concerned, holds no lock, or has an
\* answer without a cookie.
Undisturbed(u) == \/ ~Holding(ref'[u])
                  \/ /\ ref'[u].pc = ref[u].pc
                     /\ ref'[u].cookie = ref[u].cookie
                     /\ ref'[u].ans = ref[u].ans
                  \/ /\ Holding(ref[u])
                     /\ ref'[u].pc = "served"
                     /\ ref'[u].ans # "ok"

\* Rows keep their generation, and none begins or vanishes.
RowsKept == \A s \in Sids : /\ session'[s].gen = session[s].gen
                            /\ session'[s].status = "none" <=> session[s].status = "none"

\* A revocation changes no generation.
LEMMA RevokedKeeps ==
    ASSUME TypeOK, NEW S, session' = Revoked(S)
    PROVE  RowsKept
<1> SUFFICES ASSUME NEW s \in Sids
             PROVE  /\ session'[s].gen = session[s].gen
                    /\ session'[s].status = "none" <=> session[s].status = "none"
    BY DEF RowsKept
<1>1. session[s] \in [status : {"none", "active", "revoked"}, gen : 0 .. MaxGen]
      BY DEF TypeOK
<1>2. session'[s] = IF s \in S /\ Active(s)
                    THEN [session[s] EXCEPT !.status = "revoked"] ELSE session[s]
      BY DEF Revoked
<1> QED  BY <1>1, <1>2 DEF Active

\* Steps that leave the runs under way alone and may orphan one request.
LEMMA QuietStep ==
    ASSUME TypeInv, JarInv, RowsKept, jar' = jar \/ jar' = None, NEW t,
           \/ late' \subseteq late
           \/ t \in Tabs /\ late' = late \cup Orphan(ref[t]) /\ ~Holding(ref'[t]),
           \A u \in Tabs : Undisturbed(u)
    PROVE  JarInv'
<1> TypeOK
    BY DEF TypeInv
<1>a. \A c \in Cookies : c.sid \in Sids
      BY DEF Cookies
<1>b. ASSUME NEW c \in Cookies, Existing(c)  PROVE Existing(c)'
      BY <1>a, <1>b DEF Existing, RowsKept
<1>c. (t \in Tabs => ref[t].cookie \in Cookies \cup {None}) /\ jar \in Cookies \cup {None}
      BY DEF TypeOK
<1>d. \A c \in late' : c \in late \/ (t \in Tabs /\ ref[t].pc = "sent" /\ ref[t].cookie # None
                                      /\ c = ref[t].cookie /\ ~Holding(ref'[t]))
      BY DEF Orphan
<1>e. t \in Tabs /\ ref[t].pc = "sent" /\ ref[t].cookie # None => Carried(ref[t]) /\ Existing(ref[t].cookie)
      BY DEF JarInv, RunsInv, Carried
<1>f. ASSUME NEW u \in Tabs, t \in Tabs, u # t, Holding(ref[t])  PROVE ~Holding(ref'[u])
      BY <1>f DEF JarInv, LockInv, Undisturbed, Holding
<1>1. RowsInv'
      BY DEF JarInv, RowsInv, RowsKept
<1>2. LateInv'
  <2> SUFFICES ASSUME NEW c \in late'  PROVE Existing(c)'
      BY DEF LateInv, Existing
  <2>1. c \in Cookies /\ Existing(c)
        BY <1>c, <1>d, <1>e DEF JarInv, LateInv, TypeOK
  <2> QED  BY <2>1, <1>b
<1>3. BackInv'
  <2>1. CASE jar' = None
        BY <2>1 DEF BackInv
  <2>2. CASE jar' = jar /\ jar # None
    <3>1. Existing(jar)'
          BY <2>2, <1>b, <1>c DEF JarInv, BackInv, Existing
    <3>2. session'[jar.sid].gen - jar.gen \in {0, 1}
          BY <2>2, <1>a, <1>c DEF JarInv, BackInv, RowsKept
    <3>3. \A c \in late' : c.sid = jar.sid => c.gen <= jar.gen
          BY <2>2, <1>c, <1>d, <1>e DEF JarInv, BackInv, Carried, SameSid
    <3> QED  BY <2>2, <3>1, <3>2, <3>3 DEF BackInv
  <2> QED  BY <2>1, <2>2
<1>4. RunsInv'
  <2> SUFFICES ASSUME NEW u \in Tabs  PROVE Carried(ref[u])' /\ Brought(ref[u])'
      BY DEF RunsInv
  <2>1. CASE ~Holding(ref'[u])
        BY <2>1 DEF Carried, Brought, Holding
  <2>3. CASE ref'[u].pc = "served" /\ ref'[u].ans # "ok"
        BY <2>3 DEF Carried, Brought
  <2>2. CASE Holding(ref'[u]) /\ ~(ref'[u].pc = "served" /\ ref'[u].ans # "ok")
    <3>1. /\ ref'[u].pc = ref[u].pc /\ ref'[u].cookie = ref[u].cookie
          /\ ref'[u].ans = ref[u].ans
          BY <2>2 DEF Undisturbed
    <3>3. late' \subseteq late
      <4>1. CASE u = t
            BY <2>2, <1>d, <4>1
      <4>2. CASE u # t
            BY <2>2, <1>d, <1>f, <4>2 DEF Holding
      <4> QED  BY <4>1, <4>2
    <3>4. Carried(ref[u]) /\ Brought(ref[u]) /\ Answered(ref[u])
          BY DEF JarInv, RunsInv, TypeInv
    <3>5. ref[u].cookie \in Cookies \cup {None}
          BY DEF TypeOK
    <3>6. Carried(ref[u])'
      <4> SUFFICES ASSUME ref'[u].pc = "sent", ref'[u].cookie # None
                   PROVE  /\ Existing(ref[u].cookie)'
                          /\ \A c \in late' : c.sid = ref'[u].cookie.sid
                                                => c.gen <= ref'[u].cookie.gen
                          /\ SameSid(jar', ref'[u].cookie)
                               => ref'[u].cookie.gen <= jar'.gen
          BY DEF Carried, SameSid
      <4>1. Existing(ref[u].cookie)'
            BY <3>1, <3>4, <3>5, <1>b DEF Carried, Existing
      <4> QED  BY <3>1, <3>3, <3>4, <4>1 DEF Carried, SameSid
    <3>7. Brought(ref[u])'
      <4> SUFFICES ASSUME ref'[u].pc = "served", ref'[u].ans = "ok"
                   PROVE  /\ Existing(ref[u].cookie)' /\ Current(ref[u].cookie)'
                          /\ \A c \in late' : c.sid = ref'[u].cookie.sid
                                                => c.gen < ref'[u].cookie.gen
          BY DEF Brought
      <4>1. ref[u].cookie \in Cookies /\ Existing(ref[u].cookie) /\ Current(ref[u].cookie)
            BY <3>1, <3>4 DEF Answered, Brought
      <4>2. /\ session'[ref[u].cookie.sid].gen = session[ref[u].cookie.sid].gen
            /\ session'[ref[u].cookie.sid].status # "none"
            BY <4>1, <1>a DEF RowsKept, Existing
      <4>3. Existing(ref[u].cookie)' /\ Current(ref[u].cookie)'
            BY <4>1, <4>2, <3>1 DEF Existing, Current
      <4> QED  BY <3>1, <3>3, <3>4, <4>3 DEF Brought
    <3> QED  BY <3>6, <3>7
  <2> QED  BY <2>1, <2>2, <2>3
<1>5. LockInv'
      BY DEF JarInv, LockInv, Undisturbed, Holding
<1> QED  BY <1>1, <1>2, <1>3, <1>4, <1>5 DEF JarInv

\* A run sends the jar's token when nobody else holds the lock.
LEMMA SendStep ==
    ASSUME TypeInv, JarInv, NEW t \in Tabs, UNCHANGED <<session, jar, late>>,
           ref'[t].pc = "sent", ref'[t].cookie = jar,
           \A u \in Tabs : u # t => ref'[u] = ref[u] /\ ~Holding(ref[u])
    PROVE  JarInv'
<1>1. RowsInv' /\ LateInv' /\ BackInv'
      BY DEF JarInv, RowsInv, LateInv, BackInv, Existing
<1>2. Carried(ref[t])' /\ Brought(ref[t])'
      BY DEF JarInv, BackInv, Carried, Brought, Existing, SameSid, TypeInv, TypeOK, Cookies
<1>3. ASSUME NEW u \in Tabs, u # t  PROVE Carried(ref[u])' /\ Brought(ref[u])'
      BY <1>3 DEF Carried, Brought, Holding
<1>4. RunsInv'
      BY <1>2, <1>3 DEF RunsInv
<1>5. LockInv'
      BY DEF LockInv, Holding
<1> QED  BY <1>1, <1>4, <1>5 DEF JarInv

\* The browser stores the cookie of an answer, which ends the run.
LEMMA StoreStep ==
    ASSUME TypeInv, JarInv, NEW t \in Tabs, ref[t].pc = "served", StoreCookie(ref[t]),
           UNCHANGED <<session, late>>, ~Holding(ref'[t]),
           \A u \in Tabs : u # t => ref'[u] = ref[u]
    PROVE  JarInv'
<1> TypeOK /\ Answered(ref[t]) /\ Brought(ref[t])
    BY DEF TypeInv, JarInv, RunsInv
<1>1. CASE ref[t].ans = "ok"
  <2>1. /\ jar' = ref[t].cookie /\ ref[t].cookie \in Cookies
        /\ Existing(ref[t].cookie) /\ Current(ref[t].cookie)
        /\ \A c \in late : c.sid = ref[t].cookie.sid => c.gen < ref[t].cookie.gen
        BY <1>1 DEF StoreCookie, Answered, Brought
  <2>2. /\ ref[t].cookie.gen \in Int
        /\ \A c \in late : c.gen \in Int
        BY <2>1 DEF TypeOK, Cookies
  <2>3. BackInv'
        BY <2>1, <2>2 DEF BackInv, Existing, Current
  <2>4. RowsInv' /\ LateInv'
        BY DEF JarInv, RowsInv, LateInv, Existing
  <2>5. RunsInv'
    <3> SUFFICES ASSUME NEW u \in Tabs  PROVE Carried(ref[u])' /\ Brought(ref[u])'
        BY DEF RunsInv
    <3>1. ~Holding(ref'[u])
          BY DEF JarInv, LockInv, Holding
    <3> QED  BY <3>1 DEF Carried, Brought, Holding
  <2>6. LockInv'
        BY DEF JarInv, LockInv, Holding
  <2> QED  BY <2>3, <2>4, <2>5, <2>6 DEF JarInv
<1>2. CASE ref[t].ans # "ok"
  <2>1. jar' = jar \/ jar' = None
        BY <1>2 DEF StoreCookie, Answered
  <2>2. \A u \in Tabs : Undisturbed(u)
        BY DEF Undisturbed
  <2> QED  BY <2>1, <2>2, QuietStep DEF RowsKept
<1> QED  BY <1>1, <1>2

\* A token that is current is replaced by its successor; otherwise generations
\* and the existence of sessions are kept.
LEMMA RotatedShape ==
    ASSUME TypeOK, NEW c \in Cookies, NEW a, session' = Rotated(c, a)
    PROVE  \/ RowsKept
           \/ /\ Current(c) /\ Active(c.sid) /\ a # "mismatch"
              /\ session'[c.sid].gen = session[c.sid].gen + 1
              /\ session'[c.sid].status = "active"
              /\ \A s \in Sids : s # c.sid => session'[s] = session[s]
<1>1. c.sid \in Sids /\ session \in [Sids -> [status : {"none", "active", "revoked"},
                                              gen : 0 .. MaxGen]]
      BY DEF TypeOK, Cookies
<1>2. CASE session' = session
      BY <1>2 DEF RowsKept
<1>3. CASE /\ Active(c.sid) /\ Current(c) /\ a # "mismatch"
           /\ session' = [session EXCEPT ![c.sid].gen = @ + 1]
      BY <1>1, <1>3 DEF Active
<1>4. CASE Active(c.sid) /\ session' = [session EXCEPT ![c.sid].status = "revoked"]
      BY <1>1, <1>4 DEF Active, RowsKept
<1> QED  BY <1>2, <1>3, <1>4 DEF Rotated

\* The rotation of a token that nothing older than the jar's holds leaves the
\* jar one generation behind.
LEMMA RotationStep ==
    ASSUME TypeInv, JarInv, NEW c \in Cookies, UNCHANGED jar, late' \subseteq late,
           Current(c), Active(c.sid),
           session'[c.sid].gen = session[c.sid].gen + 1,
           session'[c.sid].status = "active",
           \A s \in Sids : s # c.sid => session'[s] = session[s],
           jar # None /\ jar.sid = c.sid => c.gen <= jar.gen
    PROVE  /\ RowsInv' /\ LateInv' /\ BackInv'
           /\ \A d \in Cookies : Existing(d) => Existing(d)'
<1> TypeOK
    BY DEF TypeInv
<1>1. c.sid \in Sids /\ session[c.sid].gen \in Int /\ c.gen \in Int
      BY DEF TypeOK, Cookies
<1>2. RowsInv'
      BY DEF JarInv, RowsInv
<1>3. \A d \in Cookies : Existing(d) => Existing(d)'
  <2> SUFFICES ASSUME NEW d \in Cookies, Existing(d)  PROVE Existing(d)'
      OBVIOUS
  <2>1. d.sid \in Sids /\ d.gen \in Int
        BY DEF Cookies
  <2>2. CASE d.sid = c.sid
        BY <1>1, <2>1, <2>2 DEF Existing
  <2>3. CASE d.sid # c.sid
        BY <2>1, <2>3 DEF Existing
  <2> QED  BY <2>2, <2>3
<1>4. LateInv'
      BY <1>3 DEF JarInv, LateInv, TypeOK
<1>5. BackInv'
  <2> SUFFICES ASSUME jar # None  PROVE BackInv'
      BY DEF BackInv
  <2>1. /\ jar \in Cookies /\ Existing(jar) /\ session[jar.sid].gen - jar.gen \in {0, 1}
        /\ \A d \in late : d.sid = jar.sid => d.gen <= jar.gen
        BY DEF JarInv, BackInv, TypeOK
  <2>2. Existing(jar)'
        BY <1>3, <2>1 DEF Existing
  <2>3. session'[jar.sid].gen - jar.gen \in {0, 1}
    <3>1. jar.sid \in Sids /\ jar.gen \in Int /\ session[jar.sid].gen \in Int
          BY <2>1 DEF Cookies, TypeOK
    <3>2. CASE jar.sid = c.sid
          BY <2>1, <3>1, <3>2, <1>1 DEF Current, Existing
    <3>3. CASE jar.sid # c.sid
          BY <2>1, <3>1, <3>3
    <3> QED  BY <3>2, <3>3
  <2> QED  BY <2>1, <2>2, <2>3 DEF BackInv
<1> QED  BY <1>2, <1>3, <1>4, <1>5

\* The server answers a run.
LEMMA ServeStep ==
    ASSUME TypeInv, JarInv, NEW t \in Tabs, Serve(t)
    PROVE  JarInv'
<1> DEFINE k == ref[t].cookie
<1> TypeOK /\ Carried(ref[t])
    BY DEF TypeInv, JarInv, RunsInv
<1>a. ref[t] \in RefType /\ ref \in [Tabs -> RefType] /\ ref[t].pc = "sent"
      BY DEF TypeOK, RefType, Serve
<1>b. \A u \in Tabs : u # t => ref'[u] = ref[u] /\ ~Holding(ref[u])
      BY <1>a DEF Serve, JarInv, LockInv, Holding
<1>c. UNCHANGED <<jar, late>>
      BY DEF Serve
<1>d. ASSUME NEW a, NEW c, ref' = [ref EXCEPT ![t] = Served(ref[t], a, c)]
      PROVE  ref'[t].pc = "served" /\ ref'[t].ans = a /\ ref'[t].cookie = c
      BY <1>a, <1>d DEF Served, RefType
<1>e. ASSUME RowsKept, ref'[t].pc = "served", ref'[t].ans # "ok"  PROVE JarInv'
  <2>1. \A u \in Tabs : Undisturbed(u)
        BY <1>a, <1>b, <1>e DEF Undisturbed, Holding
  <2> QED  BY <1>c, <1>e, <2>1, QuietStep
<1>f. LockInv'
      BY <1>b DEF LockInv, Holding
<1>g. ASSUME Carried(ref[t])', Brought(ref[t])'  PROVE RunsInv'
      BY <1>b, <1>g DEF RunsInv, Carried, Brought, Holding
<1>1. CASE \E a \in Answer(k, ref[t].exp) :
             /\ session' = Rotated(k, a)
             /\ ref' = [ref EXCEPT ![t] = Served(ref[t], a,
                   IF a # "ok" THEN None
                   ELSE [sid |-> k.sid, gen |-> session'[k.sid].gen])]
  <2>1. PICK a \in Answer(k, ref[t].exp) :
             /\ session' = Rotated(k, a)
             /\ ref' = [ref EXCEPT ![t] = Served(ref[t], a,
                   IF a # "ok" THEN None
                   ELSE [sid |-> k.sid, gen |-> session'[k.sid].gen])]
        BY <1>1
  <2>2. CASE k = None
    <3>1. session' = session /\ a # "ok"
          BY <2>1, <2>2 DEF Rotated, Answer
    <3>2. RowsKept
          BY <3>1 DEF RowsKept
    <3>3. ref'[t].pc = "served" /\ ref'[t].ans = a
          BY <1>d, <2>1
    <3> QED  BY <1>e, <3>1, <3>2, <3>3
  <2>3. CASE k # None /\ a # "ok"
    <3>1. k \in Cookies
          BY <1>a, <2>3 DEF RefType
    <3>2. ~(Current(k) /\ Active(k.sid) /\ a # "mismatch")
          BY <2>3, <3>1, <2>1 DEF Answer, Current
    <3>3. RowsKept
          BY <2>1, <3>1, <3>2, RotatedShape
    <3> QED  BY <1>d, <1>e, <2>1, <2>3, <3>3
  <2>4. CASE k # None /\ a = "ok"
    <3> DEFINE n == [sid |-> k.sid, gen |-> session'[k.sid].gen]
    <3>1. k \in Cookies /\ k.sid \in Sids /\ k.gen \in Int /\ session[k.sid].gen \in Int
          BY <1>a, <2>4 DEF RefType, TypeOK, Cookies
    <3>2. Active(k.sid) /\ (Current(k) \/ Replay(k))
          BY <2>1, <2>4 DEF Answer
    <3>3. ref'[t].pc = "served" /\ ref'[t].cookie = n
          BY <1>d, <2>1, <2>4
    <3>4. /\ Existing(k) /\ \A c \in late : c.sid = k.sid => c.gen <= k.gen
          /\ SameSid(jar, k) => k.gen <= jar.gen
          BY <1>a, <2>4 DEF Carried
    <3>5. \A c \in late : c.gen \in Int
          BY DEF TypeOK, Cookies
    <3>6. CASE Current(k)
      <4>1. /\ session'[k.sid].gen = session[k.sid].gen + 1
            /\ session'[k.sid].status = "active"
            /\ \A s \in Sids : s # k.sid => session'[s] = session[s]
        <5>1. session' = [session EXCEPT ![k.sid].gen = @ + 1]
              BY <2>1, <2>4, <3>2, <3>6 DEF Rotated
        <5> QED  BY <5>1, <3>1, <3>2 DEF TypeOK, Active
      <4>2. RowsInv' /\ LateInv' /\ BackInv'
            BY <1>c, <2>4, <3>1, <3>2, <3>4, <3>6, <4>1, RotationStep DEF SameSid
      <4>3. Carried(ref[t])'
            BY <3>3 DEF Carried
      <4>4. \A c \in late : c.sid = k.sid => c.gen < n.gen
            BY <3>1, <3>4, <3>5, <3>6, <4>1 DEF Current
      <4>5. Brought(ref[t])'
            BY <1>c, <3>1, <3>3, <4>1, <4>4 DEF Brought, Existing, Current
      <4> QED  BY <1>f, <1>g, <4>2, <4>3, <4>5 DEF JarInv
    <3>7. CASE Replay(k)
      <4>1. session' = session
            BY <2>1, <2>4, <3>1, <3>2, <3>7 DEF Rotated, Current, Replay
      <4>2. RowsInv' /\ LateInv' /\ BackInv'
            BY <1>c, <4>1 DEF JarInv, RowsInv, LateInv, BackInv, Existing
      <4>3. Carried(ref[t])'
            BY <3>3 DEF Carried
      <4>4. \A c \in late : c.sid = k.sid => c.gen < n.gen
            BY <3>1, <3>4, <3>5, <3>7, <4>1 DEF Replay
      <4>5. Brought(ref[t])'
            BY <1>c, <3>1, <3>3, <3>4, <4>1, <4>4 DEF Brought, Existing, Current
      <4> QED  BY <1>f, <1>g, <4>2, <4>3, <4>5 DEF JarInv
    <3> QED  BY <3>2, <3>6, <3>7
  <2> QED  BY <2>2, <2>3, <2>4
<1>2. CASE ref' = [ref EXCEPT ![t] = Served(ref[t], "other", None)] /\ UNCHANGED session
  <2>1. RowsKept
        BY <1>2 DEF RowsKept
  <2>2. ref'[t].pc = "served" /\ ref'[t].ans = "other"
        BY <1>d, <1>2
  <2> QED  BY <1>e, <2>1, <2>2
<1> QED  BY <1>1, <1>2 DEF Serve

\* The server executes a request nobody waits for.
LEMMA ServeLateStep ==
    ASSUME TypeInv, JarInv, NEW c \in late, ServeLate(c)
    PROVE  JarInv'
<1> TypeOK
    BY DEF TypeInv
<1>1. PICK a \in Answer(c, None) : session' = Rotated(c, a)
      BY DEF ServeLate
<1>2. /\ c \in Cookies /\ late' \subseteq late /\ UNCHANGED <<jar, ref>>
      /\ c.gen \in Int /\ session[c.sid].gen \in Int
      BY DEF ServeLate, TypeOK, Cookies
<1>3. CASE RowsKept
  <2>1. \A u \in Tabs : Undisturbed(u)
        BY <1>2 DEF Undisturbed
  <2> QED  BY <1>2, <1>3, <2>1, QuietStep
<1>4. CASE /\ Current(c) /\ Active(c.sid)
           /\ session'[c.sid].gen = session[c.sid].gen + 1
           /\ session'[c.sid].status = "active"
           /\ \A s \in Sids : s # c.sid => session'[s] = session[s]
  <2>1. jar # None /\ jar.sid = c.sid => c.gen <= jar.gen
        BY DEF JarInv, BackInv
  <2>2. /\ RowsInv' /\ LateInv' /\ BackInv'
        /\ \A d \in Cookies : Existing(d) => Existing(d)'
        BY <1>2, <1>4, <2>1, RotationStep
  <2>3. ASSUME NEW u \in Tabs  PROVE Carried(ref[u])' /\ Brought(ref[u])'
    <3>1. /\ Carried(ref[u]) /\ Brought(ref[u]) /\ Answered(ref[u])
          /\ ref[u].cookie \in Cookies \cup {None}
          BY DEF JarInv, RunsInv, TypeInv, TypeOK
    <3>2. Carried(ref[u])'
      <4> SUFFICES ASSUME ref[u].pc = "sent", ref[u].cookie # None
                   PROVE  Carried(ref[u])'
          BY <1>2 DEF Carried
      <4>1. Existing(ref[u].cookie)'
            BY <1>2, <2>2, <3>1 DEF Carried, Existing
      <4> QED  BY <1>2, <3>1, <4>1 DEF Carried, SameSid
    <3>3. Brought(ref[u])'
      <4> SUFFICES ASSUME ref[u].pc = "served", ref[u].ans = "ok"
                   PROVE  Brought(ref[u])'
          BY <1>2 DEF Brought
      <4>1. /\ ref[u].cookie \in Cookies /\ Existing(ref[u].cookie)
            /\ Current(ref[u].cookie)
            /\ \A d \in late : d.sid = ref[u].cookie.sid => d.gen < ref[u].cookie.gen
            BY <3>1 DEF Brought, Answered
      <4>2. ref[u].cookie.sid # c.sid /\ ref[u].cookie.sid \in Sids
            BY <1>2, <1>4, <4>1 DEF Current, Cookies
      <4>3. session'[ref[u].cookie.sid] = session[ref[u].cookie.sid]
            BY <1>4, <4>2
      <4> QED  BY <1>2, <4>1, <4>3 DEF Brought, Existing, Current
    <3> QED  BY <3>2, <3>3
  <2>4. LockInv'
        BY <1>2 DEF JarInv, LockInv, Holding
  <2> QED  BY <2>2, <2>3, <2>4 DEF JarInv, RunsInv
<1> QED  BY <1>1, <1>2, <1>3, <1>4, RotatedShape

\* A login creates a session that no request has a token of.
LEMMA LoginStep ==
    ASSUME TypeInv, JarInv, NEW t \in Tabs, NEW s \in Sids, LoginAnswer(t, s)
    PROVE  JarInv'
<1> TypeOK
    BY DEF TypeInv
<1>1. /\ session[s].status = "none" /\ session[s].gen = 0
      /\ session'[s].status = "active" /\ session'[s].gen = 0
      /\ \A q \in Sids : q # s => session'[q] = session[q]
      /\ jar' = [sid |-> s, gen |-> 0] /\ UNCHANGED <<late, ref>>
      BY DEF LoginAnswer, JarInv, RowsInv, TypeOK
<1>2. \A c \in Cookies : Existing(c) => c.sid # s /\ Existing(c)'
      BY <1>1 DEF Existing, Cookies
<1>3. RowsInv'
      BY <1>1 DEF JarInv, RowsInv
<1>4. LateInv'
      BY <1>1, <1>2 DEF JarInv, LateInv, TypeOK
<1>5. \A c \in late : c.sid # s
      BY <1>2 DEF JarInv, LateInv, TypeOK
<1>6. BackInv'
      BY <1>1, <1>5 DEF BackInv, Existing
<1>7. ASSUME NEW u \in Tabs  PROVE Carried(ref[u])' /\ Brought(ref[u])'
  <2>1. /\ Carried(ref[u]) /\ Brought(ref[u]) /\ Answered(ref[u])
        /\ ref[u].cookie \in Cookies \cup {None} /\ ref'[u] = ref[u]
        BY <1>1 DEF JarInv, RunsInv, TypeInv, TypeOK
  <2>2. ASSUME NEW c \in Cookies, c = ref[u].cookie, Existing(c)
        PROVE  /\ c.sid # s /\ Existing(c)' /\ (Current(c) => Current(c)')
               /\ c.sid \in Sids
        BY <1>1, <1>2, <2>2 DEF Current, Cookies
  <2>3. Carried(ref[u])'
    <3> SUFFICES ASSUME ref[u].pc = "sent", ref[u].cookie # None
                 PROVE  Carried(ref[u])'
        BY <2>1 DEF Carried
    <3>1. /\ ref[u].cookie.sid # s /\ Existing(ref[u].cookie)'
          BY <2>1, <2>2 DEF Carried, Existing
    <3> QED  BY <1>1, <2>1, <3>1 DEF Carried, SameSid
  <2>4. Brought(ref[u])'
    <3> SUFFICES ASSUME ref[u].pc = "served", ref[u].ans = "ok"
                 PROVE  Brought(ref[u])'
        BY <2>1 DEF Brought
    <3>1. ref[u].cookie \in Cookies /\ Existing(ref[u].cookie) /\ Current(ref[u].cookie)
          BY <2>1 DEF Brought, Answered
    <3>2. Existing(ref[u].cookie)' /\ Current(ref[u].cookie)'
          BY <2>1, <2>2, <3>1 DEF Existing, Current
    <3> QED  BY <1>1, <2>1, <3>1, <3>2 DEF Brought
  <2> QED  BY <2>3, <2>4
<1>8. LockInv'
      BY <1>1 DEF JarInv, LockInv, Holding
<1> QED  BY <1>3, <1>4, <1>6, <1>7, <1>8 DEF JarInv, RunsInv

\* With one lock for the profile, cookie and server stay one rotation apart.
LEMMA JarInductive ==
    ASSUME HasLocks  PROVE TypeInv /\ JarInv /\ [Next]_vars => JarInv'
<1> SUFFICES ASSUME TypeInv, JarInv, [Next]_vars  PROVE JarInv'
    OBVIOUS
<1> TypeOK
    BY DEF TypeInv
<1>b. ref \in [Tabs -> RefType] /\ \A t \in Tabs : ref[t] \in RefType
      BY DEF TypeOK, RefType
<1>r. session' = session => RowsKept
      BY DEF RowsKept
<1>c. ASSUME NEW t \in Tabs, PageLoad(t)  PROVE JarInv'
  <2>1. ~Holding(ref'[t]) /\ \A u \in Tabs : Undisturbed(u)
        BY <1>b, <1>c, Shapes DEF PageLoad, Undisturbed
  <2>2. late' = late \cup Orphan(ref[t]) /\ jar' = jar /\ session' = session
        BY <1>c DEF PageLoad
  <2> QED  BY <1>r, <2>1, <2>2, QuietStep
<1>d. ASSUME NEW t \in Tabs, RowsKept, jar' = jar \/ jar' = None, late' = late,
             \/ ref' = [ref EXCEPT ![t] = NewEpoch(t)]
             \/ ref' = [ref EXCEPT ![t] = Refreshing(t)]
             \/ ref' = [ref EXCEPT ![t] = NoRefresh]
             \/ \E o : ref' = [ref EXCEPT ![t] = Settled(o)]
             \/ ref' = ref
      PROVE  JarInv'
  <2>1. \A u \in Tabs : u # t => ref'[u] = ref[u]
        BY <1>b, <1>d
  <2>2. CASE ref' = [ref EXCEPT ![t] = NewEpoch(t)]
    <3>1. \A u \in Tabs : Undisturbed(u)
          BY <1>b, <2>1, <2>2, NewEpochShape DEF Undisturbed
    <3> QED  BY <1>d, <3>1, QuietStep
  <2>3. CASE ref' = [ref EXCEPT ![t] = Refreshing(t)]
    <3>1. \A u \in Tabs : Undisturbed(u)
          BY <1>b, <2>1, <2>3, RefreshingShape DEF Undisturbed, Holding
    <3> QED  BY <1>d, <3>1, QuietStep
  <2>4. CASE \/ ref' = [ref EXCEPT ![t] = NoRefresh]
             \/ \E o : ref' = [ref EXCEPT ![t] = Settled(o)]
             \/ ref' = ref
    <3>1. \A u \in Tabs : Undisturbed(u)
          BY <1>b, <2>1, <2>4, Shapes DEF Undisturbed
    <3> QED  BY <1>d, <3>1, QuietStep
  <2> QED  BY <1>d, <2>2, <2>3, <2>4
<1>e. ASSUME NEW t \in Tabs, NEW o, ref' = [ref EXCEPT ![t] = Settled(o)]
      PROVE  ~Holding(ref'[t]) /\ \A u \in Tabs : u # t => ref'[u] = ref[u]
      BY <1>b, <1>e, Shapes
<1>1. ASSUME NEW t \in Tabs, RefreshStep(t)  PROVE JarInv'
  <2>1. CASE Bootstrap(t)
        BY <2>1, <1>d, <1>r DEF Bootstrap
  <2>2. CASE Acquire(t)
    <3>1. CASE ref[t].live
      <4>1. Send(ref[t], page[t].sid).pc = "sent" /\ Send(ref[t], page[t].sid).cookie = jar
            BY <1>b DEF Send, RefType
      <4>2. /\ ref'[t] = Send(ref[t], page[t].sid) /\ UNCHANGED <<session, jar, late>>
            /\ \A u \in Tabs : u # t => ref'[u] = ref[u]
            BY <2>2, <3>1, <1>b DEF Acquire
      <4>3. \A u \in Tabs : ~Holding(ref[u])
            BY <2>2 DEF Acquire, LockFree
      <4> QED  BY <4>1, <4>2, <4>3, SendStep
    <3>2. CASE ~ref[t].live
          BY <2>2, <3>2, <1>d, <1>r DEF Acquire
    <3> QED  BY <3>1, <3>2
  <2>3. CASE Serve(t)
        BY <2>3, ServeStep
  <2>4. CASE DeliverSuperseded(t)
        BY <2>4, <1>e, StoreStep DEF DeliverSuperseded
  <2>5. CASE DeliverBundle(t)
        BY <2>5, <1>e, StoreStep DEF DeliverBundle
  <2>6. CASE DeliverMismatch(t)
    <3>1. [ref[t] EXCEPT !.ans = None] \in RefType
          BY <1>b DEF RefType
    <3>2. /\ Send([ref[t] EXCEPT !.ans = None], None).pc = "sent"
          /\ Send([ref[t] EXCEPT !.ans = None], None).cookie = jar
          BY <3>1 DEF Send, RefType
    <3>3. /\ ref'[t] = Send([ref[t] EXCEPT !.ans = None], None)
          /\ \A u \in Tabs : u # t => ref'[u] = ref[u]
          /\ UNCHANGED <<session, jar, late>>
          BY <2>6, <1>b DEF DeliverMismatch
    <3>4. \A u \in Tabs : u # t => ~Holding(ref[u])
          BY <2>6 DEF DeliverMismatch, JarInv, LockInv, Holding
    <3> QED  BY <3>2, <3>3, <3>4, SendStep
  <2>7. CASE DeliverUnauthorized(t)
        BY <2>7, <1>e, StoreStep DEF DeliverUnauthorized, ClearAuthentication
  <2>8. CASE DeliverOther(t)
        BY <2>8, <1>d, <1>r DEF DeliverOther, ClearAuthentication
  <2>9. CASE Timeout(t)
    <3>1. ~Holding(ref'[t]) /\ \A u \in Tabs : u # t => ref'[u] = ref[u]
          BY <2>9, <1>e DEF Timeout
    <3>2. \A u \in Tabs : Undisturbed(u)
          BY <3>1 DEF Undisturbed
    <3>3. late' = late \cup Orphan(ref[t]) /\ jar' = jar /\ session' = session
          BY <2>9 DEF Timeout
    <3> QED  BY <1>r, <3>1, <3>2, <3>3, QuietStep
  <2>10. CASE Settle(t)
        BY <2>10, <1>c, <1>d, <1>r DEF Settle
  <2> QED  BY <1>1, <2>1, <2>2, <2>3, <2>4, <2>5, <2>6, <2>7, <2>8, <2>9, <2>10
           DEF RefreshStep
<1>2. ASSUME NEW t \in Tabs, RequestStep(t)  PROVE JarInv'
  <2>1. CASE FetchStart(t) \/ FetchOK(t) \/ FetchRefused(t) \/ FetchFail(t)
        BY <2>1, <1>d, <1>r DEF FetchStart, FetchOK, FetchRefused, FetchFail
  <2>2. CASE FetchRefusedAgain(t)
        BY <2>2, <1>c, <1>d, <1>r DEF FetchRefusedAgain
  <2>3. CASE Rotation(t)
        BY <2>3, <1>d, RevokedKeeps DEF Rotation
  <2> QED  BY <1>2, <2>1, <2>2, <2>3 DEF RequestStep
<1>3. ASSUME NEW t \in Tabs, SessionStep(t)  PROVE JarInv'
  <2>1. CASE \E s \in Sids : LoginAnswer(t, s)
        BY <2>1, LoginStep
  <2>2. CASE LoginApply(t) \/ (\E e \in inbox[t] : EventSignedOut(t, e) \/ EventIgnored(t, e))
        BY <2>2, <1>d, <1>r DEF LoginApply, EventSignedOut, EventIgnored
  <2>3. CASE LogoutRequest(t)
    <3>1. RowsKept
          BY <2>3, <1>r, RevokedKeeps DEF LogoutRequest
    <3> QED  BY <2>3, <3>1, <1>d DEF LogoutRequest
  <2>4. CASE LogoutAnswer(t)
        BY <2>4, <1>d, <1>r DEF LogoutAnswer, ClearAuthentication
  <2>5. CASE (\E e \in inbox[t] : EventAuthenticated(t, e)) \/ Reload(t)
        BY <2>5, <1>c DEF EventAuthenticated, Reload
  <2> QED  BY <1>3, <2>1, <2>2, <2>3, <2>4, <2>5 DEF SessionStep
<1>4. CASE \E c \in late : ServeLate(c)
      BY <1>4, ServeLateStep
<1>5. CASE (\E s \in Sids : Revoke(s)) \/ UNCHANGED vars
  <2>1. RowsKept /\ UNCHANGED <<jar, late, ref>>
        BY <1>5, <1>r, RevokedKeeps DEF Revoke, vars
  <2>2. \A u \in Tabs : Undisturbed(u)
        BY <2>1 DEF Undisturbed
  <2> QED  BY <2>1, <2>2, QuietStep
<1> QED  BY <1>1, <1>2, <1>3, <1>4, <1>5 DEF Next

\* Where the browser has Web Locks (navigator.locks), the profile's cookie is
\* never more than one generation behind the server's row, whatever requests
\* are lost, aborted or served late: the grace window of RotateUserSessionRefresh
\* is enough to keep a session alive.
THEOREM JarStaysCurrent == ASSUME HasLocks  PROVE Spec => []JarIsCurrent
<1>1. Init => TypeInv /\ JarInv
      BY TypeInvInit, JarInit
<1>2. (TypeInv /\ JarInv) /\ [Next]_vars => (TypeInv /\ JarInv)'
      BY TypeInvInductive, JarInductive
<1>3. JarInv => JarIsCurrent
      BY DEF JarInv, BackInv, JarIsCurrent
<1> QED  BY <1>1, <1>2, <1>3, PTL DEF Spec
=============================================================================
