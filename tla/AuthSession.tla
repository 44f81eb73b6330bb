---------------------------- MODULE AuthSession ----------------------------
(***************************************************************************)
(* The login session as the web console keeps it (apps/web/src/lib         *)
(* auth-session.ts, auth-session-sync.ts, http-client.ts): every tab has a *)
(* store, a query cache and at most one refresh run; the tabs share the    *)
(* cookie jar, the Web Lock and a broadcast channel; the server rotates    *)
(* the refresh token (service/auth_session.go, model/user_session.go).     *)
(*                                                                         *)
(* A refresh token is its session and its generation: the successor of a   *)
(* token is a function of the token.  A cached answer is the session whose *)
(* token fetched it.  The epoch counter of a tab is kept as the flag       *)
(* `live' of its run: no epoch was begun since the run began.              *)
(***************************************************************************)
EXTENDS Integers, FiniteSets

CONSTANTS Tabs,        \* tabs of one browser profile
          Sids,        \* sessions that logins may create
          MaxGen,      \* bound: rotations of one session
          HasLocks,    \* navigator.locks exists
          MaxOps,      \* bound: what users, timers and failures begin
          None

ASSUME AuthAssumption ==
    /\ None \notin Sids /\ MaxGen \in Nat
    /\ HasLocks \in BOOLEAN /\ MaxOps \in Nat

VARIABLES session,   \* session[s]: the server's row
          jar,       \* the refresh cookie of the profile
          late,      \* refresh requests nobody waits for any more
          page,      \* page[t]: auth store and query cache
          ref,       \* ref[t]: refreshPromise and its run
          fetch,     \* fetch[t]: an API request and its retry
          login,     \* login[t]: session of a login answer not yet applied
          logout,    \* logout[t]: executeLogout
          inbox,     \* inbox[t]: broadcast events not yet handled
          ops        \* operations and failures so far

vars == <<session, jar, late, page, ref, fetch, login, logout, inbox, ops>>

Cookies  == [sid : Sids, gen : 0 .. MaxGen]
Answers  == {"ok", "mismatch", "unauthorized", "other"}
Outcomes == {"authenticated", "anonymous", "out_of_sync", "transient_error"}
Events   == [kind : {"authenticated", "signed_out"}, sid : Sids]

FreshPage == [sid |-> None, boot |-> "idle", cache |-> {}]
NoRefresh == [pc |-> "none", live |-> FALSE, exp |-> None,
              cookie |-> None, ans |-> None]
NoFetch   == [pc |-> "none", again |-> FALSE, as |-> None, live |-> FALSE]
NoLogout  == [pc |-> "none", again |-> FALSE]

Init == /\ session = [s \in Sids |-> [status |-> "none", gen |-> 0]]
        /\ jar = None
        /\ late = {}
        /\ page = [t \in Tabs |-> FreshPage]
        /\ ref = [t \in Tabs |-> NoRefresh]
        /\ fetch = [t \in Tabs |-> NoFetch]
        /\ login = [t \in Tabs |-> None]
        /\ logout = [t \in Tabs |-> NoLogout]
        /\ inbox = [t \in Tabs |-> {}]
        /\ ops = 0

-----------------------------------------------------------------------------
(* The server.                                                             *)

Active(s)  == session[s].status = "active"
Current(c) == c.gen = session[c.sid].gen
Replay(c)  == c.gen = session[c.sid].gen - 1

\* RefreshLoginSession and RotateUserSessionRefresh: what a refresh with cookie
\* c for session e may answer.  The current token is rotated; the previous one
\* gets the same successor inside its grace window and revokes the session after
\* it; an older one is refused and changes nothing.
Answer(c, e) ==
    IF c = None THEN {"unauthorized"}
    ELSE IF e \notin {None, c.sid} THEN {"mismatch"}
    ELSE IF ~Active(c.sid) THEN {"unauthorized"}
    ELSE IF Current(c) THEN {"ok"}
    ELSE IF Replay(c) THEN {"ok", "unauthorized"}
    ELSE {"unauthorized"}

\* A bug: every use of the previous token begins another generation.
Rotated_NewSuccessor(c, a) ==
    IF c = None \/ a # "ok" THEN session ELSE [session EXCEPT ![c.sid].gen = @ + 1]

Rotated(c, a) ==
    IF c = None \/ a = "mismatch" THEN session
    ELSE IF Active(c.sid) /\ Current(c) THEN [session EXCEPT ![c.sid].gen = @ + 1]
    ELSE IF Active(c.sid) /\ Replay(c) /\ a = "unauthorized"
         THEN [session EXCEPT ![c.sid].status = "revoked"]
    ELSE session

Revoked(S) == [s \in Sids |-> IF s \in S /\ Active(s)
                              THEN [session[s] EXCEPT !.status = "revoked"]
                              ELSE session[s]]

\* Cap of the generation counter.
MayRotate(c) == ~Current(c) \/ c.gen < MaxGen

-----------------------------------------------------------------------------
(* The tab.                                                                *)

Running(r) == r.pc \in {"lock", "sent", "served"}
Holding(r) == r.pc \in {"sent", "served"}

\* authEpoch += 1: the answer of the run under way is no longer wanted.
NewEpoch(t) == IF Running(ref[t]) THEN [ref[t] EXCEPT !.live = FALSE] ELSE ref[t]

\* queryClient.clear(): answers to requests under way are not stored.
Uncached(t) == [fetch[t] EXCEPT !.live = FALSE]

\* refreshAuthentication(): one run per tab, joined by later callers.
Refreshing(t) ==
    IF ref[t].pc = "none"
    THEN [NoRefresh EXCEPT !.pc = "lock", !.live = TRUE]
    ELSE ref[t]

\* A bug: the check of an absent session is dropped.
Published_Unchecked(t, kind, s) ==
    [u \in Tabs |-> IF u = t THEN inbox[u]
                    ELSE inbox[u] \cup {[kind |-> kind, sid |-> s]}]

\* publishAuthSessionEvent: to every other tab, and only for a session.
Published(t, kind, s) ==
    [u \in Tabs |-> IF u = t \/ s = None THEN inbox[u]
                    ELSE inbox[u] \cup {[kind |-> kind, sid |-> s]}]

\* reset('complete') and the cleared query cache of clearAuthentication.
SignedOut == [FreshPage EXCEPT !.boot = "complete"]

\* applyAuthBundle: the page that shows session s next.
Bundled(t, s) ==
    [sid |-> s, boot |-> "complete",
     cache |-> IF page[t].sid \in {None, s} THEN page[t].cache ELSE {}]

\* A bug: the query cache survives clearAuthentication.
ClearAuthentication_KeepsCache(t, sync, r, l) ==
    /\ page' = [page EXCEPT ![t] = [SignedOut EXCEPT !.cache = page[t].cache]]
    /\ ref' = [ref EXCEPT ![t] = r]
    /\ UNCHANGED fetch
    /\ logout' = [logout EXCEPT ![t] = l]
    /\ inbox' = IF sync THEN Published(t, "signed_out", page[t].sid) ELSE inbox

\* clearAuthentication(sync) in a tab whose run has become r, logout l.
ClearAuthentication(t, sync, r, l) ==
    /\ page' = [page EXCEPT ![t] = SignedOut]
    /\ ref' = [ref EXCEPT ![t] = r]
    /\ fetch' = [fetch EXCEPT ![t] = Uncached(t)]
    /\ logout' = [logout EXCEPT ![t] = l]
    /\ inbox' = IF sync THEN Published(t, "signed_out", page[t].sid) ELSE inbox

\* A request the server may still execute after its sender stopped waiting.
Orphan(r) == IF r.pc = "sent" /\ r.cookie # None /\ r.exp \in {None, r.cookie.sid}
             THEN {r.cookie} ELSE {}

\* A document is unloaded and loaded again: memory, channel and lock are gone.
PageLoad(t) ==
    /\ page' = [page EXCEPT ![t] = FreshPage]
    /\ late' = late \cup Orphan(ref[t])
    /\ ref' = [ref EXCEPT ![t] = NoRefresh]
    /\ fetch' = [fetch EXCEPT ![t] = NoFetch]
    /\ login' = [login EXCEPT ![t] = None]
    /\ logout' = [logout EXCEPT ![t] = NoLogout]
    /\ inbox' = [inbox EXCEPT ![t] = {}]
    /\ UNCHANGED <<session, jar>>

Begin == ops < MaxOps /\ ops' = ops + 1

-----------------------------------------------------------------------------
(* The refresh run.                                                        *)

\* bootstrapAuthentication(), on every navigation.
Bootstrap(t) ==
    /\ page[t].boot # "complete" \/ page[t].sid # None
    /\ page' = [page EXCEPT ![t].boot = "checking"]
    /\ ref' = [ref EXCEPT ![t] = Refreshing(t)]
    /\ IF ref[t].pc = "none" THEN Begin ELSE UNCHANGED ops
    /\ UNCHANGED <<session, jar, late, fetch, login, logout, inbox>>

\* request(getExpectedSID()): run r sends the cookie and the tab's session.
Send(r, s) == [r EXCEPT !.pc = "sent", !.exp = s, !.cookie = jar]

Settled(outcome) == [NoRefresh EXCEPT !.pc = "settled", !.ans = outcome]

LockFree == HasLocks => \A u \in Tabs : ~Holding(ref[u])

\* A bug: a run of an older epoch forgets to return.
Acquire_NeverSuperseded(t) ==
    /\ ref[t].pc = "lock" /\ ref[t].live
    /\ LockFree
    /\ ref' = [ref EXCEPT ![t] = Send(@, page[t].sid)]
    /\ UNCHANGED <<session, jar, late, page, fetch, login, logout, inbox, ops>>

\* The lock is granted; a run of an older epoch returns without a request.
Acquire(t) ==
    /\ ref[t].pc = "lock"
    /\ LockFree
    /\ ref' = [ref EXCEPT ![t] = IF @.live THEN Send(@, page[t].sid)
                                           ELSE Settled("transient_error")]
    /\ UNCHANGED <<session, jar, late, page, fetch, login, logout, inbox, ops>>

\* The answer to run r, with the cookie it sets.
Served(r, a, c) == [r EXCEPT !.pc = "served", !.ans = a, !.cookie = c]

\* The server executes the request; `other' is an answer the client does not
\* know, a gateway's 403 or 404.
Serve(t) ==
    LET r == ref[t] IN
    /\ r.pc = "sent"
    /\ \/ /\ r.cookie # None => MayRotate(r.cookie)
          /\ \E a \in Answer(r.cookie, r.exp) :
             /\ session' = Rotated(r.cookie, a)
             /\ ref' = [ref EXCEPT ![t] = Served(r, a,
                   IF a # "ok" THEN None
                   ELSE [sid |-> r.cookie.sid, gen |-> session'[r.cookie.sid].gen])]
          /\ UNCHANGED ops
       \/ /\ ref' = [ref EXCEPT ![t] = Served(r, "other", None)]
          /\ Begin
          /\ UNCHANGED session
    /\ UNCHANGED <<jar, late, page, fetch, login, logout, inbox>>

\* The same without anybody who waits; it may be one of several equal requests.
ServeLate(c) ==
    /\ c \in late
    /\ MayRotate(c)
    /\ \E a \in Answer(c, None) : session' = Rotated(c, a)
    /\ late' \in {late, late \ {c}}
    /\ UNCHANGED <<jar, page, ref, fetch, login, logout, inbox, ops>>

\* The browser stores Set-Cookie before the code sees the answer.
StoreCookie(r) == jar' = IF r.ans \in {"ok", "unauthorized"} THEN r.cookie ELSE jar

\* isCurrent() fails after the answer.
DeliverSuperseded(t) ==
    /\ ref[t].pc = "served" /\ ~ref[t].live
    /\ StoreCookie(ref[t])
    /\ ref' = [ref EXCEPT ![t] = Settled("transient_error")]
    /\ UNCHANGED <<session, late, page, fetch, login, logout, inbox, ops>>

\* A bug: the epoch is not compared before the answer is accepted.
DeliverBundle_AnyEpoch(t) ==
    /\ ref[t].pc = "served" /\ ref[t].ans = "ok"
    /\ StoreCookie(ref[t])
    /\ page' = [page EXCEPT ![t] = Bundled(t, ref[t].cookie.sid)]
    /\ ref' = [ref EXCEPT ![t] = Settled("authenticated")]
    /\ UNCHANGED <<session, late, fetch, login, logout, inbox, ops>>

\* acceptBundle: applyAuthBundle(bundle, false).
DeliverBundle(t) ==
    LET s == ref[t].cookie.sid IN
    /\ ref[t].pc = "served" /\ ref[t].live /\ ref[t].ans = "ok"
    /\ StoreCookie(ref[t])
    /\ page' = [page EXCEPT ![t] = Bundled(t, s)]
    /\ fetch' = [fetch EXCEPT ![t] = IF page[t].sid \in {None, s} THEN @ ELSE Uncached(t)]
    /\ ref' = [ref EXCEPT ![t] = Settled("authenticated")]
    /\ UNCHANGED <<session, late, login, logout, inbox, ops>>

\* AUTH_SESSION_MISMATCH: the store is reset, not the epoch nor the cache, and
\* the request is sent once more without a session.
DeliverMismatch(t) ==
    /\ ref[t].pc = "served" /\ ref[t].live /\ ref[t].ans = "mismatch"
    /\ page' = [page EXCEPT ![t] = [FreshPage EXCEPT !.cache = page[t].cache]]
    /\ ref' = [ref EXCEPT ![t] = Send([@ EXCEPT !.ans = None], None)]
    /\ UNCHANGED <<session, jar, late, fetch, login, logout, inbox, ops>>

DeliverUnauthorized(t) ==
    /\ ref[t].pc = "served" /\ ref[t].live /\ ref[t].ans = "unauthorized"
    /\ StoreCookie(ref[t])
    /\ ClearAuthentication(t, TRUE, Settled("anonymous"), logout[t])
    /\ UNCHANGED <<session, late, login, ops>>

DeliverOther(t) ==
    /\ ref[t].pc = "served" /\ ref[t].live /\ ref[t].ans = "other"
    /\ ClearAuthentication(t, FALSE, Settled("out_of_sync"), logout[t])
    /\ UNCHANGED <<session, jar, late, login, ops>>

\* No answer: 10 s passed, the network failed or the server answered 5xx.
Timeout(t) ==
    /\ Holding(ref[t])
    /\ page' = IF ref[t].live THEN [page EXCEPT ![t].boot = "idle"] ELSE page
    /\ late' = late \cup Orphan(ref[t])
    /\ ref' = [ref EXCEPT ![t] = Settled("transient_error")]
    /\ Begin
    /\ UNCHANGED <<session, jar, fetch, login, logout, inbox>>

-----------------------------------------------------------------------------
(* API requests and those who wait for the run.                            *)

\* A request with the tab's token, or with the one it carried before.
Sent(t) == [fetch[t] EXCEPT !.pc = "sent",
                            !.as = IF page[t].sid = None THEN @ ELSE page[t].sid]

FetchStart(t) ==
    /\ page[t].sid # None
    /\ fetch[t].pc = "none"
    /\ Begin
    /\ \/ /\ fetch' = [fetch EXCEPT ![t] = [pc |-> "sent", again |-> FALSE,
                                           as |-> page[t].sid, live |-> TRUE]]
          /\ UNCHANGED ref
       \/ /\ fetch' = [fetch EXCEPT ![t] = [pc |-> "refresh", again |-> FALSE,
                                           as |-> None, live |-> TRUE]]
          /\ ref' = [ref EXCEPT ![t] = Refreshing(t)]
    /\ UNCHANGED <<session, jar, late, page, login, logout, inbox>>

FetchOK(t) ==
    /\ fetch[t].pc = "sent" /\ fetch[t].as # None
    /\ Active(fetch[t].as)
    /\ page' = IF fetch[t].live THEN [page EXCEPT ![t].cache = @ \cup {fetch[t].as}] ELSE page
    /\ fetch' = [fetch EXCEPT ![t] = NoFetch]
    /\ UNCHANGED <<session, jar, late, ref, login, logout, inbox, ops>>

\* 401: the token has expired or was rotated away, or its session is revoked.
FetchRefused(t) ==
    /\ fetch[t].pc = "sent" /\ ~fetch[t].again
    /\ fetch' = [fetch EXCEPT ![t].pc = "refresh", ![t].again = TRUE]
    /\ ref' = [ref EXCEPT ![t] = Refreshing(t)]
    /\ UNCHANGED <<session, jar, late, page, login, logout, inbox, ops>>

\* The second refusal signs the tab out and leaves for /sign-in, unless the
\* tab shows that page already.
FetchRefusedAgain(t) ==
    /\ fetch[t].pc = "sent" /\ fetch[t].again
    /\ \/ PageLoad(t) /\ UNCHANGED ops
       \/ /\ page' = [page EXCEPT ![t] = SignedOut]
          /\ ref' = [ref EXCEPT ![t] = NewEpoch(t)]
          /\ fetch' = [fetch EXCEPT ![t] = NoFetch]
          /\ UNCHANGED <<session, jar, late, login, logout, inbox, ops>>

FetchFail(t) ==
    /\ fetch[t].pc = "sent"
    /\ fetch' = [fetch EXCEPT ![t] = NoFetch]
    /\ Begin
    /\ UNCHANGED <<session, jar, late, page, ref, login, logout, inbox>>

\* A request that rotates the credentials (password, passkey, two-factor):
\* the server may revoke other sessions of the user, the tab takes the new
\* access token of the same session or signs out everywhere.
Rotation(t) ==
    LET s == fetch[t].as IN
    /\ fetch[t].pc = "sent" /\ s # None
    /\ Active(s)
    /\ \E S \in SUBSET (Sids \ {s}) : session' = Revoked(S)
    /\ \/ /\ page[t].sid = s
          /\ page' = [page EXCEPT ![t] = Bundled(t, s)]
          /\ ref' = [ref EXCEPT ![t] = NewEpoch(t)]
          /\ UNCHANGED inbox
       \/ /\ page[t].sid # s
          /\ page' = [page EXCEPT ![t] = SignedOut]
          /\ ref' = [ref EXCEPT ![t] = NewEpoch(t)]
          /\ inbox' = Published(t, "signed_out", page[t].sid)
    /\ fetch' = [fetch EXCEPT ![t] = NoFetch]
    /\ UNCHANGED <<jar, late, login, logout, ops>>

Waiting(t) == fetch[t].pc = "refresh"

\* What the interceptors do with the outcome: send (again), or give up.
Resumed(t) ==
    LET o == ref[t].ans IN
    IF ~Waiting(t) THEN fetch[t]
    ELSE IF o = "authenticated" \/ (o = "transient_error" /\ ~fetch[t].again
                                    /\ page[t].sid # None)
         THEN Sent(t) ELSE NoFetch

\* refreshPromise resolves, refreshPromise = null, and those who awaited it go
\* on.  A request that finds no session leaves for /sign-in; a logout that was
\* told of another session is repeated or is done.
Settle(t) ==
    LET o == ref[t].ans IN
    /\ ref[t].pc = "settled"
    /\ \/ /\ Waiting(t) /\ o \in {"anonymous", "out_of_sync"}
          /\ PageLoad(t) /\ UNCHANGED ops
       \/ /\ logout[t].pc = "refresh" /\ o = "anonymous"
          /\ page' = [page EXCEPT ![t] = SignedOut]
          /\ inbox' = Published(t, "signed_out", page[t].sid)
          /\ fetch' = [fetch EXCEPT ![t] = IF Waiting(t) THEN NoFetch ELSE Uncached(t)]
          /\ logout' = [logout EXCEPT ![t] = NoLogout]
          /\ ref' = [ref EXCEPT ![t] = NoRefresh]
          /\ UNCHANGED <<session, jar, late, login, ops>>
       \/ /\ ~(logout[t].pc = "refresh" /\ o = "anonymous")
          /\ fetch' = [fetch EXCEPT ![t] = Resumed(t)]
          /\ logout' = [logout EXCEPT ![t] =
                 IF @.pc # "refresh" THEN @
                 ELSE IF o = "authenticated" THEN [pc |-> "ready", again |-> TRUE]
                 ELSE NoLogout]
          /\ ref' = [ref EXCEPT ![t] = NoRefresh]
          /\ UNCHANGED <<session, jar, late, page, login, inbox, ops>>

-----------------------------------------------------------------------------
(* Login, logout and the other tabs.                                       *)

\* The server creates a session and the browser stores its cookie.
LoginAnswer(t, s) ==
    /\ login[t] = None
    /\ Begin
    /\ session[s].status = "none"
    /\ session' = [session EXCEPT ![s].status = "active"]
    /\ jar' = [sid |-> s, gen |-> 0]
    /\ login' = [login EXCEPT ![t] = s]
    /\ UNCHANGED <<late, page, ref, fetch, logout, inbox>>

\* handleLoginSuccess: applyAuthBundle(bundle).
LoginApply(t) ==
    LET s == login[t] p == page[t].sid IN
    /\ s # None
    /\ page' = [page EXCEPT ![t] = Bundled(t, s)]
    /\ fetch' = [fetch EXCEPT ![t] = IF p \in {None, s} THEN @ ELSE Uncached(t)]
    /\ ref' = [ref EXCEPT ![t] = NewEpoch(t)]
    /\ inbox' = IF p = s THEN inbox ELSE Published(t, "authenticated", s)
    /\ login' = [login EXCEPT ![t] = None]
    /\ UNCHANGED <<session, jar, late, logout, ops>>

\* AuthLogout: by the access token if it has not expired, else by the cookie.
\* An answer that is lost ends the attempt with an error.
LogoutRequest(t) ==
    LET e == page[t].sid
        mismatch == jar # None /\ e \notin {None, jar.sid} IN
    /\ \/ logout[t].pc = "none" /\ e # None
       \/ logout[t].pc = "ready"
    /\ \/ /\ mismatch
          /\ logout' = [logout EXCEPT ![t] = IF @.again THEN NoLogout
                                             ELSE [@ EXCEPT !.pc = "mismatch"]]
          /\ UNCHANGED <<session, jar>>
       \/ /\ ~mismatch
          /\ \/ session' = Revoked({e} \ {None})
             \/ session' = IF jar # None /\ "ok" \in Answer(jar, None)
                           THEN Revoked({jar.sid}) ELSE session
             \/ session' = session
          /\ \/ jar' = None /\ logout' = [logout EXCEPT ![t].pc = "done"]
             \/ jar' = jar /\ logout' = [logout EXCEPT ![t] = NoLogout]
    /\ Begin
    /\ UNCHANGED <<late, page, ref, fetch, login, inbox>>

\* executeLogout goes on: recover from a mismatch once, or sign out.
LogoutAnswer(t) ==
    \/ /\ logout[t].pc = "mismatch"
       /\ logout' = [logout EXCEPT ![t].pc = "refresh"]
       /\ ref' = [ref EXCEPT ![t] = Refreshing(t)]
       /\ UNCHANGED <<session, jar, late, page, fetch, login, inbox, ops>>
    \/ /\ logout[t].pc = "done"
       /\ ClearAuthentication(t, TRUE, NewEpoch(t), NoLogout)
       /\ UNCHANGED <<session, jar, late, login, ops>>

\* subscribeAuthSessionEvents: another tab signed in to another session.
EventAuthenticated(t, e) ==
    /\ e \in inbox[t] /\ e.kind = "authenticated" /\ e.sid # page[t].sid
    /\ PageLoad(t) /\ UNCHANGED ops

\* Another tab signed this session out.
EventSignedOut(t, e) ==
    /\ e \in inbox[t] /\ e.kind = "signed_out" /\ e.sid = page[t].sid
    /\ page' = [page EXCEPT ![t] = SignedOut]
    /\ ref' = [ref EXCEPT ![t] = NewEpoch(t)]
    /\ fetch' = [fetch EXCEPT ![t] = Uncached(t)]
    /\ inbox' = [inbox EXCEPT ![t] = @ \ {e}]
    /\ UNCHANGED <<session, jar, late, login, logout, ops>>

\* Every other event has no effect, nor has one older than 60 s.
EventIgnored(t, e) ==
    /\ e \in inbox[t]
    /\ \/ (e.kind = "authenticated" <=> e.sid = page[t].sid) /\ UNCHANGED ops
       \/ Begin
    /\ inbox' = [inbox EXCEPT ![t] = @ \ {e}]
    /\ UNCHANGED <<session, jar, late, page, ref, fetch, login, logout>>

-----------------------------------------------------------------------------
(* The environment.                                                        *)

Reload(t) == PageLoad(t) /\ Begin

\* Revoked from another device, by an administrator, or expired.
Revoke(s) ==
    /\ Active(s)
    /\ session' = Revoked({s})
    /\ Begin
    /\ UNCHANGED <<jar, late, page, ref, fetch, login, logout, inbox>>

RefreshStep(t) == \/ Bootstrap(t) \/ Acquire(t) \/ Serve(t)
                  \/ DeliverSuperseded(t) \/ DeliverBundle(t) \/ DeliverMismatch(t)
                  \/ DeliverUnauthorized(t) \/ DeliverOther(t)
                  \/ Timeout(t) \/ Settle(t)

RequestStep(t) == \/ FetchStart(t) \/ FetchOK(t) \/ FetchRefused(t)
                  \/ FetchRefusedAgain(t) \/ FetchFail(t) \/ Rotation(t)

SessionStep(t) == \/ \E s \in Sids : LoginAnswer(t, s)
                  \/ LoginApply(t) \/ LogoutRequest(t) \/ LogoutAnswer(t)
                  \/ \E e \in inbox[t] : \/ EventAuthenticated(t, e)
                                         \/ EventSignedOut(t, e)
                                         \/ EventIgnored(t, e)
                  \/ Reload(t)

Next == \/ \E t \in Tabs : RefreshStep(t) \/ RequestStep(t) \/ SessionStep(t)
        \/ \E c \in late : ServeLate(c)
        \/ \E s \in Sids : Revoke(s)

Spec == Init /\ [][Next]_vars

\* A request that was sent is served, answered or aborted after 10 s, and its
\* promise is settled.  The Web Lock is granted in the order of the requests:
\* a run that waits is not overtaken for ever.
Exchange(t) == \/ Serve(t) \/ Timeout(t)
               \/ DeliverSuperseded(t) \/ DeliverBundle(t) \/ DeliverMismatch(t)
               \/ DeliverUnauthorized(t) \/ DeliverOther(t)

Fairness == \A t \in Tabs : /\ SF_vars(Acquire(t))
                            /\ WF_vars(Exchange(t))
                            /\ WF_vars(Settle(t))

FairSpec == Spec /\ Fairness

-----------------------------------------------------------------------------
(* Properties.                                                             *)

TypeOK ==
    /\ session \in [Sids -> [status : {"none", "active", "revoked"}, gen : 0 .. MaxGen]]
    /\ jar \in Cookies \cup {None}
    /\ late \subseteq Cookies
    /\ page \in [Tabs -> [sid : Sids \cup {None}, boot : {"idle", "checking", "complete"},
                          cache : SUBSET Sids]]
    /\ ref \in [Tabs -> [pc : {"none", "lock", "sent", "served", "settled"},
                         live : BOOLEAN, exp : Sids \cup {None},
                         cookie : Cookies \cup {None},
                         ans : Answers \cup Outcomes \cup {None}]]
    /\ fetch \in [Tabs -> [pc : {"none", "refresh", "sent"}, again : BOOLEAN,
                           as : Sids \cup {None}, live : BOOLEAN]]
    /\ login \in [Tabs -> Sids \cup {None}]
    /\ logout \in [Tabs -> [pc : {"none", "mismatch", "refresh", "ready", "done"},
                            again : BOOLEAN]]
    /\ inbox \in [Tabs -> SUBSET Events]
    /\ ops \in 0 .. MaxOps

\* The cookie jar never falls more than one generation behind the server, so
\* that a live session can always be refreshed inside the grace window:
\* whatever is lost, aborted or served late, and whichever tab asks.
JarIsCurrent ==
    jar # None /\ Active(jar.sid) => session[jar.sid].gen - jar.gen \in {0, 1}

\* A tab that knows itself signed out holds no account's data, although
\* answers to its requests may still arrive.
AnonymousIsEmpty ==
    \A t \in Tabs : page[t].boot = "complete" /\ page[t].sid = None => page[t].cache = {}

\* The answer to a refresh moves a tab to another session only if the tab is
\* still in the session for which the request was sent: a login, a logout or
\* another tab's sign-out in between wins.
LateAnswersAreDropped ==
    [][ \A t \in Tabs : ref[t].pc = "served" /\ ref'[t].pc = "settled"
                         /\ page'[t].sid # page[t].sid => page[t].sid = ref[t].exp ]_vars

\* Every refresh run ends, and so does every request that waits for one, with
\* tabs competing for one lock and runs superseded while they wait for it.
NobodyWaitsForever ==
    \A t \in Tabs : (ref[t].pc # "none" \/ fetch[t].pc = "refresh")
                      ~> (ref[t].pc = "none" /\ fetch[t].pc # "refresh")

-----------------------------------------------------------------------------
(* What the tests of lib/auth-session.ts say.                              *)

\* auth-session.test.ts: "switching sessions cannot retain the previous
\* account cache".  A tab in session s shows only data fetched in s.
CacheIsOneAccounts ==
    \A t \in Tabs : page[t].sid # None => page[t].cache \subseteq {page[t].sid}

=============================================================================
