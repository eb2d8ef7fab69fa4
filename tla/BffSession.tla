------------------------------ MODULE BffSession ------------------------------
(***************************************************************************)
(* The sessions of one browser at the BFF: the manager and the three stores *)
(* of src/bff/internal/session, the middleware that loads, refreshes and    *)
(* checks them (handler/middleware.go) and the handlers that create and     *)
(* destroy them (the end of Callback, Logout in handler/auth.go).           *)
(*                                                                          *)
(* A browser has many requests under way at once.  Each carries the cookies *)
(* the browser had when it was sent; the Set-Cookie lines of its answer     *)
(* change the browser's cookies when the answer arrives, in any order.      *)
(* Between two calls to the store or to the IdP a request may be overtaken  *)
(* by any other: a step is the code up to and including one such call.      *)
(*                                                                          *)
(* A session token is the number of the Save that made it.  The login a     *)
(* session goes back to is numbered too, and names its CSRF token.          *)
(* Instants are kept as the time left until them, negative once they are    *)
(* over, which needs no horizon.                                            *)
(***************************************************************************)
EXTENDS Integers, FiniteSets

CONSTANTS
    Requests,          \* slots for requests of the browser under way at once
    StoreKinds,        \* the values of SESSION_STORAGE_TYPE considered
    TokenLife,         \* expires_in of an access token
    RefreshThreshold,  \* tokenRefreshThreshold
    SessionTTL,        \* sessionTTL, also the Max-Age of both cookies
    MaxTokens,         \* bound: session tokens
    MaxLogins,         \* bound: logins
    None

Tokens == 1 .. MaxTokens
Logins == 1 .. MaxLogins
Lives  == -2 .. TokenLife
TTLs   == -1 .. SessionTTL

\* What a request is for: a protected page or /auth/me, an API call without and
\* with side effects, POST /auth/logout, and a /auth/callback that got tokens.
RequestKinds == {"page", "api", "post", "logout", "callback"}

\* The life of an access token that is never refreshed: its AccessTokenExpiry is
\* zero, or the session has no refresh token.
Unbounded == -2

\* What an answer does to a cookie, other than setting a value.
Keep  == -1
Clear == 0

\* What a token leads to: the time until AccessTokenExpiry, and the time until the
\* store lets go of the session.
Session == [life : Lives, ttl : TTLs]

Idle == [pc |-> "idle"]
RequestState ==
    [pc      : {"guard", "checkPost", "checkLogout", "load", "refresh", "rotate", "save",
                "forward", "destroy", "logout", "create", "answer"},
     cookie  : Tokens \cup {0},            \* the session cookie sent along
     csrf    : Logins \cup {0},            \* the X-CSRF-Token header, where it counts
     cur     : Logins \cup {0},            \* current: the login of the session loaded
     fresh   : Lives,                      \* the access token the IdP returned
     dead    : BOOLEAN,                    \* tokenExpired
     set     : Tokens \cup {Keep, Clear},  \* the answer's session cookie
     setCsrf : Logins \cup {Keep, Clear}]  \* the answer's csrf_token cookie

\* The browser's two cookies and the time left of their Max-Age.
Jar == [session : Tokens \cup {0}, left : 0 .. SessionTTL,
        csrf : Logins \cup {0}, csrfLeft : 0 .. SessionTTL]

ASSUME BoundsAssumption ==
    /\ TokenLife \in Nat /\ RefreshThreshold \in Nat /\ SessionTTL \in Nat
    /\ MaxTokens \in Nat /\ MaxLogins \in Nat
    /\ StoreKinds \subseteq {"memory", "redis", "cookie"}
ASSUME NoneAssumption == None \notin Session

VARIABLES
    store,     \* the store in use
    owner,     \* the login each token was made for, 0 if it was not made yet
    items,     \* the session each token leads to; a cookie store's token contains it
    nTokens, nLogins,
    jar,       \* the browser's cookies
    req,       \* requests under way
    excused,   \* history: the browser's cookie expired, or a fault took away its replacement
    disturbed, \* history: something since its cookie was set may end the browser's login
    ended      \* history: logins a logout was carried out for

storeVars == <<owner, items, nTokens>>
otherVars == <<store, nLogins, jar, excused, disturbed, ended>>
vars == <<storeVars, req, otherVars>>

Init ==
    /\ store \in StoreKinds
    /\ owner = [t \in Tokens |-> 0]
    /\ items = [t \in Tokens |-> None]
    /\ nTokens = 0 /\ nLogins = 0
    /\ jar = [session |-> 0, left |-> 0, csrf |-> 0, csrfLeft |-> 0]
    /\ req = [r \in Requests |-> Idle]
    /\ excused = FALSE
    /\ disturbed = TRUE
    /\ ended = {}

-----------------------------------------------------------------------------
(* The stores. *)

ServerSide == store \in {"memory", "redis"}

\* Load finds a session: MemoryStore and RedisStore (whose keys carry the TTL)
\* until it expires, CookieStore whenever the token decrypts.
Expired(t) == items[t] # None /\ items[t].ttl < 0
Loads(t) == t \in Tokens /\ items[t] # None /\ ~ (ServerSide /\ Expired(t))

\* Delete; CookieStore.Delete does nothing.  Only Redis can fail to.
ItemsAfterDelete(t) ==
    IF ServerSide /\ t \in Tokens THEN [items EXCEPT ![t] = None] ELSE items
CanFail == store = "redis"

\* Mutant: a session that is used lasts longer, even one that had expired.
ItemsAfterLoad_Sliding(t) ==
    IF store = "memory" /\ t \in Tokens /\ items[t] # None
    THEN [items EXCEPT ![t].ttl = SessionTTL] ELSE items

\* MemoryStore.Load deletes an entry it finds expired.
ItemsAfterLoad(t) ==
    IF store = "memory" /\ t \in Tokens /\ Expired(t) THEN ItemsAfterDelete(t) ELSE items

\* Redis may be down, and CookieStore refuses a session that is too long.
SaveCanFail == store \in {"redis", "cookie"}

\* Mutant: the place of a deleted session is taken by the next one.
NewToken_Reused ==
    IF ServerSide /\ nTokens > 0 /\ items[1] = None THEN 1 ELSE nTokens + 1

\* randomToken: never handed out before.
NewToken == nTokens + 1

\* Mutant: the entry outlives the cookie that leads to it.
SavedTTL_Longer == IF ServerSide THEN SessionTTL + 1 ELSE -1

\* CookieStore.Save ignores the TTL: nothing of it is in the token.
SavedTTL == IF ServerSide THEN SessionTTL ELSE -1

\* Save succeeds.
Save(login, life) ==
    /\ NewToken \in Tokens
    /\ owner' = [owner EXCEPT ![NewToken] = login]
    /\ items' = [items EXCEPT ![NewToken] = [life |-> life, ttl |-> SavedTTL]]
    /\ nTokens' = nTokens + 1

-----------------------------------------------------------------------------
(* The browser and the clock. *)

\* The bounds: a request that may make a token is sent only while there is one
\* left for it and for every other request that may, so that none gets stuck.
MayCreate == {r \in Requests : req[r].pc = "create"}
MayRotate == {r \in Requests : req[r].pc \in {"checkPost", "load", "refresh", "rotate", "save"}}
WithinBounds(kind) ==
    /\ kind = "callback" => nLogins + Cardinality(MayCreate) < MaxLogins
    /\ kind \in {"callback", "api", "post"} =>
        nTokens + Cardinality(MayCreate) + Cardinality(MayRotate) < MaxTokens

\* A request at the first handler that looks at a session.
Arrived(pc, cookie, csrf) ==
    [pc |-> pc, cookie |-> cookie, csrf |-> csrf, cur |-> 0, fresh |-> 0, dead |-> FALSE,
     set |-> Keep, setCsrf |-> Keep]

\* The middleware stack, for a request with these cookies.  The page's script
\* copies the csrf_token cookie into the header.
Route(kind, session, csrf) ==
    CASE kind = "page"     -> Arrived("guard", session, 0)
      [] kind = "api"      -> Arrived("load", session, 0)
      [] kind = "post"     -> Arrived("checkPost", session, csrf)
      [] kind = "logout"   -> Arrived("checkLogout", session, csrf)
      [] kind = "callback" -> Arrived("create", 0, 0)

\* The browser sends a request with the cookies it has.
Send(r, kind) ==
    /\ req[r] = Idle
    /\ WithinBounds(kind)
    /\ req' = [req EXCEPT ![r] = Route(kind, jar.session, jar.csrf)]
    /\ UNCHANGED <<storeVars, otherVars>>

Later(n) == IF n < 0 THEN n ELSE n - 1

\* Time passes.  The browser drops a cookie when its Max-Age is over.
Tick ==
    /\ items' = [t \in Tokens |->
            IF items[t] = None THEN None
            ELSE [items[t] EXCEPT !.life = Later(@), !.ttl = Later(@)]]
    /\ req' = [r \in Requests |->
            IF req[r] = Idle THEN Idle ELSE [req[r] EXCEPT !.fresh = Later(@)]]
    /\ jar' = [session  |-> IF jar.left <= 1 THEN 0 ELSE jar.session,
               left     |-> IF jar.left <= 1 THEN 0 ELSE jar.left - 1,
               csrf     |-> IF jar.csrfLeft <= 1 THEN 0 ELSE jar.csrf,
               csrfLeft |-> IF jar.csrfLeft <= 1 THEN 0 ELSE jar.csrfLeft - 1]
    /\ excused' = (excused /\ jar.left > 1)
    /\ disturbed' = (disturbed \/ jar.left <= 1)
    /\ UNCHANGED <<store, owner, nTokens, nLogins, ended>>

\* What an answer leaves of a cookie and of its Max-Age.
CookieAfter(old, new) == IF new = Keep THEN old ELSE new
LeftAfter(left, new)  == IF new = Keep THEN left ELSE IF new = Clear THEN 0 ELSE SessionTTL

\* The request gave up on its session: its answer clears, or will clear, whatever
\* session cookie the browser has when it arrives.
Clearing(q) == q.pc = "destroy" \/ (q.pc # "idle" /\ q.set = Clear)

\* The answer arrives and its cookies take effect.
Deliver(r) ==
    LET q == req[r] IN
    /\ q.pc = "answer"
    /\ jar' = [session  |-> CookieAfter(jar.session, q.set),
               left     |-> LeftAfter(jar.left, q.set),
               csrf     |-> CookieAfter(jar.csrf, q.setCsrf),
               csrfLeft |-> LeftAfter(jar.csrfLeft, q.setCsrf)]
    /\ req' = [req EXCEPT ![r] = Idle]
    /\ excused' = (excused /\ q.set = Keep)
    /\ disturbed' = IF q.set > 0 THEN \E s \in Requests \ {r} : Clearing(req[s]) ELSE disturbed
    /\ UNCHANGED <<storeVars, store, nLogins, ended>>

\* The request has deleted its cookie's session and is about to make another,
\* or its answer will replace or clear the cookie.
Replacing(q) == q.pc # "idle" /\ q.cookie # 0 /\ (q.pc = "save" \/ q.set # Keep)
ReplacingCookie(r) == Replacing(req[r]) /\ req[r].cookie = jar.session

\* The answer is lost.
Lose(r) ==
    /\ req[r].pc = "answer"
    /\ req' = [req EXCEPT ![r] = Idle]
    /\ excused' = (excused \/ ReplacingCookie(r))
    /\ disturbed' = (disturbed \/ excused')
    /\ UNCHANGED <<storeVars, store, nLogins, jar, ended>>

\* The BFF stops and starts again: requests die where they are, and the memory
\* store is empty.
Restart ==
    /\ req' = [r \in Requests |-> Idle]
    /\ items' = IF store = "memory" THEN [t \in Tokens |-> None] ELSE items
    /\ excused' = \/ excused
                  \/ \E r \in Requests : ReplacingCookie(r)
                  \/ store = "memory" /\ jar.session # 0
    /\ disturbed' = (disturbed \/ excused')
    /\ UNCHANGED <<store, owner, nTokens, nLogins, jar, ended>>

-----------------------------------------------------------------------------
(* The handlers. *)

\* The answer is on its way, with the cookies given.
Answered(q, set, setCsrf) ==
    [Arrived("answer", q.cookie, 0) EXCEPT !.set = set, !.setCsrf = setCsrf]

\* ... with the cookies there are so far.  An answer without any changes nothing
\* when it arrives, so the request is over.
Finished(q) == IF q.set = Keep THEN Idle ELSE Answered(q, q.set, Keep)
Goto(r, q) == req' = [req EXCEPT ![r] = q]

\* Manager.Get in AuthGuard, Me, CSRFMiddleware and TokenForwarder fails: 500.
GetFails(r) ==
    /\ req[r].pc \in {"guard", "checkPost", "checkLogout", "load"}
    /\ CanFail
    /\ Goto(r, Finished(req[r]))
    /\ UNCHANGED <<storeVars, otherVars>>

\* Manager.Get answers.
Get(r) ==
    /\ items' = ItemsAfterLoad(req[r].cookie)
    /\ excused' = (excused \/ (items' # items /\ req[r].cookie = jar.session))
    /\ disturbed' = (disturbed \/ excused')
    /\ UNCHANGED <<owner, nTokens, store, nLogins, jar, ended>>

\* AuthGuard and Me look the session up and answer.
AuthGuard(r) ==
    /\ req[r].pc = "guard"
    /\ Get(r)
    /\ Goto(r, Finished(req[r]))

\* CSRFMiddleware: 401 without a session, 403 when the header does not match.
CSRFMiddleware(r) ==
    LET q == req[r] IN
    /\ q.pc \in {"checkPost", "checkLogout"}
    /\ Get(r)
    /\ Goto(r, IF Loads(q.cookie) /\ q.csrf = owner[q.cookie]
               THEN [q EXCEPT !.pc = IF q.pc = "checkPost" THEN "load" ELSE "logout", !.cur = q.csrf]
               ELSE Finished(q))

\* time.Now().After(AccessTokenExpiry), and within the threshold of it.
Refreshable(t)     == items[t].life # Unbounded
TokenExpired(t)    == items[t].life < 0
TokenNearExpiry(t) == items[t].life < RefreshThreshold

\* TokenForwarder up to the decision whether to refresh.
TokenForwarder(r) ==
    LET q == req[r] IN
    /\ q.pc = "load"
    /\ Get(r)
    /\ Goto(r, IF Loads(q.cookie)
               THEN [q EXCEPT !.pc = IF /\ Refreshable(q.cookie)
                                        /\ TokenExpired(q.cookie) \/ TokenNearExpiry(q.cookie)
                                     THEN "refresh" ELSE "forward",
                              !.cur = owner[q.cookie],
                              !.dead = Refreshable(q.cookie) /\ TokenExpired(q.cookie)]
               ELSE Finished(q))

\* The IdP issues new tokens; their expires_in may be missing.
RefreshSucceeds(r) ==
    /\ req[r].pc = "refresh"
    /\ \E life \in {TokenLife, Unbounded} : Goto(r, [req[r] EXCEPT !.pc = "rotate", !.fresh = life])
    /\ UNCHANGED <<storeVars, otherVars>>

\* Mutant: a failed refresh ends the session, expired access token or not.
AfterRefreshError_GivesUp(q) == [q EXCEPT !.pc = "destroy", !.fresh = 0]

\* Where TokenForwarder goes when refreshAccessToken returns an error.
AfterRefreshError(q) == [q EXCEPT !.pc = IF q.dead THEN "destroy" ELSE "forward", !.fresh = 0]

\* The IdP refuses (its session is over) or cannot be reached.
RefreshFails(r) ==
    /\ req[r].pc = "refresh"
    /\ Goto(r, AfterRefreshError(req[r]))
    /\ disturbed' = (disturbed \/ req[r].dead)
    /\ UNCHANGED <<storeVars, store, nLogins, jar, excused, ended>>

\* Rotate deletes the session it is about to replace; an error is ignored.
RotateDelete(r) ==
    /\ req[r].pc = "rotate"
    /\ items' \in {ItemsAfterDelete(req[r].cookie)} \cup IF CanFail THEN {items} ELSE {}
    /\ Goto(r, [req[r] EXCEPT !.pc = "save"])
    /\ UNCHANGED <<owner, nTokens, otherVars>>

\* Rotate then creates the new one, of the same login.
RotateSave(r) ==
    /\ req[r].pc = "save"
    /\ Save(req[r].cur, req[r].fresh)
    /\ Goto(r, [req[r] EXCEPT !.pc = "forward", !.set = NewToken, !.fresh = 0, !.dead = FALSE])
    /\ UNCHANGED otherVars

RotateSaveFails(r) ==
    /\ req[r].pc = "save"
    /\ SaveCanFail
    /\ Goto(r, AfterRefreshError(req[r]))
    /\ excused' = (excused \/ ReplacingCookie(r))
    /\ disturbed' = (disturbed \/ excused' \/ req[r].dead)
    /\ UNCHANGED <<storeVars, store, nLogins, jar, ended>>

\* APIProxy.ServeHTTP sends the request on with current's access token.
APIProxy(r) ==
    /\ req[r].pc = "forward"
    /\ Goto(r, Finished(req[r]))
    /\ UNCHANGED <<storeVars, otherVars>>

\* Mutant: the session is destroyed and the browser keeps its cookie.
ClearedCookie_Kept == Keep

\* Manager.Destroy expires the cookie.
ClearedCookie == Clear

\* Manager.Destroy: the session is deleted and the answer expires its cookie; or
\* Redis reports an error, having deleted the key or not, and the cookie stays.
Destroy(r, setCsrf) ==
    /\ items' = ItemsAfterDelete(req[r].cookie)
    /\ Goto(r, Answered(req[r], ClearedCookie, setCsrf))
    /\ UNCHANGED excused

DestroyFails(r) ==
    /\ CanFail
    /\ items' \in {items, ItemsAfterDelete(req[r].cookie)}
    /\ Goto(r, Finished(req[r]))
    /\ excused' = (excused \/ (items' # items /\ req[r].cookie = jar.session))

\* TokenForwarder gives up on an expired token: Destroy, error ignored, 401.
DestroyExpired(r) ==
    /\ req[r].pc = "destroy"
    /\ Destroy(r, Keep) \/ DestroyFails(r)
    /\ disturbed' = (disturbed \/ excused')
    /\ UNCHANGED <<owner, nTokens, store, nLogins, jar, ended>>

\* Logout looks the session up, for the id_token_hint only and whatever the
\* outcome, and destroys it; on an error neither cookie is touched.
Logout(r) ==
    /\ req[r].pc = "logout"
    /\ \/ Destroy(r, Clear) /\ ended' = ended \cup {req[r].cur}
       \/ DestroyFails(r) /\ UNCHANGED ended
    /\ disturbed' = TRUE
    /\ UNCHANGED <<owner, nTokens, store, nLogins, jar>>

\* Callback got the tokens of a new login and creates its session.  A session
\* the browser already has is left alone.
Callback(r) ==
    /\ req[r].pc = "create"
    /\ nLogins + 1 \in Logins
    /\ nLogins' = nLogins + 1
    /\ \E life \in {TokenLife, Unbounded} : Save(nLogins + 1, life)
    /\ Goto(r, Answered(req[r], NewToken, nLogins + 1))
    /\ UNCHANGED <<store, jar, excused, disturbed, ended>>

CallbackFails(r) ==
    /\ req[r].pc = "create"
    /\ SaveCanFail
    /\ Goto(r, Finished(req[r]))
    /\ UNCHANGED <<storeVars, otherVars>>

-----------------------------------------------------------------------------
Proceed(r) ==
    \/ GetFails(r) \/ CSRFMiddleware(r) \/ AuthGuard(r) \/ TokenForwarder(r)
    \/ RefreshSucceeds(r) \/ RefreshFails(r)
    \/ RotateDelete(r) \/ RotateSave(r) \/ RotateSaveFails(r)
    \/ APIProxy(r) \/ DestroyExpired(r)
    \/ Logout(r)
    \/ Callback(r) \/ CallbackFails(r)

Next ==
    \/ Tick
    \/ Restart
    \/ \E r \in Requests :
        \/ \E kind \in RequestKinds : Send(r, kind)
        \/ Proceed(r)
        \/ Deliver(r)
        \/ Lose(r)

Spec == Init /\ [][Next]_vars

-----------------------------------------------------------------------------
(* The inductive invariant: together with TypeOK and CookieNotStranded. *)

\* Tokens are made one after the other, each for a login there has been.
TokensInv ==
    \A t \in Tokens :
        IF t <= nTokens THEN owner[t] # 0 /\ owner[t] <= nLogins
                        ELSE owner[t] = 0 /\ items[t] = None

\* A request that works with a session has one, and got it from the store.
CurrentInv ==
    \A r \in Requests :
        /\ req[r].pc \in {"refresh", "rotate", "save", "forward", "destroy", "logout"} =>
            req[r].cur # 0 /\ req[r].cur <= nLogins
        /\ req[r].pc = "create" => req[r].cur = 0

\* A header that was checked belongs to the login of the request's cookie.
CheckedInv ==
    \A r \in Requests :
        /\ req[r].pc = "load" /\ req[r].csrf # 0 =>
            req[r].cookie \in Tokens /\ owner[req[r].cookie] = req[r].csrf
        /\ req[r].pc \in {"refresh", "rotate", "save", "forward", "destroy"} /\ req[r].csrf # 0 =>
            req[r].cur = req[r].csrf

\* A token on its way to the browser works, and nobody has it yet.
OnItsWayInv ==
    /\ jar.session <= nTokens
    /\ \A r \in Requests : req[r] # Idle =>
        /\ req[r].cookie <= nTokens
        /\ req[r].set > 0 =>
            /\ items[req[r].set] # None
            /\ jar.session # req[r].set
            /\ \A s \in Requests : req[s] # Idle =>
                req[s].cookie # req[r].set /\ (s # r => req[s].set # req[r].set)

\* A login ends only once something disturbed it.
DisturbedInv ==
    /\ excused => disturbed
    /\ jar.session = 0 => disturbed
    /\ \A r \in Requests : Clearing(req[r]) => disturbed

-----------------------------------------------------------------------------
(* Properties. *)

\* Every variable holds values of the type the code declares for it.
TypeOK ==
    /\ store \in StoreKinds
    /\ owner \in [Tokens -> Logins \cup {0}]
    /\ items \in [Tokens -> Session \cup {None}]
    /\ nTokens \in 0 .. MaxTokens /\ nLogins \in 0 .. MaxLogins
    /\ jar \in Jar
    /\ req \in [Requests -> RequestState \cup {Idle}]
    /\ excused \in BOOLEAN /\ disturbed \in BOOLEAN
    /\ ended \subseteq Logins

\* The stores and everything built on them keep the promises of SessionStore.
Abstract == INSTANCE SessionStore WITH
    NoLogin <- 0,
    live    <- {t \in Tokens : Loads(t)},
    view    <- [r \in Requests |-> IF req[r] = Idle THEN 0 ELSE req[r].cur],
    opened  <- nLogins

\* Whatever overlaps, a token never changes hands, never works again once it has
\* stopped, and a request renews only the login it loaded (manager.go, store.go).
ImplementsSessionStore == Abstract!SSSpec

\* Once no token of a login loads and no request works with it, no refresh and
\* no late Save brings it back (middleware.go:77, manager.go:60-65).
LoginsEndForGood == Abstract!OverForGood

\* A browser is not left holding a cookie that no longer leads anywhere: when the
\* session it holds is gone before its time, a request that carried it is about to
\* replace or clear it, or a fault (a lost answer, a failed save, a restart) took
\* that away, however refreshes overlap and answers are reordered
\* (manager.go:60-65, middleware.go:109-122).
CookieNotStranded ==
    LET t == jar.session IN
    (t # 0 /\ items[t] = None) =>
        excused \/ \E r \in Requests : ReplacingCookie(r)

\* From the arrival of a session cookie on, a browser has a working one, or its
\* replacement is on its way, until its Max-Age is over, a fault, a logout, or a
\* refresh of an access token that had expired fails.  So refreshes that overlap
\* and succeed log nobody out, nor does a refresh that fails while the token is
\* still valid.  The last exception is a wide one: the request that gives up
\* clears whatever cookie the browser has by then, be it the working one that a
\* parallel refresh or a new login brought (middleware.go:109-122,
\* manager.go:75-84).
StaysLoggedIn ==
    (jar.session = 0 \/ items[jar.session] = None) =>
        disturbed \/ \E r \in Requests : ReplacingCookie(r)

\* A POST is sent to the API with a token of the login whose CSRF token it
\* presented, although the session was loaded for the check and again for the
\* token (middleware.go:98 and 150).
ForwardedAsChecked ==
    \A r \in Requests :
        (req[r].pc \in {"refresh", "rotate", "save", "forward"} /\ req[r].csrf # 0) =>
            req[r].cur = req[r].csrf

\* docs/bff-session-storage.md:40-41 "giving a rolling session lifetime as long as
\* the user is active": a browser with a working session has the csrf_token cookie
\* it needs to use it with (middleware.go:77 renews the one, auth.go:123 alone
\* sets the other).
LiveSessionCanPost ==
    Loads(jar.session) => jar.csrf = owner[jar.session]

\* auth_test.go:242 TestAuthLogout_DestroysSessionAndRedirects: after a logout was
\* carried out the browser holds no working session of that login, although other
\* requests were under way (auth.go:131-137, middleware.go:77).
LogoutDestroysSession ==
    Loads(jar.session) => owner[jar.session] \notin ended
=============================================================================
