------------------------------- MODULE BffLogin -------------------------------
(***************************************************************************)
(* Logging in through the BFF: its start-up (cmd/bff/main.go,               *)
(* handler/oidc_runtime.go), Login and Callback of handler/auth.go, the     *)
(* once-only claim of a state value (handler/state_claims.go), composed     *)
(* with what the IdP does with the codes (src/idp-auth-server/main.go; see  *)
(* AuthServer for the detail).                                              *)
(*                                                                          *)
(* Several replicas serve several browsers behind a load balancer; each     *)
(* replica keeps claims of its own and loses them when it restarts.         *)
(*                                                                          *)
(* A Login starts a flow, whose number stands for its state value, for its  *)
(* code verifier and for the challenge derived from it.  Both cookies of a  *)
(* flow are set, replaced and cleared by the same answers and live equally  *)
(* long, so a browser holds the cookies of one flow or none.  The URL of a  *)
(* callback names a state and a code, which need not go together: anyone    *)
(* may open any URL.  Ages are counted up to a cap.                         *)
(***************************************************************************)
EXTENDS Integers

CONSTANTS
    Browsers,
    Users,        \* of the IdP, which keeps one session for each
    Replicas,
    Requests,     \* slots for callbacks under way at once
    CookieAge,    \* Max-Age of the state and the verifier cookie
    ClaimTTL,     \* oidcStateClaimTTL
    MaxAttempts,  \* maxAttempts of BuildOIDCDependenciesWithRetry
    MaxFlows,     \* bound: logins started
    MaxCodes,     \* bound: codes issued
    None

Flows  == 1 .. MaxFlows
Codes  == 1 .. MaxCodes
AgeCap == 2 * ClaimTTL

ASSUME TimesAssumption ==
    /\ CookieAge \in Nat \ {0} /\ ClaimTTL \in Nat \ {0} /\ CookieAge <= ClaimTTL
    /\ MaxAttempts \in Nat \ {0}
    /\ MaxFlows \in Nat /\ MaxCodes \in Nat
ASSUME NoneAssumption == None \notin Browsers /\ None \notin Users /\ None \notin Int

\* A replica: starting (at its n-th attempt to reach the IdP), serving, or gone.
Phases == [is : {"starting"}, attempt : 1 .. MaxAttempts] \cup {[is |-> "up"], [is |-> "exited"]}

Idle == [pc |-> "idle"]
RequestState ==
    [pc : {"callback", "exchange", "create", "answer"},
     browser : Browsers, replica : Replicas,
     cookie : Flows \cup {0},   \* the flow of the cookies sent along
     state : Flows,             \* the state in the URL
     code : Codes]              \* the code in the URL

VARIABLES
    phase,       \* of each replica
    claimAge,    \* stateClaims.claimedAt of each replica: the age of each record
    cleanAge,    \* stateClaims.lastCleanup of each replica: its age
    starter,     \* the browser that started each flow, None if not started
    cookieLeft,  \* the time left of the Max-Age of each flow's cookies
    jar,         \* the flow whose cookies each browser holds, 0 if none
    codeUser,    \* IdP: the user each code was issued to, None if not issued
    codes,       \* IdP: the codes that can be exchanged
    challenge,   \* IdP: the challenge in each user's session
    req,         \* callbacks under way
    asked,       \* history: the users who opened the IdP's page of each flow
    claimed,     \* history: claims of a live state by each replica since it started
    sessions     \* history: sessions created with each code

bffVars == <<phase, claimAge, cleanAge>>
browserVars == <<starter, cookieLeft, jar>>
idpVars == <<codeUser, codes, challenge, asked>>
history == <<claimed, sessions>>
vars == <<bffVars, browserVars, idpVars, req, history>>

Starting(n) == [is |-> "starting", attempt |-> n]
Up(p) == phase[p].is = "up"

Init ==
    /\ phase = [p \in Replicas |-> Starting(1)]
    /\ claimAge = [p \in Replicas |-> [f \in Flows |-> None]]
    /\ cleanAge = [p \in Replicas |-> 0]
    /\ starter = [f \in Flows |-> None]
    /\ cookieLeft = [f \in Flows |-> 0]
    /\ jar = [b \in Browsers |-> 0]
    /\ codeUser = [k \in Codes |-> None]
    /\ codes = {}
    /\ challenge = [u \in Users |-> 0]
    /\ asked = [f \in Flows |-> {}]
    /\ req = [r \in Requests |-> Idle]
    /\ claimed = [p \in Replicas |-> [f \in Flows |-> 0]]
    /\ sessions = [k \in Codes |-> 0]

-----------------------------------------------------------------------------
(* A replica starts, serves and crashes. *)

\* Mutant: one attempt too many.
AfterFailedAttempt_OneMore(n) == IF n <= MaxAttempts THEN Starting(n + 1) ELSE [is |-> "exited"]

\* run() gives up after the last attempt.
AfterFailedAttempt(n) == IF n < MaxAttempts THEN Starting(n + 1) ELSE [is |-> "exited"]

\* One round of BuildOIDCDependenciesWithRetry, if the IdP ever answers.  When the
\* discovery succeeds the handler is made, with no claims, and the replica serves.
BuildOIDCDependencies(p) ==
    /\ phase[p].is = "starting"
    /\ \/ /\ phase' = [phase EXCEPT ![p] = [is |-> "up"]]
          /\ cleanAge' = [cleanAge EXCEPT ![p] = 0]
       \/ /\ phase' = [phase EXCEPT ![p] = AfterFailedAttempt(phase[p].attempt)]
          /\ UNCHANGED cleanAge
    /\ UNCHANGED <<claimAge, browserVars, idpVars, req, history>>

\* A replica crashes, with the requests it serves, and is started again.
Restart(p) ==
    /\ phase' = [phase EXCEPT ![p] = Starting(1)]
    /\ claimAge' = [claimAge EXCEPT ![p] = [f \in Flows |-> None]]
    /\ cleanAge' = [cleanAge EXCEPT ![p] = 0]
    /\ claimed' = [claimed EXCEPT ![p] = [f \in Flows |-> 0]]
    /\ req' = [r \in Requests |->
            IF req[r] # Idle /\ req[r].replica = p THEN Idle ELSE req[r]]
    /\ UNCHANGED <<browserVars, idpVars, sessions>>

Older(age, cap) == IF age = None \/ age = cap THEN age ELSE age + 1

\* Time passes.  A browser drops its cookies when their Max-Age is over.
Tick ==
    /\ claimAge' = [p \in Replicas |-> [f \in Flows |-> Older(claimAge[p][f], AgeCap)]]
    /\ cleanAge' = [p \in Replicas |-> IF Up(p) THEN Older(cleanAge[p], ClaimTTL) ELSE cleanAge[p]]
    /\ cookieLeft' = [f \in Flows |-> IF cookieLeft[f] = 0 THEN 0 ELSE cookieLeft[f] - 1]
    /\ jar' = [b \in Browsers |-> IF jar[b] # 0 /\ cookieLeft[jar[b]] <= 1 THEN 0 ELSE jar[b]]
    /\ UNCHANGED <<phase, starter, idpVars, req, history>>

-----------------------------------------------------------------------------
(* The browser and the IdP. *)

\* Login: new state and verifier, whose cookies replace those of an earlier flow.
Login(b, f) ==
    /\ starter[f] = None /\ \A g \in Flows : g < f => starter[g] # None
    /\ \E p \in Replicas : Up(p)
    /\ starter' = [starter EXCEPT ![f] = b]
    /\ cookieLeft' = [cookieLeft EXCEPT ![f] = CookieAge]
    /\ jar' = [jar EXCEPT ![b] = f]
    /\ UNCHANGED <<bffVars, idpVars, req, history>>

\* A user opens the IdP's page of a flow, again perhaps or in another browser than
\* the flow's: the flow's challenge goes into the user's session ...
Ask(u, f) ==
    /\ starter[f] # None
    /\ asked' = [asked EXCEPT ![f] = @ \cup {u}]
    /\ challenge' = [challenge EXCEPT ![u] = f]

\* ... if there is one, and consent may follow later or never ...
Authorize(u, f) ==
    /\ \E k \in Codes : codeUser[k] = u
    /\ Ask(u, f)
    /\ UNCHANGED <<bffVars, browserVars, codeUser, codes, req, history>>

\* ... or the user consents, which makes a session where there was none, and the
\* IdP issues a code.
IssueCode(u, f, k) ==
    /\ codeUser[k] = None /\ \A j \in Codes : j < k => codeUser[j] # None
    /\ Ask(u, f)
    /\ codeUser' = [codeUser EXCEPT ![k] = u]
    /\ codes' = codes \cup {k}
    /\ UNCHANGED <<bffVars, browserVars, req, history>>

\* A browser requests the callback with a state and a code, its own or others that
\* it was handed, once or again; the load balancer picks a replica that serves.
Send(r, b, f, k, p) ==
    /\ req[r] = Idle
    /\ starter[f] # None
    /\ codeUser[k] # None
    /\ Up(p)
    /\ req' = [req EXCEPT ![r] =
            [pc |-> "callback", browser |-> b, replica |-> p, cookie |-> jar[b], state |-> f, code |-> k]]
    /\ UNCHANGED <<bffVars, browserVars, idpVars, history>>

-----------------------------------------------------------------------------
(* stateClaims. *)

NeedsCleanup(p) == cleanAge[p] >= ClaimTTL

\* Mutant: the clean-up drops all records.
Kept_None(p) == [f \in Flows |-> None]

\* cleanupLocked
Kept(p) == [f \in Flows |->
    IF claimAge[p][f] # None /\ claimAge[p][f] >= ClaimTTL THEN None ELSE claimAge[p][f]]

\* Mutant: the clean-up is put off for as long as records keep being made.
ClaimsAtEntry_NoCleanup(p) == claimAge[p]

ClaimsAtEntry(p) == IF NeedsCleanup(p) THEN Kept(p) ELSE claimAge[p]

\* A record younger than the TTL refuses the claim.
Refused(p, f) == ClaimsAtEntry(p)[f] # None /\ ClaimsAtEntry(p)[f] < ClaimTTL

\* Claim, in one critical section.
Claim(p, f) ==
    /\ cleanAge' = IF NeedsCleanup(p) THEN [cleanAge EXCEPT ![p] = 0] ELSE cleanAge
    /\ claimAge' = [claimAge EXCEPT ![p] =
            IF Refused(p, f) THEN ClaimsAtEntry(p) ELSE [ClaimsAtEntry(p) EXCEPT ![f] = 0]]

-----------------------------------------------------------------------------
(* Callback. *)

Goto(r, q) == req' = [req EXCEPT ![r] = q]

\* The state cookie is the URL's state; the verifier cookie comes with it.
StateMatches(q) == q.cookie # 0 /\ q.cookie = q.state

\* Callback refuses a request without the cookies of its state: 401.
CallbackRefused(r) ==
    /\ req[r].pc = "callback"
    /\ ~ StateMatches(req[r])
    /\ Goto(r, Idle)
    /\ UNCHANGED <<bffVars, browserVars, idpVars, history>>

\* Callback up to the exchange.
Callback(r) ==
    LET q == req[r] IN
    /\ q.pc = "callback"
    /\ StateMatches(q)
    /\ Claim(q.replica, q.cookie)
    /\ IF Refused(q.replica, q.cookie)
       THEN Goto(r, Idle) /\ UNCHANGED claimed
       ELSE /\ Goto(r, [q EXCEPT !.pc = "exchange"])
            /\ claimed' = IF cookieLeft[q.cookie] = 0 THEN claimed
                          ELSE [claimed EXCEPT ![q.replica][q.cookie] = @ + 1]
    /\ UNCHANGED <<phase, browserVars, idpVars, sessions>>

\* Mutant: the IdP lets a code be used again.
CodesAfterTake_Kept(k) == codes

\* The IdP deletes a code when it is presented, before it checks anything else.
CodesAfterTake(k) == codes \ {k}

\* Mutant: the IdP does not look at the verifier.
VerifierMatches_Ignored(q) == TRUE

\* The verifier matches the challenge in the session of the code's user.
VerifierMatches(q) == challenge[codeUser[q.code]] = q.cookie

\* ExchangeCode: the token endpoint, and its answer.
ExchangeCode(r) ==
    LET q == req[r] IN
    /\ q.pc = "exchange"
    /\ codes' = CodesAfterTake(q.code)
    /\ Goto(r, IF q.code \in codes /\ VerifierMatches(q) THEN [q EXCEPT !.pc = "create"] ELSE Idle)
    /\ UNCHANGED <<bffVars, browserVars, codeUser, challenge, asked, history>>

\* The IdP cannot be reached, or its answer is lost: 401.
ExchangeFails(r) ==
    /\ req[r].pc = "exchange"
    /\ codes' \in {codes, CodesAfterTake(req[r].code)}
    /\ Goto(r, Idle)
    /\ UNCHANGED <<bffVars, browserVars, codeUser, challenge, asked, history>>

\* readClaims verifies the ID token and Sessions.Create saves the session.
CreateSession(r) ==
    /\ req[r].pc = "create"
    /\ sessions' = [sessions EXCEPT ![req[r].code] = @ + 1]
    /\ Goto(r, [req[r] EXCEPT !.pc = "answer"])
    /\ UNCHANGED <<bffVars, browserVars, idpVars, claimed>>

\* Either of them fails: 401, 500.
CreateFails(r) ==
    /\ req[r].pc = "create"
    /\ Goto(r, Idle)
    /\ UNCHANGED <<bffVars, browserVars, idpVars, history>>

\* The answer clears both cookies, those of a later flow included; or it is lost.
Deliver(r) ==
    /\ req[r].pc = "answer"
    /\ Goto(r, Idle)
    /\ jar' = [jar EXCEPT ![req[r].browser] = 0]
    /\ UNCHANGED <<bffVars, starter, cookieLeft, idpVars, history>>

Lose(r) ==
    /\ req[r].pc = "answer"
    /\ Goto(r, Idle)
    /\ UNCHANGED <<bffVars, browserVars, idpVars, history>>

-----------------------------------------------------------------------------
\* The steps a callback takes by itself.
Proceed(r) ==
    \/ CallbackRefused(r) \/ Callback(r)
    \/ ExchangeCode(r) \/ ExchangeFails(r)
    \/ CreateSession(r) \/ CreateFails(r)
    \/ Deliver(r) \/ Lose(r)

Next ==
    \/ Tick
    \/ \E p \in Replicas : BuildOIDCDependencies(p) \/ Restart(p)
    \/ \E b \in Browsers, f \in Flows : Login(b, f)
    \/ \E u \in Users, f \in Flows : Authorize(u, f) \/ \E k \in Codes : IssueCode(u, f, k)
    \/ \E r \in Requests :
        \/ \E b \in Browsers, f \in Flows, k \in Codes, p \in Replicas : Send(r, b, f, k, p)
        \/ Proceed(r)

Spec == Init /\ [][Next]_vars

-----------------------------------------------------------------------------
(* The inductive invariant. *)

\* Cookies are in the browser that started their flow, and a callback carries the
\* cookies of the browser it comes from.
CookiesInv ==
    /\ \A b \in Browsers : jar[b] # 0 => starter[jar[b]] = b
    /\ \A r \in Requests : req[r] # Idle =>
        /\ req[r].cookie # 0 => starter[req[r].cookie] = req[r].browser
        /\ req[r].pc # "callback" => req[r].cookie # 0

\* A challenge is in the session of a user who opened its flow's page, and so
\* did the user of a code that a verifier was accepted for.
AskedInv ==
    /\ \A u \in Users : challenge[u] # 0 => u \in asked[challenge[u]]
    /\ \A r \in Requests : req[r] # Idle => codeUser[req[r].code] # None
    /\ \A r \in Requests : req[r].pc \in {"create", "answer"} =>
        codeUser[req[r].code] \in asked[req[r].cookie]

\* A code is still outstanding, or at one callback, or has bought its session.
CodesInv ==
    /\ \A k \in Codes :
        /\ sessions[k] \in {0, 1}
        /\ codeUser[k] = None => k \notin codes /\ sessions[k] = 0
        /\ k \in codes => sessions[k] = 0
    /\ \A r \in Requests : req[r].pc = "create" => req[r].code \notin codes /\ sessions[req[r].code] = 0
    /\ \A r, s \in Requests :
        req[r].pc = "create" /\ req[s].pc = "create" /\ req[r].code = req[s].code => r = s

\* The record of a claim lasts at least as long as the cookies of its flow.
ClaimsInv ==
    \A p \in Replicas, f \in Flows :
        /\ claimed[p][f] \in {0, 1}
        /\ starter[f] = None => claimed[p][f] = 0
        /\ claimed[p][f] = 1 /\ cookieLeft[f] > 0 =>
            claimAge[p][f] # None /\ claimAge[p][f] + cookieLeft[f] <= ClaimTTL

\* A replica that does not serve has no records and no requests, and a record was
\* young at the last clean-up.
RecordsInv ==
    /\ \A r \in Requests : req[r] # Idle => Up(req[r].replica)
    /\ \A p \in Replicas, f \in Flows : claimAge[p][f] # None =>
        /\ Up(p)
        /\ cleanAge[p] < ClaimTTL => claimAge[p][f] < ClaimTTL + cleanAge[p]

-----------------------------------------------------------------------------
(* Properties. *)

\* Every variable holds values of the type the code declares for it.
TypeOK ==
    /\ phase \in [Replicas -> Phases]
    /\ claimAge \in [Replicas -> [Flows -> 0 .. AgeCap \cup {None}]]
    /\ cleanAge \in [Replicas -> 0 .. ClaimTTL]
    /\ starter \in [Flows -> Browsers \cup {None}]
    /\ cookieLeft \in [Flows -> 0 .. CookieAge]
    /\ jar \in [Browsers -> Flows \cup {0}]
    /\ codeUser \in [Codes -> Users \cup {None}]
    /\ codes \subseteq Codes
    /\ challenge \in [Users -> Flows \cup {0}]
    /\ asked \in [Flows -> SUBSET Users]
    /\ req \in [Requests -> RequestState \cup {Idle}]
    /\ claimed \in [Replicas -> [Flows -> Nat]]
    /\ sessions \in [Codes -> Nat]

\* auth_test.go:139 "expected token exchange to be called once": as long as the
\* cookies of a state live, a replica that does not restart starts one exchange
\* for it, however often the callback or the authorization is repeated.  The
\* records are dropped in time to be forgotten and not before
\* (state_claims.go:31-41); the Max-Age of the cookies (auth.go:59) is why they
\* need not be kept longer.
StateClaimedOnce == \A p \in Replicas, f \in Flows : claimed[p][f] <= 1

\* A code buys one session at most, although claims are kept per replica and lost
\* at a restart: the IdP takes care of what they miss (auth.go:89-112).
OneSessionPerCode == \A k \in Codes : sessions[k] <= 1

\* A browser is signed in only as a user who opened the IdP's page of the login
\* that this browser started, whatever state and code the URL puts together and
\* whichever of its logins the browser is at: the code of a user who did not is
\* worthless there.  The state protects nothing of this, for it is compared with a
\* cookie and never with the code (auth.go:69, 82); the verifier does (auth.go:96),
\* although the IdP keeps one challenge per user and a later login replaces it.
SignedInAsAsked ==
    \A r \in Requests :
        req[r].pc \in {"create", "answer"} =>
            /\ starter[req[r].cookie] = req[r].browser
            /\ codeUser[req[r].code] \in asked[req[r].cookie]

\* The map of claims does not grow for ever: a callback leaves no record in it
\* that is older than two lifetimes, although the map is cleaned up only now and
\* then (state_claims.go:31-33, 45-52).
ClaimsAreForgotten ==
    [][\A p \in Replicas :
        claimAge'[p] # claimAge[p] /\ (\E r \in Requests : req[r] # req'[r]) =>
            \A f \in Flows : claimAge'[p][f] # None => claimAge'[p][f] < 2 * ClaimTTL]_vars
=============================================================================
