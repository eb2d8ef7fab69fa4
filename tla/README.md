# A TLA+ model of the identity provider and its backend-for-frontend

This directory holds TLA+ modules, TLC configurations and TLAPS proofs about
the code in `idp-auth-server/` (an OAuth2/OIDC authorization server) and
`bff/` (a backend-for-frontend that logs in with it). `PROJECT.json`
lists the runs, the mutants that show each property can fail, the source lines
each definition models, the hazards the properties are for and the theorems.

## The system

| Component | State | Operations | What makes it correct |
|---|---|---|---|
| Client registry (`main.go`, `register`, `registerClientLocked`) | `server.clients` | register by POST, by traffic, by metadata document | a registration a client made is changed by nobody else; requests are held to it |
| Authorization (`authorize`, `login`, `approve`, `issueCodeAndRedirect`) | `authContext`, `sessions`, `codeMeta` | remember a request, log in, consent, issue a code, single sign-on by cookie or hint | one session per user; codes go to registered URIs; a hint leads to the user it names |
| Token endpoint (`token`) | the same, plus the issued claims written back | authorization_code and refresh_token grants | a code works once; tokens belong to the client and user of the grant |
| Client authentication (`authenticateClient`) | registry, metadata cache | verify secret or assertion | no client with a secret or keys gets tokens without them |
| Metadata documents (`clientid_metadata.go`) | `clientIDMetadata` | fetch, validate, cache, expire | stale documents and withdrawn keys die; no request hangs |
| private_key_jwt (`private_key_jwt.go`) | `privateKeyJWTJTIs`, key sets in the metadata cache | verify, consume the jti, resolve keys | an assertion authenticates once; bounded memory |
| Logout (`logout`, `endsessionApprove`) | `sessions` | delete a session | what was revoked stays revoked |
| BFF sessions (`bff/internal/session`) | a store (memory, Redis, or the cookie itself) | create, get, rotate, destroy | a token belongs to one login and stays dead once it is; a rotation never loses the session |
| BFF login (`handler/auth.go`, `state_claims.go`) | flow cookies, claimed states | login, callback | a state value is used once; a browser is signed in only as somebody who took part in its login |
| BFF start-up (`cmd/bff/main.go`, `oidc_runtime.go`) | none before it serves | discover the IdP, retry | a bounded number of attempts |
| BFF middleware (`handler/middleware.go`) | none of its own | guard, refresh, CSRF | overlapping refreshes leave a usable session |

Components share `server.mu`. The lock is held for short critical sections
only: it is released between looking a code up and using its session, between
reading a request and committing an approval, and during every outbound fetch.
A session copied out of the map still shares the backing array of its
`ClientSessions` slice, so handlers read memory others write, unlocked. Those
gaps are where the hard behaviour is: overlapping exchanges, approvals and
logouts; a session ending under a request; fetches that return out of order;
timeouts; instants around an expiry. The BFF adds races between refresh,
rotation and logout of one browser, whose cookies change only when an answer
arrives, and restarts: with the memory store and the claims of states a restart
forgets, with Redis and cookies it does not. The IdP persists nothing.

## Modules

`AuthServer` models registration, `/authorize`, `/login`, `/approve`, `/token`
and the deletion of sessions. An action is one critical section with the
unlocked code that follows it, except that an unlocked read of memory another
request may write is a step of its own. A request between two steps is a record
in `handlers`.

| Code | Model |
|---|---|
| `register` | `Register` |
| `authorize` | `AuthorizeRefused`, `AuthorizeLogin`, `AuthorizeWithCookie`, `AuthorizeByHint`, `AuthorizeLoginRequired` |
| `login` | `login` |
| `approve` | `ApproveRead`, `ApproveCommit`, `issueCodeAndRedirect` |
| `token`, authorization_code | `TakeCode`, `SnapshotSession`, `VerifyPKCE`, `ReadAdvertisedSub`, `ReadClaims`, then as below |
| `token`, refresh_token | `RefreshGrant`, `ReadAdvertisedSub`, `ReadClaims`, then as below |
| `authenticateClient` | `AuthenticateRegistered`, or `ReadMetadataRegistration` and `ResolveMetadata` |
| `token`, issuance and write-back | `IssueTokens` |
| `logout`, `endsessionApprove` | `EndSession` |

* A session value has the slice header `arr`, `ids`; the arrays are in `slices`,
  named by the clients that were in the slice when `append` allocated them. An
  append below capacity writes into the shared array, one at capacity moves to a
  new one and leaves old copies behind.
* UUIDs are the next number never used. `nConsents` numbers approvals and names
  the CookieID and SessionIDs they create.
* A PKCE challenge is the verifier that satisfies it. `authorize` refuses
  methods it does not know and S256 and plain are injective, so nothing is lost.
* The HMAC of pairwise mode is the pair it hashes.
* The claims of an approval are its number and the `sub` among those of the ID
  token. The consent form offers `OfferedSub` and comes back with that, with one
  of `EditedSubs`, or without any (`None`); `issueToken` keeps a `sub` it is
  given and fills in AdvertisedSub otherwise (`IssuedSub`). A token record has
  both: `adv`, which the refresh token carries, and `sub`, that of the ID token.
  The same edit to the claims of the access token would add nothing, since an
  access token serves as a hint no differently. An ID token into which the user
  wrote a `csid` is not modelled (the refresh grant looks for nothing else in a
  token), and neither is a form that holds the JSON `null`.
* Scopes: `openid` and `offline_access` are taken as granted, so all three
  tokens are issued. Tokens do not expire, which only allows more behaviour.
* Requests that fail before they change anything are not steps. Neither are
  `/userinfo`, `/endsession`, discovery and the pages, which only read.
* `resolveAuthorizeClient` is one step with the session part of `/authorize`:
  the two halves touch different variables, the second does not read the
  registry, and other requests supply its interleavings. At `/token` the three
  moments are apart: the registration `authenticateClient` reads (kept in the
  handler as `reg`), the document it stores and judges after the fetch, and the
  tokens. Between any two of them other requests may store other documents.
* `sent`, `tokens`, `uses`, `bindings` and `seenPublic` are history: what left
  with each code, what was issued, what each SessionID was created for, and the
  requests whose client was public at some moment of its authentication.

`Grants` is an abstract specification of the authorization server, as a client
sees it. A consent is a grant, named by the csid; it is active while the browser
session lasts. A token request begins by finding an active grant, through a code
(which is spent) or a token, and ends with tokens of that grant or a refusal.
There are no critical sections, arrays or claims in it. `AuthServer` maps to it
(`Granted`) as follows: the active grants are the SessionIDs
`getSessionByClientSessionIDLocked` can find, a request works for the SessionID
its copy of the session leads to at this moment (`WorkingFor`), and a code is
open until the request that took it has looked for its session
(`Exchangeable`). That the second does not change between two steps of the
request, although the copy points to an array others write, is the point of the
refinement.

`ClientIDMetadata` is the document and key cache of one metadata client: look
up, fetch, store, resolve keys, verify. Versions number what the client
publishes; every instant is kept as the time left until it. `Tick` needs every
request to be idle or waiting for the network, so only fetches take time.
`CacheAgreesWithRegistry` is what lets `AuthServer` treat a resolution as a
choice of document. The `jwks_uri` is taken to be the same in all versions and to
serve the keys published now. In the code it comes from the registration at hand
(`private_key_jwt.go:147`), so a client that changes the URI with the document
and keeps serving old keys at the old one is not covered.

`ClientAssertion` is the replay cache of one client: the check against the
parser's leeway, then the consumption of the jti under the lock. `SlowConsume`
says whether time may pass between the two.

`SessionStore` is an abstract specification: what a session store promises the
code above it. A token is issued once and for one login, a token that stopped
working never works again, and a request renews only the login it loaded. It
says nothing of cookies, refreshes or expiry.

`BffSession` is the sessions of one browser: the manager, the three stores, the
middleware and the handlers that create and destroy sessions. A step ends with
one call to the store or to the IdP. `jar` is the browser's cookies; a request
carries those of the moment it was sent, and its answer changes them when it is
delivered, or never (`Lose`).

| Code | Model |
|---|---|
| `AuthGuard`, `Me`, `Avatar` | `AuthGuard` |
| `CSRFMiddleware` | `CSRFMiddleware` |
| `TokenForwarder`, `refreshAccessToken` | `TokenForwarder`, `RefreshSucceeds`, `RefreshFails`, `RotateDelete`, `RotateSave`, `RotateSaveFails`, `DestroyExpired`, `APIProxy` |
| `Logout` | `CSRFMiddleware`, `Logout` |
| `Callback` from `Sessions.Create` on | `Callback`, `CallbackFails` |
| a failing `Manager.Get` | `GetFails` |

* A session is its login (which names its CSRF token), the life left of its
  access token and the time until the store drops it. The life is `Unbounded`
  when the code never refreshes: no refresh token, or no expiry
  (`middleware.go:109`). Redis may fail at every
  call; the cookie store fails to save what is too long; the memory store does
  not fail. Redis may delete and still report an error.
* The cookie store keeps nothing: `items` then records what the tokens contain,
  `Delete` changes nothing, and only the browser's Max-Age ends a session.
* Requests that bring an Authorization header of their own are passed through
  without a session and are not modelled.
* `excused`, `disturbed` and `ended` are history: a fault took away the
  replacement of the cookie; something since the cookie was set may end the
  login (a fault, a logout, the end of its Max-Age, a refresh that failed for an
  expired access token); and the logins a logout was carried out for.

`BffLogin` composes the login at the BFF with what the IdP does with the codes:
start-up with its retries, `Login`, the checks of `Callback`, `stateClaims`, the
exchange, the creation of the session, and crashes of replicas. A flow stands
for the state, the verifier and the challenge that one `Login` makes. A callback
URL holds a state and a code that need not belong together, and any browser may
open it (`Send`). The IdP part (`Ask`, `Authorize`, `IssueCode`,
`CodesAfterTake`, `VerifierMatches`) keeps one session and one challenge per
user and takes a code before it checks anything else, as `AuthServer` does.
`Login` sets its cookies in one step: an answer to `/auth/login` that is
overtaken sets what another `Login` would have set. `asked` is history: the
users who opened the IdP's page of each flow.

The `MC` modules give the constants values for TLC. The proofs are in the
modules named `...Proofs` and, for the store, in `SessionStore`.

Operators whose names end in `_Something` directly before the definition they
resemble are mutants: the form that definition would have under a plausible bug.

## Runs

| Run | Result | Bounds and why they are enough |
|---|---|---|
| `concurrent` | 555,575 states, passes | one user, one client with a secret, two handlers, two logins, approvals and codes: every pair of steps of two requests overlaps, and there is a second login, consent and code after a logout |
| `users` | 735,974 states, passes | two users, whose consent forms come back with the offered `sub`, without one or with either user's; a registered client plus the empty client_id, two redirect URIs of which one is registered, pairwise subjects; one handler, since requests of other parties interleave through the steps that need none, and the overlap of two handlers is the matter of `concurrent`. The second client session of a user makes `append` reallocate; an append in place takes a fourth client and is covered by the proofs only, which do not depend on when `append` reallocates |
| `metadata` | 77,147 states, passes | one metadata client whose document is public or has keys, an automatic client beside it, two handlers; one consent and one code are enough, since refresh grants and requests at `/authorize` can be repeated: both handlers authenticate and fetch at once |
| `pkce` | violation | one session, two challenges |
| `claims` | violation | as `concurrent` |
| `meta_cache` | 863,000 states, passes | two handlers, three versions of which one is public, inline keys or a jwks_uri, lifetimes 2 and 3 against a timeout of 1: entries expire during fetches, versions are superseded while their answers are under way; max-age below, above and absent |
| `meta_keys` | violation | two versions, two handlers |
| `assertion_once` | passes | two assertions, two handlers, lifetime 3, leeway 2, time passing before the lock: every order of checks, consumptions and prunings around exp and exp + leeway |
| `bff_session` | 2,667,880 states, passes | each of the three stores, two requests at once, two logins, three tokens, any number of restarts; tokens that live for one unit or are never refreshed and sessions for two, so that access tokens, entries and cookies expire in every order. Three tokens allow two overlapping refreshes of one session, and a refresh across a second login |
| `bff_rolling` | violation | one request at a time is enough |
| `bff_logout` | violation | two requests, memory and Redis |
| `bff_login` | 302,363 states, passes | two browsers, two users, two logins, one code, two callbacks at once, one replica that may restart at any moment; cookies and claims live for two units, so a clean-up meets young and old records. One code is enough for a code in a foreign callback: state, cookie and code of a URL are chosen apart. Several replicas are covered by the proofs only; a restart makes a replica forget its claims as another replica would |

Symmetry is used over handlers, users, browsers, assertions and requests, never
in a run with a liveness property.

What they show:

* `CodeRedeemedOnce`, `OneSessionPerSub`, `TokensBoundToTheirGrant`,
  `CodesOnlyToRegisteredURIs`, `TokensNeedTheClientsSecret`: the safety of the
  flow under every overlap, unlocked reads included. Proved as well, see below.
  `TokensBoundToTheirGrant` is about the csid, the client and the user of the
  refresh token. It says nothing about the `sub` of the ID token, which the user
  chooses in the consent form.
* `HintLeadsToTheUserItNames`: the lookup by advertised subject never takes one
  user for another. That is all the code gives: a user who writes another user's
  subject into the form gets a signed ID token that names that user, and a hint
  with it leads to that user's session.
* `RevocationIsPermanent`: once the session a csid lived in is gone, no step,
  not even the write-back of a request in flight, brings the csid back.
* `ImplementsGrants`, `RevokedGrantsStayRevoked`: the refinement of `Grants`,
  and what it means for logout. A token request that copied the session before
  the logout still answers with tokens; the code has no way to stop it, and
  `Grants` allows it. Their csid is already dead, and once those requests are
  answered no code, token or new consent yields tokens of the ended grants.
* `KeysAreNeverSkipped`: a metadata client is granted tokens without proof only
  if it was public at some moment between the lookup that began its
  authentication and the grant. Nothing stronger is true: another request may
  store a document with keys after a public one was judged and before the tokens
  are issued, or before a failed fetch falls back on the registration read first.
* `WithdrawnKeysDie`: keys the client replaced are accepted for at most
  timeout + lifetime when they come from a jwks_uri, and for one lifetime more
  when they are inline, because keys read from an old document may be stored
  onto its successor's entry.
* `EveryRequestEnds`: no request hangs on a client's host.
* `AssertionAcceptedOnce`: no replay, unless a request was checked in time and
  then stalled at the lock until exp plus leeway had passed: the parser's clock
  is read before the lock, the one that prunes after it. Such a request is
  accepted a second time; the property names the window.
* `CookieNotStranded`: two refreshes of one session at once both rotate it, and
  each deletes what the other read. The browser is not left with a dead cookie by
  that: its cookie stops working only while a request that carried it is about to
  replace or clear it. Faults may break this and are excused by name: a save that
  failed after the delete, a lost answer, a restart, a Redis error.
* `StaysLoggedIn`: the browser also keeps a cookie. Refreshes that overlap and
  succeed log nobody out, and neither does one that fails while the access token
  is valid. The exceptions are the end of the Max-Age, a fault, a logout, and the
  failure of a refresh when the access token had expired. The last is wide: the
  answer of the request that gives up clears whatever cookie has arrived in the
  meantime, so of two overlapping refreshes the one that fails can log out the
  browser that the other has just given a working session.
* `ForwardedAsChecked`: although the session is loaded for the CSRF check and
  again for the token, both belong to one login.
* `ImplementsSessionStore`, `LoginsEndForGood`: the refinement, and what follows
  from it. A logout with a refresh in flight does not end the login (see
  `bff_logout`), but once no token works and no request is at work, nothing
  brings it back. With the cookie store tokens never stop loading, so the
  promise is kept there by never ending anything on the server.
* `StateClaimedOnce`, `OneSessionPerCode`, `ClaimsAreForgotten`: claims are kept
  exactly long enough, and what they miss after a restart the IdP's single use of
  codes catches.
* `SignedInAsAsked`: a session is created in a browser only for a user who opened
  the IdP's page of a login that this browser started. The state does not give
  that, for it is never compared with the code; the verifier does, although the
  IdP checks it against the latest challenge of the user and not against that of
  the code (`pkce`). A user who opens the page of somebody else's login does sign
  that browser in, which no check in the code could tell from the intended use.

Five runs show where the code and what is said of it part; the findings in
`PROJECT.json` quote the lines.

1. `pkce`: the challenge belongs to the client session, so a second
   `/authorize` replaces the challenge of a code already out.
2. `claims`: a token request in flight writes old claims over a new approval.
3. `meta_keys`: keys of one document land on the entry of its successor.
4. `bff_rolling`: the `csrf_token` cookie is not renewed by a refresh, so an
   active session outlives it and can then neither POST nor log out.
5. `bff_logout`: a refresh that overlaps a logout leaves a working session.

## Fairness

`AuthServer`, `ClientAssertion`, `BffSession` and `BffLogin` assume none: all
their properties are safety. `ClientIDMetadata!FairSpec` assumes weak fairness of
the steps a request takes by itself, one request at a time. That is what the Go
scheduler gives a runnable goroutine, and a fetch ends at the latest with its
context's timeout (`clientid_metadata.go:237`). Nothing is assumed of hosts, of
users, of new requests or of time.

No progress is stated for the BFF, because the code does not provide it:
discovery runs with `context.Background()` and the default HTTP client
(`oidc_runtime.go:53-55`), exchange and refresh with the request's context and
the same client (`oidc.go:25`, `:33`), and the server sets no timeouts
(`cmd/bff/main.go:95`). An IdP that accepts a connection and never answers holds
start-up, a callback or a refresh for ever.

## Proofs

All hold for any number of users, clients, requests and handlers, and any bounds.

* `AuthServerProofs!TypeCorrect`: the type invariant.
* `AuthServerSafetyProofs!Invariance`: `InductiveInv`, and from it `SingleUse`,
  `OneSession`, `TokenBinding`, `HintIsUnambiguous`, `RedirectsAreRegistered`
  and `SecretsAreRequired`, which state the properties of the runs.
* `AuthServerActionProofs`: `Revocation`, an action property of the runs;
  `KeysAreRequired`, and `MetadataInvariance`, which it rests on;
  `GrantsRefinement`, that `AuthServer` implements `Grants`; and
  `RevokedStaysRevoked`, which follows from that refinement.
* `ClientAssertionProofs`: `TypeCorrect`, and `NoReplay` for every lifetime bound
  and leeway.
* `ClientIDMetadataProofs`: `TypeCorrect`, `WithdrawnDie`, `CacheAgrees`, for
  every lifetime and timeout.
* `SessionStore!OverIsForGood`: a login nobody holds is over for good in every
  store that keeps the abstract specification's promises.
* `BffSessionProofs`: `TypeCorrect`, `NobodyStranded`, `NobodyLoggedOut`, `SameLogin`;
  `Refinement`, that `BffSession` implements `SessionStore`; and `EndForGood`,
  which is `OverIsForGood` through that refinement.
* `BffLoginProofs`: `TypeCorrect`, `ClaimedOnce`, `SessionPerCode`,
  `NobodyElseSignsIn`, `Forgotten`, for any number of browsers, users, replicas,
  flows, codes and restarts.

The properties are not inductive: what a token request issues depends on an
array it reads later through a copy of a session. `InductiveInv` therefore
speaks of every array, current or abandoned (`EntryInv`: an element that is set
is bound to its cookie, client and user, and its redirect URI is registered),
of every copy a handler holds (`HandlerInv` with `SessionOK`: a copy sees no
more clients than the live session, all of them of its user), and of the codes
(`CodeInv`: a code is in the map, or with one handler, or spent). The array
`append` moves to was never used before because arrays only contain elements
inside `ids`; that is the third conjunct of `EntryOK`. The proofs go through
one relation, `Evolves`, which says what a step leaves alone; steps that move
one handler, or change codes only, each need one lemma then.

`Revocation` needs no more than that: an element reachable after a step had its
csid before (`CsidsKept`), or has one bound to nobody yet. `KeysAreRequired`
needs `MetadataInv`: a token request for a metadata client finds it in the
registry, because its csid was created by an approval of a request that resolved
it. Otherwise the branch of `authenticateClient` for unknown clients, which asks
for nothing, would be open to it. `KeysInv` follows a request from there: what it
read was public only if it is in `seenPublic`, which no later step takes away.

`GrantsRefinement` has one lemma per step. `InductiveInv` is enough for it: a
grant can be found exactly if a live session leads to it (`Reaches`), it then is
for that cookie, client and user (`ReachedBinding`), and the grant a request
works for does not move because no step changes the csid of an array element
that has one (`CsidsInPlace`, `WorkingKept`). An approval is the hard step: it
may move the session to a new array, and copies made before stay with the old
one (`CommitReads`, `ReachedAfterCommit`). That a consent finds no second
session of its user is `OneSessionPerSub`; that a code is spent at its lookup is
the uniqueness in `CodeInv`.

For `ClientAssertion` the invariant is that the record of an accepted assertion
is there exactly as long as the parser still lets the assertion through.

For `ClientIDMetadata` it relates ages to deadlines: what a request or an entry
holds is no older than the time it still has allows (`RequestAgesInv`,
`EntryAgesInv`), so a tick keeps every sum. Inline keys need the longer bound
because a request may hold them from one entry to the next.

For `BffSession` a token on its way to the browser is known to nobody else and
works (`OnItsWayInv`); that is why a delete by an overlapping request cannot hit
it, and the cookie it becomes is not stranded. `CheckedInv` carries the login a
header was checked against from the CSRF check to the forwarder, through
`TokensInv`: an owner, once set, never changes. `DisturbedInv` is the other half of
`StaysLoggedIn`: an empty jar, and every request that clears it or will, has been
preceded by one of the exceptions.

For `BffLogin` the record of a claim and the cookies of its flow are related by
`claimAge + cookieLeft <= ClaimTTL` (`ClaimsInv`): a record is dropped no
earlier than the cookies are. This needs `CookieAge <= ClaimTTL`, an assumption
that the code meets with equality (300 seconds and five minutes). `CodesInv`
says a code is outstanding, or at one callback, or has bought its session.
`CookiesInv` and `AskedInv` carry a flow from the browser that started it to the
users who opened its page: through the cookie a callback brings, and through the
challenge in a user's session.

Assumptions on the constants are in the modules that declare them: the kinds of
clients are disjoint, the special values are none of the ordinary ones, and
registrations, documents and requests are well formed.

Only model-checked: liveness (`EveryRequestEnds`), which is out of the prover's
reach.

## Not modelled

The checks on URLs and addresses of outbound fetches, claim formatting, pages,
avatars, path rewriting and configuration: no shared state, or only read.
Validation of registration fields: abstracted to the registrations that pass.
The concurrent write of `csid` into a shared map is a data race whose value
never differs; the runtime's abort on it is outside the model. Nonces: the BFF
sends none and checks none, so the one the IdP stores reaches no decision of
this code.

## Plan

1. The IdP part of `BffLogin` and `AuthServer` as two implementations of one
   specification of codes, so that what the BFF relies on is what is proved.
2. Refresh tokens in `BffSession` as the values `AuthServer` issues, so that a
   revocation at the IdP is followed to the browser.
3. `Registration`: `normalizeRegistration` and `validateRedirectURI` as
   operators against their reference definitions.
