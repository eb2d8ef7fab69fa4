------------------------------ MODULE AuthServer ------------------------------
(***************************************************************************)
(* The authorization server of src/idp-auth-server/main.go: client          *)
(* registration, /authorize, /login, /approve, /token and the ways a        *)
(* session ends.                                                            *)
(*                                                                          *)
(* Every request runs in its own goroutine; server.mu is taken for short    *)
(* critical sections and released between them.  An action is one critical  *)
(* section together with the unlocked code up to the next one, except that  *)
(* unlocked reads of memory another goroutine may write are steps of their  *)
(* own.  A handler between two steps is a record in `handlers`.             *)
(*                                                                          *)
(* Values drawn from uuid.NewString are numbers never handed out before.    *)
(***************************************************************************)
EXTENDS Integers, FiniteSets

CONSTANTS
    Users,              \* usernames; the Sub of a login is "internal|" + username
    AutomaticClients,   \* client_ids the server first sees at /authorize
    DynamicClients,     \* client_ids handed out by /register
    MetadataClients,    \* client_ids that are metadata document URLs
    URIs,               \* redirect URIs
    HostOf,             \* the host of each redirect URI
    Verifiers,          \* PKCE code verifiers
    Registrations,      \* what clients ask /register for
    Documents,          \* what the metadata documents may say
    ClientRequests,     \* what clients ask /authorize for
    EditedSubs,         \* what a user may write for `sub` in the consent form
    Pairwise,           \* TRUE iff subjectType is "pairwise"
    Handlers,           \* slots for requests served concurrently
    MaxRequests,        \* bound: /authorize requests that reach the login form
    MaxConsents,        \* bound: completed approvals
    MaxCodes,           \* bound: authorization codes
    None, NoUser, NoClient, NoURI, NoChallenge

Subs       == Users \cup {NoUser}
Clients    == AutomaticClients \cup DynamicClients \cup MetadataClients
ClientIDs  == Clients \cup {NoClient}
AnyURI     == URIs \cup {NoURI}
Hosts      == {HostOf[u] : u \in URIs}
Requests   == 1 .. MaxRequests
Consents   == 1 .. MaxConsents      \* also names the CookieIDs and SessionIDs
Codes      == 1 .. MaxCodes

(***************************************************************************)
(* Record types.  A PKCE challenge is written as the verifier that          *)
(* satisfies it: /authorize refuses a method it does not know and reads a   *)
(* missing one as "plain", so whatever is stored can be checked, and both   *)
(* methods are injective.                                                   *)
(***************************************************************************)
Challenges == Verifiers \cup {NoChallenge}

clientRegistration ==
    [method : {"automatic", "dynamic", "metadata"},
     auth   : {"none", "secret", "private_key_jwt"},
     uris   : SUBSET URIs]

AuthorizeRequest == [client : ClientIDs, uri : AnyURI, chal : Challenges]

authContextEntry == [req : AuthorizeRequest, sub : Subs]

AdvertisedSubs == [sector : Hosts \cup ClientIDs, sub : Subs]

\* The claims of one approval, and the sub among them: the consent form offers
\* the advertised one, but its claims can be edited at will, None is no sub at all.
ClaimSet == [consent : Consents \cup {0}, sub : AdvertisedSubs \cup {None}]

clientSession ==
    [csid    : Consents \cup {0},   \* SessionID
     adv     : AdvertisedSubs,      \* AdvertisedSub
     uri     : AnyURI,              \* RedirectURI
     chal    : Challenges,          \* CodeChallenge
     claims  : ClaimSet]            \* IDTokenClaims, AccessTokenClaims

(***************************************************************************)
(* A session value.  `arr` and `ids` are the slice header ClientSessions:   *)
(* the array it points to and the clients that are elements of it.  Copying *)
(* a session copies the header; the array stays shared.                     *)
(***************************************************************************)
session ==
    [sub : Subs, cookie : Consents, arr : SUBSET ClientIDs, ids : SUBSET ClientIDs]

codeMetadataEntry == [cookie : Consents, client : ClientIDs]

(***************************************************************************)
(* A handler between two of its steps; `code` is 0 in a refresh_token       *)
(* grant.  An input of a request is chosen where the code first uses it.    *)
(***************************************************************************)
Idle         == [pc |-> "idle"]
ApproveState == [pc : {"approve"}, r : Requests, ctx : authContextEntry]
IssueState   == [pc : {"issue"}, sess : session, req : AuthorizeRequest, consent : Consents \cup {0}]
TakenState   == [pc : {"taken"}, code : Codes, meta : codeMetadataEntry]
VerifyState  == [pc : {"verify"}, code : Codes, sess : session, client : ClientIDs]
ReadState    == [pc : {"read"}, code : Codes \cup {0}, sess : session, client : ClientIDs,
                 verifier : Challenges]
ClaimsState  == [pc : {"claims"}, code : Codes \cup {0}, sess : session, client : ClientIDs,
                 verifier : Challenges, adv : AdvertisedSubs]
Finishing    == {"finish", "resolve", "granted"}
FinishState  == [pc : Finishing, code : Codes \cup {0}, cookie : Consents, client : ClientIDs,
                 verifier : Challenges, csid : Consents \cup {0}, adv : AdvertisedSubs,
                 claims : ClaimSet, reg : clientRegistration \cup {None},
                 cred : ClientIDs]
HandlerState == {Idle} \cup ApproveState \cup IssueState \cup TakenState
                \cup VerifyState \cup ReadState \cup ClaimsState \cup FinishState

\* History: what left the server with a code, the token responses that are out
\* (the refresh token's sub is `adv`, the ID token's is `sub`) and the credentials
\* they were asked for with, what a SessionID was created for.
Redirect == [req : AuthorizeRequest, cookie : Consents, followed : BOOLEAN, uri : AnyURI,
             consent : Consents \cup {0}]
Token    == [client : ClientIDs, csid : Consents \cup {0}, adv : AdvertisedSubs, sub : AdvertisedSubs,
             cred : ClientIDs]
Binding  == [cookie : Consents, client : ClientIDs, sub : Subs]

ASSUME ConstantsAssumption ==
    /\ MaxRequests \in Nat /\ MaxConsents \in Nat /\ MaxCodes \in Nat
    /\ Pairwise \in BOOLEAN
    /\ Registrations \subseteq [method : {"dynamic"}, auth : {"none", "secret"}, uris : SUBSET URIs]
    /\ Documents \subseteq [method : {"metadata"}, auth : {"none", "private_key_jwt"}, uris : SUBSET URIs]
    /\ ClientRequests \subseteq [client : ClientIDs, uri : URIs, chal : Challenges]
    /\ EditedSubs \subseteq AdvertisedSubs \cup {None}
ASSUME ClientsAssumption ==
    /\ NoClient \notin Clients
    /\ AutomaticClients \cap DynamicClients = {}
    /\ AutomaticClients \cap MetadataClients = {}
    /\ DynamicClients \cap MetadataClients = {}
ASSUME NoneAssumption ==
    None \notin clientRegistration \cup authContextEntry \cup codeMetadataEntry
                \cup session \cup Redirect \cup Binding \cup AdvertisedSubs
ASSUME NoURIAssumption == NoURI \notin URIs

VARIABLES
    clients,      \* server.clients
    authContext,  \* server.authContext
    codeMeta,     \* server.codeMeta
    sessions,     \* server.sessions
    slices,       \* the backing arrays of every session's ClientSessions
    handlers,     \* requests in progress
    nRequests,    \* request IDs handed out
    nConsents,    \* approvals committed; a fresh CookieID or SessionID is the next one
    sent,         \* history: the redirect each code left with
    tokens,       \* history: the tokens issued
    uses,         \* history: how many token responses each code produced
    bindings,     \* history: what each SessionID was created for
    seenPublic    \* history: the requests whose metadata client was public meanwhile

serverVars  == <<clients, authContext, codeMeta, sessions, slices>>
historyVars == <<sent, tokens, uses, bindings>>
vars == <<serverVars, handlers, nRequests, nConsents, historyVars, seenPublic>>

NoSub == [sector |-> NoClient, sub |-> NoUser]
NoClientSession ==
    [csid |-> 0, adv |-> NoSub, uri |-> NoURI, chal |-> NoChallenge,
     claims |-> [consent |-> 0, sub |-> NoSub]]

Init ==
    /\ clients = [c \in Clients |-> None]
    /\ authContext = [r \in Requests |-> None]
    /\ codeMeta = [k \in Codes |-> None]
    /\ sessions = [c \in Consents |-> None]
    /\ slices = [c \in Consents |-> [a \in SUBSET ClientIDs |-> [i \in ClientIDs |-> NoClientSession]]]
    /\ handlers = [p \in Handlers |-> Idle]
    /\ nRequests = 0
    /\ nConsents = 0
    /\ sent = [k \in Codes |-> None]
    /\ tokens = {}
    /\ uses = [k \in Codes |-> 0]
    /\ bindings = [n \in Consents |-> None]
    /\ seenPublic = {}

\* Every step takes down, for the requests that are authenticating a metadata
\* client, whether its registration is a public one by now.
NotePublic ==
    seenPublic' = {p \in Handlers :
        /\ handlers'[p].pc \in {"resolve", "granted"}
        /\ handlers'[p].client \in MetadataClients
        /\ p \in seenPublic \/ clients'[handlers'[p].client].auth = "none"}

-----------------------------------------------------------------------------
(* Lookups. *)

Live(c) == c \in Consents /\ sessions[c] # None

\* getClientSessionByID on a session value: NoClientSession stands for nil.
ClientSession(sess, client) ==
    IF client \in sess.ids THEN slices[sess.cookie][sess.arr][client] ELSE NoClientSession

\* The heap after the array `a` of cookie c's session is overwritten with f.
StoreArray(c, a, f) == [slices EXCEPT ![c][a] = f]

\* Mutant: /approve opens a session of its own for every consent.
SessionsOfSub_NoLookup(sub) == {}

\* The cookies getSessionBySubLocked may return.
SessionsOfSub(sub) == {c \in Consents : Live(c) /\ sessions[c].sub = sub}

\* The cookies getSessionByAdvertisedSubLocked may return.
SessionsAdvertising(adv) ==
    {c \in Consents : Live(c) /\ \E i \in sessions[c].ids : ClientSession(sessions[c], i).adv = adv}

\* The <<cookie, client>> pairs getSessionByClientSessionIDLocked may return.
SessionsWithCsid(csid) ==
    {x \in Consents \X ClientIDs :
        /\ csid # 0
        /\ Live(x[1])
        /\ x[2] \in sessions[x[1]].ids
        /\ ClientSession(sessions[x[1]], x[2]).csid = csid}

sectorIdentifier(uri, client) == IF uri \in URIs THEN HostOf[uri] ELSE client

\* Mutant: the internal subject is left out of the HMAC.
computeAdvertisedSub_SectorOnly(sub, sector) ==
    [sector |-> IF Pairwise THEN sector ELSE NoClient, sub |-> NoUser]

\* The HMAC of pairwise mode is injective in <<sector, sub>>.
computeAdvertisedSub(sub, sector) ==
    [sector |-> IF Pairwise THEN sector ELSE NoClient, sub |-> sub]

\* The codes that left the server, and the cookies set along with them.
HeldCodes   == {k \in Codes : sent[k] # None /\ sent[k].followed}
HeldCookies == {sent[k].cookie : k \in HeldCodes}

-----------------------------------------------------------------------------
(* Registration. *)

\* POST /register.  The client_id is a fresh UUID, so it was never used before.
Register(client, reg) ==
    /\ clients[client] = None
    /\ clients' = [clients EXCEPT ![client] = reg]
    /\ UNCHANGED <<authContext, codeMeta, sessions, slices, handlers, nRequests, nConsents, historyVars>>
    /\ NotePublic

\* The registry after registerClientLocked.
registerClientLocked(client, uri) ==
    IF client = NoClient \/ (clients[client] # None /\ clients[client].method # "automatic")
    THEN clients
    ELSE [clients EXCEPT ![client] =
            [method |-> "automatic", auth |-> "none",
             uris |-> {uri} \cup IF clients[client] = None THEN {} ELSE clients[client].uris]]

\* The registries resolveAuthorizeClient may leave behind.  A client_id from
\* /register is not known to anyone before /register returned it.
ResolvedRegistries(req) ==
    IF req.client \in MetadataClients
    THEN {[clients EXCEPT ![req.client] = doc] : doc \in Documents}
    ELSE {registerClientLocked(req.client, req.uri)}

\* Mutant: only metadata clients are held to their redirect URIs.
RequestAllowed_MetadataOnly(registry, req) ==
    req.client # NoClient =>
        LET reg == registry[req.client]
        IN  /\ reg.method = "metadata" => req.uri \in reg.uris
            /\ (reg.method = "metadata" /\ reg.auth = "none") => req.chal # NoChallenge

\* What resolveAuthorizeClient then demands of the request.
RequestAllowed(registry, req) ==
    req.client # NoClient =>
        LET reg == registry[req.client]
        IN  /\ reg.method \in {"dynamic", "metadata"} => req.uri \in reg.uris
            /\ (reg.method = "metadata" /\ reg.auth = "none") => req.chal # NoChallenge

resolveAuthorizeClient(req) ==
    /\ req.client \in DynamicClients => clients[req.client] # None
    /\ clients' \in ResolvedRegistries(req)
    /\ RequestAllowed(clients', req)

-----------------------------------------------------------------------------
(* /authorize, /login, /approve.  Requests that fail before they change     *)
(* anything (unsupported challenge method, wrong password, consent refused, *)
(* malformed claims) are not steps.                                         *)

\* The request is refused; a metadata document may have been stored by then.
AuthorizeRefused(req) ==
    /\ req.client \in MetadataClients
    /\ clients' \in ResolvedRegistries(req)
    /\ ~RequestAllowed(clients', req)
    /\ UNCHANGED <<authContext, codeMeta, sessions, slices, handlers, nRequests, nConsents, historyVars>>
    /\ NotePublic

\* updateClientSessionPKCE and updateClientSessionRedirectURI, in place.
UpdatedSlices(sess, req) ==
    IF req.client \in sess.ids
    THEN StoreArray(sess.cookie, sess.arr,
            [slices[sess.cookie][sess.arr] EXCEPT
                ![req.client] = [@ EXCEPT !.chal = req.chal, !.uri = req.uri]])
    ELSE slices

\* Single sign-on: the request is answered from session c without a login.
AuthorizeSSO(p, req, c) ==
    /\ handlers[p] = Idle
    /\ Live(c)
    /\ resolveAuthorizeClient(req)
    /\ slices' = UpdatedSlices(sessions[c], req)
    /\ handlers' = [handlers EXCEPT ![p] =
            [pc |-> "issue", sess |-> sessions[c], req |-> req,
             consent |-> ClientSession(sessions[c], req.client).claims.consent]]
    /\ UNCHANGED <<authContext, codeMeta, sessions, nRequests, nConsents, historyVars>>
    /\ NotePublic

\* ... because the browser presents the cookie of a live session.
AuthorizeWithCookie(p, req, c) == c \in HeldCookies /\ AuthorizeSSO(p, req, c)

\* ... because, with prompt=none and no live cookie, the sub of the id_token_hint,
\* which may be any token of the server, is advertised by session c.
AuthorizeByHint(p, req, t, c) ==
    /\ c \in SessionsAdvertising(t.adv) \cup SessionsAdvertising(t.sub)
    /\ AuthorizeSSO(p, req, c)

\* prompt=none without a hint that leads to a session: login_required.
AuthorizeLoginRequired(req) ==
    /\ resolveAuthorizeClient(req)
    /\ UNCHANGED <<authContext, codeMeta, sessions, slices, handlers, nRequests, nConsents, historyVars>>
    /\ NotePublic

\* No live cookie and no prompt=none: remember the request, show the login form.
AuthorizeLogin(req) ==
    /\ nRequests < MaxRequests
    /\ resolveAuthorizeClient(req)
    /\ nRequests' = nRequests + 1
    /\ authContext' = [authContext EXCEPT ![nRequests + 1] = [req |-> req, sub |-> NoUser]]
    /\ UNCHANGED <<codeMeta, sessions, slices, handlers, nConsents, historyVars>>
    /\ NotePublic

\* POST /login with the right password.  A consumed request ID (or one the
\* server never issued) finds the zero authContextEntry, and storing that back
\* makes the ID known again.
login(r, user) ==
    /\ r <= nRequests
    /\ LET ctx == IF authContext[r] # None THEN authContext[r]
                  ELSE [req |-> [client |-> NoClient, uri |-> NoURI, chal |-> NoChallenge], sub |-> NoUser]
       IN  authContext' = [authContext EXCEPT ![r] = [ctx EXCEPT !.sub = user]]
    /\ UNCHANGED <<clients, codeMeta, sessions, slices, handlers, nRequests, nConsents, historyVars>>
    /\ NotePublic

\* POST /approve, first critical section: read the request.
ApproveRead(p, r) ==
    /\ handlers[p] = Idle
    /\ authContext[r] # None
    /\ handlers' = [handlers EXCEPT ![p] = [pc |-> "approve", r |-> r, ctx |-> authContext[r]]]
    /\ UNCHANGED <<serverVars, nRequests, nConsents, historyVars>>
    /\ NotePublic

\* append moves to a new array exactly when length equals capacity, and the
\* capacity of a clientSession slice runs through the powers of two (up to 16
\* elements; then the allocator's size classes decide).
AppendReallocates(sess) ==
    LET n == Cardinality(sess.ids) IN n = 0 \/ \E i \in 0 .. n : n = 2 ^ i

\* Mutant: a SessionID derived from the client and the user.
NewSessionID_Derived(client, sub, fresh) ==
    LET earlier == {n \in Consents : bindings[n] # None /\ bindings[n].client = client /\ bindings[n].sub = sub}
    IN  IF earlier = {} THEN fresh ELSE CHOOSE n \in earlier : TRUE

\* The SessionID of a new client session: a fresh UUID, whatever it is for.
NewSessionID(client, sub, fresh) == fresh

\* The session /approve works on: the user's, or a new one without clients.
FoundOrNewSession(sub) ==
    IF SessionsOfSub(sub) # {} THEN {sessions[c] : c \in SessionsOfSub(sub)}
    ELSE {[sub |-> sub, cookie |-> nConsents + 1, arr |-> {}, ids |-> {}]}

\* The session value after upsertClientSession: overwrite in place, or append.
UpsertedSession(old, client) ==
    [old EXCEPT !.ids = old.ids \cup {client},
                !.arr = IF client \notin old.ids /\ AppendReallocates(old)
                        THEN old.ids \cup {client} ELSE old.arr]

\* The AdvertisedSub of an approval, which the consent form also offers as `sub`.
OfferedSub(ctx) == computeAdvertisedSub(ctx.sub, sectorIdentifier(ctx.req.uri, ctx.req.client))

\* The client session an approval stores, with the `sub` the form came back with;
\* its SessionID is kept if there is one.
ConsentedClientSession(old, ctx, sub) ==
    [csid |-> IF ctx.req.client \in old.ids THEN ClientSession(old, ctx.req.client).csid
              ELSE NewSessionID(ctx.req.client, ctx.sub, nConsents + 1),
     adv |-> OfferedSub(ctx), uri |-> ctx.req.uri, chal |-> ctx.req.chal,
     claims |-> [consent |-> nConsents + 1, sub |-> sub]]

\* POST /approve, second critical section: consume the request, find or create
\* the user's session, upsert the client session.
CommitConsent(p, ctx, old, sub) ==
    LET sess == UpsertedSession(old, ctx.req.client)
        cs   == ConsentedClientSession(old, ctx, sub)
    IN
    /\ nConsents < MaxConsents
    /\ nConsents' = nConsents + 1
    /\ authContext' = [authContext EXCEPT ![handlers[p].r] = None]
    /\ sessions' = [sessions EXCEPT ![old.cookie] = sess]
    /\ slices' = StoreArray(old.cookie, sess.arr,
                            [slices[old.cookie][old.arr] EXCEPT ![ctx.req.client] = cs])
    /\ bindings' = IF ctx.req.client \in old.ids THEN bindings
                   ELSE [bindings EXCEPT ![cs.csid] =
                           [cookie |-> old.cookie, client |-> ctx.req.client, sub |-> ctx.sub]]
    /\ handlers' = [handlers EXCEPT ![p] =
                      [pc |-> "issue", sess |-> sess, req |-> ctx.req, consent |-> nConsents + 1]]
    /\ UNCHANGED <<clients, codeMeta, nRequests, sent, tokens, uses>>
    /\ NotePublic

ApproveCommit(p) ==
    /\ handlers[p].pc = "approve"
    /\ \E old \in FoundOrNewSession(handlers[p].ctx.sub),
         sub \in {OfferedSub(handlers[p].ctx)} \cup EditedSubs :
            CommitConsent(p, handlers[p].ctx, old, sub)

\* issueCodeAndRedirect, on the session value its caller holds.  The code is
\* stored first; RedirectURI is then read from the shared array, unlocked.
\* Without a client session the browser gets an error page and no code.
issueCodeAndRedirect(p, k) ==
    LET hp == handlers[p] IN
    /\ hp.pc = "issue"
    /\ sent[k] = None
    /\ \A j \in 1 .. k - 1 : sent[j] # None
    /\ codeMeta' = [codeMeta EXCEPT ![k] = [cookie |-> hp.sess.cookie, client |-> hp.req.client]]
    /\ sent' = [sent EXCEPT ![k] =
                  [req |-> hp.req, cookie |-> hp.sess.cookie,
                   followed |-> hp.req.client \in hp.sess.ids,
                   uri |-> ClientSession(hp.sess, hp.req.client).uri, consent |-> hp.consent]]
    /\ handlers' = [handlers EXCEPT ![p] = Idle]
    /\ UNCHANGED <<clients, authContext, sessions, slices, nRequests, nConsents, tokens, uses, bindings>>
    /\ NotePublic

-----------------------------------------------------------------------------
(* /token. *)

\* Mutant: the code is only deleted once its tokens are out.
CodesAfterTake_Kept(k) == codeMeta

\* delete(s.codeMeta, code), in the critical section that found it.
CodesAfterTake(k) == [codeMeta EXCEPT ![k] = None]

\* authorization_code: look the code up and delete it, in one critical section.
TakeCode(p, k) ==
    /\ handlers[p] = Idle
    /\ codeMeta[k] # None
    /\ codeMeta' = CodesAfterTake(k)
    /\ handlers' = [handlers EXCEPT ![p] = [pc |-> "taken", code |-> k, meta |-> codeMeta[k]]]
    /\ UNCHANGED <<clients, authContext, sessions, slices, nRequests, nConsents, historyVars>>
    /\ NotePublic

\* Mutant: the session is taken from the map without looking whether it is there.
SnapshotSession_Unchecked(p) ==
    LET hp == handlers[p] IN
    /\ hp.pc = "taken"
    /\ handlers' = [handlers EXCEPT ![p] =
            [pc |-> "verify", code |-> hp.code, sess |-> sessions[hp.meta.cookie],
             client |-> hp.meta.client]]
    /\ UNCHANGED <<serverVars, nRequests, nConsents, historyVars>>
    /\ NotePublic

\* Copy the code's session, or answer invalid_grant if it has ended.
SnapshotSession(p) ==
    LET hp == handlers[p] IN
    /\ hp.pc = "taken"
    /\ handlers' = [handlers EXCEPT ![p] =
            IF Live(hp.meta.cookie)
            THEN [pc |-> "verify", code |-> hp.code, sess |-> sessions[hp.meta.cookie],
                  client |-> hp.meta.client]
            ELSE Idle]
    /\ UNCHANGED <<serverVars, nRequests, nConsents, historyVars>>
    /\ NotePublic

\* PKCE, against the challenge in the shared array at this moment.
VerifierMatches(chal, verifier) == chal = NoChallenge \/ verifier = chal

VerifyPKCE(p, verifier) ==
    LET hp == handlers[p] IN
    /\ hp.pc = "verify"
    /\ handlers' = [handlers EXCEPT ![p] =
            IF /\ hp.client \in hp.sess.ids
               /\ VerifierMatches(ClientSession(hp.sess, hp.client).chal, verifier)
            THEN [pc |-> "read", code |-> hp.code, sess |-> hp.sess, client |-> hp.client,
                  verifier |-> verifier]
            ELSE Idle]
    /\ UNCHANGED <<serverVars, nRequests, nConsents, historyVars>>
    /\ NotePublic

\* refresh_token: any token this server signed names a client session by its
\* csid, and that session must still be there.
RefreshGrant(p, t) ==
    /\ handlers[p] = Idle
    /\ \E x \in SessionsWithCsid(t.csid) :
         handlers' = [handlers EXCEPT ![p] =
            [pc |-> "read", code |-> 0, sess |-> sessions[x[1]], client |-> x[2],
             verifier |-> NoChallenge]]
    /\ UNCHANGED <<serverVars, nRequests, nConsents, historyVars>>
    /\ NotePublic

\* Both grants: read AdvertisedSub, unlocked.
ReadAdvertisedSub(p) ==
    LET hp == handlers[p] IN
    /\ hp.pc = "read"
    /\ handlers' = [handlers EXCEPT ![p] =
            [pc |-> "claims", code |-> hp.code, sess |-> hp.sess, client |-> hp.client,
             verifier |-> hp.verifier, adv |-> ClientSession(hp.sess, hp.client).adv]]
    /\ UNCHANGED <<serverVars, nRequests, nConsents, historyVars>>
    /\ NotePublic

\* Mutant: the IDs of the first client session found are used.
ReadCsid_AnyClient(sess, client) ==
    slices[sess.cookie][sess.arr][CHOOSE i \in sess.ids : TRUE].csid

\* The csid of the tokens about to be issued.
ReadCsid(sess, client) == ClientSession(sess, client).csid

\* Both grants: read SessionID and the claims, unlocked; a consent may have been
\* stored since AdvertisedSub was read.  One step for both: no step changes the
\* SessionID of an element that has one (CsidsInPlace in AuthServerActionProofs).
ReadClaims(p) ==
    LET hp == handlers[p] IN
    /\ hp.pc = "claims"
    /\ handlers' = [handlers EXCEPT ![p] =
            [pc |-> "finish", code |-> hp.code, cookie |-> hp.sess.cookie, client |-> hp.client,
             verifier |-> hp.verifier, csid |-> ReadCsid(hp.sess, hp.client),
             adv |-> hp.adv, claims |-> ClientSession(hp.sess, hp.client).claims,
             reg |-> None, cred |-> NoClient]]
    /\ UNCHANGED <<serverVars, nRequests, nConsents, historyVars>>
    /\ NotePublic

\* Mutant: a secret is only compared when the request brings one.
CredentialsVerify_Optional(reg, client, cred) == reg.auth = "none" \/ cred \in {client, NoClient}

\* authenticateClient's verdict on the registration it works with.
CredentialsVerify(reg, client, cred) == reg.auth = "none" \/ cred = client

\* What a handler goes on with when its client has been authenticated, or not.
Verdict(hp, ok, cred) ==
    IF ok THEN [hp EXCEPT !.pc = "granted", !.reg = None, !.cred = cred] ELSE Idle

\* The lookup in s.clients, None if the client is not known.
Registration(client) == IF client = NoClient THEN None ELSE clients[client]

\* authenticateClient, of a client that the server need not ask: read the
\* registration under the lock, then judge it.
AuthenticateRegistered(p, cred) ==
    LET hp  == handlers[p]
        reg == Registration(hp.client)
        ok  == reg = None \/ reg.method = "automatic" \/ CredentialsVerify(reg, hp.client, cred)
    IN
    /\ hp.pc = "finish"
    /\ reg # None => reg.method # "metadata"
    /\ handlers' = [handlers EXCEPT ![p] = Verdict(hp, ok, cred)]
    /\ UNCHANGED <<serverVars, nRequests, nConsents, historyVars>>
    /\ NotePublic

\* authenticateClient, of a metadata client: read the registration under the lock.
ReadMetadataRegistration(p) ==
    LET hp  == handlers[p]
        reg == Registration(hp.client)
    IN
    /\ hp.pc = "finish"
    /\ reg # None /\ reg.method = "metadata"
    /\ handlers' = [handlers EXCEPT ![p] = [hp EXCEPT !.pc = "resolve", !.reg = reg]]
    /\ UNCHANGED <<serverVars, nRequests, nConsents, historyVars>>
    /\ NotePublic

\* Mutant: every metadata client is let through when its document cannot be had.
ResolveOutcomes_FailOpen(hp, cred) ==
    {[registry |-> clients, ok |-> TRUE]}
    \cup {[registry |-> [clients EXCEPT ![hp.client] = doc],
           ok |-> CredentialsVerify(doc, hp.client, cred)] : doc \in Documents}

\* The registry after resolveClientIDMetadata and the verdict on the document.
\* When there is none to be had, the client is refused if it had keys and let
\* through if it was public, by the registration read before.
ResolveOutcomes(hp, cred) ==
    {[registry |-> clients, ok |-> hp.reg.auth # "private_key_jwt"]}
    \cup {[registry |-> [clients EXCEPT ![hp.client] = doc],
           ok |-> CredentialsVerify(doc, hp.client, cred)] : doc \in Documents}

\* ... fetch the document with the lock released, store it, and judge it.
ResolveMetadata(p, cred) ==
    LET hp == handlers[p] IN
    /\ hp.pc = "resolve"
    /\ \E out \in ResolveOutcomes(hp, cred) :
         /\ clients' = out.registry
         /\ handlers' = [handlers EXCEPT ![p] = Verdict(hp, out.ok, cred)]
    /\ UNCHANGED <<authContext, codeMeta, sessions, slices, nRequests, nConsents, historyVars>>
    /\ NotePublic

\* The sub issueToken puts into the ID token: that of the claims, if there is one.
IssuedSub(hp) == IF hp.claims.sub = None THEN hp.adv ELSE hp.claims.sub

\* The write-back of what was issued, if the session is still there.
WrittenBack(hp) ==
    IF Live(hp.cookie)
    THEN LET sess == sessions[hp.cookie]
             arr  == slices[hp.cookie][sess.arr]
         IN  StoreArray(hp.cookie, sess.arr,
                [i \in ClientIDs |->
                    IF i \in sess.ids /\ arr[i].csid = hp.csid
                    THEN [arr[i] EXCEPT !.adv = hp.adv, !.claims = [hp.claims EXCEPT !.sub = IssuedSub(hp)]]
                    ELSE arr[i]])
    ELSE slices

\* The tokens of one response: the refresh token carries AdvertisedSub.
IssuedTokens(hp) ==
    [client |-> hp.client, csid |-> hp.csid, adv |-> hp.adv, sub |-> IssuedSub(hp), cred |-> hp.cred]

\* Issue the tokens and write the claims back.
IssueTokens(p) ==
    LET hp == handlers[p] IN
    /\ hp.pc = "granted"
    /\ slices' = WrittenBack(hp)
    /\ tokens' = tokens \cup {IssuedTokens(hp)}
    /\ uses' = IF hp.code = 0 THEN uses ELSE [uses EXCEPT ![hp.code] = @ + 1]
    /\ handlers' = [handlers EXCEPT ![p] = Idle]
    /\ UNCHANGED <<clients, authContext, codeMeta, sessions, nRequests, nConsents, sent, bindings>>
    /\ NotePublic

-----------------------------------------------------------------------------
\* POST /logout and /endsession-approve: delete the session, whoever asks.
EndSession(c) ==
    /\ sessions' = [sessions EXCEPT ![c] = None]
    /\ UNCHANGED <<clients, authContext, codeMeta, slices, handlers, nRequests, nConsents, historyVars>>
    /\ NotePublic

-----------------------------------------------------------------------------
Registering == \E client \in DynamicClients, reg \in Registrations : Register(client, reg)

Authorizing ==
    \E req \in ClientRequests :
        \/ AuthorizeRefused(req)
        \/ AuthorizeLoginRequired(req)
        \/ AuthorizeLogin(req)
        \/ \E p \in Handlers, c \in Consents :
             \/ AuthorizeWithCookie(p, req, c)
             \/ \E t \in tokens : AuthorizeByHint(p, req, t, c)

Approving ==
    \E p \in Handlers :
        \/ \E r \in Requests : ApproveRead(p, r)
        \/ ApproveCommit(p)
        \/ \E k \in Codes : issueCodeAndRedirect(p, k)

Exchanging ==
    \E p \in Handlers :
        \/ \E k \in HeldCodes : TakeCode(p, k)
        \/ SnapshotSession(p)
        \/ \E verifier \in Challenges : VerifyPKCE(p, verifier)
        \/ \E t \in tokens : RefreshGrant(p, t)
        \/ ReadAdvertisedSub(p)
        \/ ReadClaims(p)
        \/ \E cred \in ClientIDs : AuthenticateRegistered(p, cred) \/ ResolveMetadata(p, cred)
        \/ ReadMetadataRegistration(p)
        \/ IssueTokens(p)

Next ==
    \/ Registering
    \/ Authorizing
    \/ \E r \in Requests, user \in Users : login(r, user)
    \/ Approving
    \/ Exchanging
    \/ \E c \in Consents : EndSession(c)

Spec == Init /\ [][Next]_vars

-----------------------------------------------------------------------------
(* Properties. *)

\* Every variable holds values of the type the code declares for it.
TypeOK ==
    /\ clients \in [Clients -> clientRegistration \cup {None}]
    /\ authContext \in [Requests -> authContextEntry \cup {None}]
    /\ codeMeta \in [Codes -> codeMetadataEntry \cup {None}]
    /\ sessions \in [Consents -> session \cup {None}]
    /\ slices \in [Consents -> [SUBSET ClientIDs -> [ClientIDs -> clientSession]]]
    /\ handlers \in [Handlers -> HandlerState]
    /\ nRequests \in 0 .. MaxRequests
    /\ nConsents \in 0 .. MaxConsents
    /\ sent \in [Codes -> Redirect \cup {None}]
    /\ tokens \subseteq Token
    /\ uses \in [Codes -> Nat]
    /\ bindings \in [Consents -> Binding \cup {None}]
    /\ seenPublic \subseteq Handlers

\* However exchanges of one code overlap, it yields tokens at most once (token
\* looks a code up and deletes it under one lock, main.go:1304-1309).
CodeRedeemedOnce == \A k \in Codes : uses[k] <= 1

\* A user has at most one session, so that a second consent joins the first
\* one's session instead of starting another (approve looks up and stores under
\* one lock, main.go:1082-1110).
OneSessionPerSub ==
    \A c, d \in Consents : Live(c) /\ Live(d) /\ sessions[c].sub = sessions[d].sub => c = d

\* Tokens belong to the client the grant belongs to and to the user who
\* consented: their csid was created for exactly that pair, the refresh token
\* names that user, and the code that bought them was issued for it in the same
\* browser session (main.go:1317-1374).  Whom the ID token names is another
\* matter: its sub is what the user wrote in the consent form (main.go:1698).
TokensBoundToTheirGrant ==
    /\ \A t \in tokens :
        /\ t.csid \in Consents
        /\ bindings[t.csid] # None
        /\ bindings[t.csid].client = t.client
        /\ bindings[t.csid].sub = t.adv.sub
    /\ \A p \in Handlers :
        (handlers[p].pc = "finish" /\ handlers[p].code # 0) =>
            LET origin == sent[handlers[p].code]
            IN  /\ handlers[p].client = origin.req.client
                /\ bindings[handlers[p].csid].cookie = origin.cookie

\* An id_token_hint leads to no session but those of the user its sub names
\* (getSessionByAdvertisedSubLocked, main.go:1804, as used by silent
\* authorization and by /endsession).  For a refresh token, whose sub the user
\* cannot edit, that is the user who consented; an ID token may name anybody.
HintLeadsToTheUserItNames ==
    \A t \in tokens :
        /\ \A c \in SessionsAdvertising(t.adv) : sessions[c].sub = bindings[t.csid].sub
        /\ \A c \in SessionsAdvertising(t.sub) : sessions[c].sub = t.sub.sub

\* A code for a client that registered itself goes to one of the redirect URIs
\* it registered, although the URI is kept in a session that later requests
\* rewrite and is read without the lock (main.go:819-841, 916, 1132).
CodesOnlyToRegisteredURIs ==
    \A k \in HeldCodes :
        LET client == sent[k].req.client
        IN  client \in DynamicClients => sent[k].uri \in clients[client].uris

\* A client that was issued a secret gets tokens only when it presents its own
\* (authenticateClient, main.go:1192-1257, runs against the client the grant
\* names).
TokensNeedTheClientsSecret ==
    \A t \in tokens :
        (t.client \in DynamicClients /\ clients[t.client].auth = "secret") => t.cred = t.client

\* Once the session a csid lives in has ended, no later login, consent or
\* in-flight exchange brings that csid back: outstanding refresh tokens stay
\* dead (main.go:800, 1479, 1100-1102).
RevocationIsPermanent ==
    [][\A n \in Consents :
        (bindings[n] # None /\ SessionsWithCsid(n) = {}) => SessionsWithCsid(n)' = {}]_vars

\* A metadata client is granted tokens without proving itself only if its
\* registration was a public one at some moment between the lookup that began its
\* authentication and the grant.  Neither a document that cannot be had nor what
\* other requests fetch and store meanwhile lets a client that had keys throughout
\* go without them (main.go:1192-1223, clientid_metadata.go:126-140).
KeysAreNeverSkipped ==
    \A p \in Handlers :
        (/\ handlers[p].pc = "granted"
         /\ handlers[p].client \in MetadataClients
         /\ handlers[p].cred # handlers[p].client) => p \in seenPublic

\* The grant a request at /token works for, 0 if it has found none.
WorkingFor(hp) ==
    IF hp.pc \in {"verify", "read", "claims"} THEN ClientSession(hp.sess, hp.client).csid
    ELSE IF hp.pc \in Finishing THEN hp.csid ELSE 0

\* A code can be exchanged, or the request that took it has yet to look for its
\* session.
Exchangeable(k) ==
    codeMeta[k] # None \/ \E p \in Handlers : handlers[p].pc = "taken" /\ handlers[p].code = k

Granted == INSTANCE Grants WITH
    GrantIDs <- Consents, Cookies <- Consents, Requests <- Handlers, NoGrant <- 0,
    grants   <- bindings,
    active   <- {n \in Consents : SessionsWithCsid(n) # {}},
    codes    <- [k \in Codes |-> IF sent[k] = None THEN None
                                 ELSE [cookie |-> sent[k].cookie, client |-> sent[k].req.client]],
    open     <- {k \in Codes : Exchangeable(k)},
    working  <- [p \in Handlers |-> WorkingFor(handlers[p])],
    issued   <- {[grant |-> t.csid, client |-> t.client, sub |-> t.adv.sub] : t \in tokens}

\* However requests overlap and arrays are shared, codes and tokens lead to the
\* grant they were handed out for while its session lasts, a code leads there
\* once, and tokens come only from a request that found the grant
\* (main.go:1082-1110, 1299-1374, 1817).
ImplementsGrants == Granted!GSpec

\* Logout is final for tokens as well: when the token requests that were at work
\* have been answered, no code, refresh token or new consent yields a token of
\* the ended session's grants (main.go:1095, 1324, 1479).
RevokedGrantsStayRevoked == Granted!RevokedForGood

\* README.md:174 "PKCE is their only binding to the authorization code": whoever
\* redeems a code presents the verifier of the challenge it was requested with.
CodeBoundToItsChallenge ==
    \A p \in Handlers :
        (handlers[p].pc = "finish" /\ handlers[p].code # 0) =>
            VerifierMatches(sent[handlers[p].code].req.chal, handlers[p].verifier)

\* The tokens issued for a code carry the claims approved for it, or newer ones
\* (main.go:1528-1530).
ConsentedClaimsAreIssued ==
    \A p \in Handlers :
        (handlers[p].pc = "finish" /\ handlers[p].code # 0) =>
            handlers[p].claims.consent >= sent[handlers[p].code].consent

-----------------------------------------------------------------------------
(* The inductive invariant: what the properties above rest on. *)

\* A request that passed resolveAuthorizeClient stays acceptable, because a
\* dynamic registration never changes.
RequestOK(req) ==
    req.client \in DynamicClients =>
        clients[req.client] # None /\ req.uri \in clients[req.client].uris

\* An element of any backing array, current or abandoned, is bound for good, and
\* append never moves to an array that was in use before.
EntryOK(c, a, i) ==
    LET cs == slices[c][a][i]
    IN  cs.csid # 0 =>
            /\ c <= nConsents
            /\ Live(c) => a \cup {i} \subseteq sessions[c].ids
            /\ bindings[cs.csid] = [cookie |-> c, client |-> i, sub |-> cs.adv.sub]
            /\ i \in DynamicClients => clients[i] # None /\ cs.uri \in clients[i].uris

\* A session value, in the map or copied by a handler, points to elements of
\* its own user, and a copy sees no more clients than the session in the map.
SessionOK(sess) ==
    /\ sess.arr \subseteq sess.ids
    /\ sess.cookie <= nConsents
    /\ Live(sess.cookie) => sess.ids \subseteq sessions[sess.cookie].ids
    /\ \A i \in sess.ids :
        LET cs == slices[sess.cookie][sess.arr][i] IN cs.csid # 0 /\ cs.adv.sub = sess.sub

Holds(p, k) ==
    /\ handlers[p].pc \in {"taken", "verify", "read", "claims"} \cup Finishing
    /\ handlers[p].code = k

\* A handler that took code k serves the client and the session of that code.
GrantOK(k, cookie, client) ==
    k # 0 => /\ sent[k] # None
             /\ sent[k].cookie = cookie
             /\ sent[k].req.client = client
             /\ codeMeta[k] = None
             /\ uses[k] = 0

HandlerOK(hp) ==
    /\ hp.pc = "approve" => RequestOK(hp.ctx.req)
    /\ hp.pc = "issue"   => SessionOK(hp.sess) /\ RequestOK(hp.req)
    /\ hp.pc = "taken"   => GrantOK(hp.code, hp.meta.cookie, hp.meta.client)
    /\ hp.pc = "verify"  => SessionOK(hp.sess) /\ GrantOK(hp.code, hp.sess.cookie, hp.client)
    /\ hp.pc = "read"    => /\ SessionOK(hp.sess) /\ GrantOK(hp.code, hp.sess.cookie, hp.client)
                            /\ hp.client \in hp.sess.ids
    /\ hp.pc = "claims"  => /\ SessionOK(hp.sess) /\ GrantOK(hp.code, hp.sess.cookie, hp.client)
                            /\ hp.client \in hp.sess.ids /\ hp.adv.sub = hp.sess.sub
    /\ hp.pc \in Finishing =>
         /\ hp.csid # 0 /\ GrantOK(hp.code, hp.cookie, hp.client)
         /\ bindings[hp.csid] = [cookie |-> hp.cookie, client |-> hp.client, sub |-> hp.adv.sub]
         /\ hp.client \in DynamicClients =>
              /\ clients[hp.client] # None
              /\ hp.pc # "resolve"
              /\ (hp.pc = "granted" /\ clients[hp.client].auth = "secret") => hp.cred = hp.client

RegistryInv  == \A i \in DynamicClients : clients[i] # None => clients[i].method = "dynamic"
FreshInv     == \A n \in Consents : n > nConsents => sessions[n] = None /\ bindings[n] = None
RequestInv   == \A r \in Requests : authContext[r] # None => RequestOK(authContext[r].req)
EntryInv     == \A c \in Consents, a \in SUBSET ClientIDs, i \in ClientIDs : EntryOK(c, a, i)
SessionInv   == \A c \in Consents : Live(c) => sessions[c].cookie = c /\ SessionOK(sessions[c])
CodeInv      == \A k \in Codes :
                    /\ codeMeta[k] # None =>
                         /\ sent[k] # None /\ uses[k] = 0
                         /\ codeMeta[k] = [cookie |-> sent[k].cookie, client |-> sent[k].req.client]
                    /\ sent[k] = None => codeMeta[k] = None /\ uses[k] = 0
                    /\ uses[k] <= 1
                    /\ \A p, q \in Handlers : Holds(p, k) /\ Holds(q, k) => p = q
RedirectInv  == \A k \in HeldCodes :
                    sent[k].req.client \in DynamicClients =>
                        /\ clients[sent[k].req.client] # None
                        /\ sent[k].uri \in clients[sent[k].req.client].uris
HandlerInv   == \A p \in Handlers : HandlerOK(handlers[p])
TokenInv     == \A t \in tokens :
                    /\ t.csid # 0 /\ bindings[t.csid] # None
                    /\ bindings[t.csid].client = t.client
                    /\ bindings[t.csid].sub = t.adv.sub
                    /\ t.client \in DynamicClients =>
                         /\ clients[t.client] # None
                         /\ clients[t.client].auth = "secret" => t.cred = t.client

\* Taken together these are inductive: they hold of every array and of every
\* copy a handler holds, not only of the live sessions, which is what carries
\* the properties through the unlocked stretches of approve and token.
InductiveInv ==
    /\ TypeOK /\ RegistryInv /\ FreshInv /\ RequestInv /\ EntryInv /\ SessionInv
    /\ OneSessionPerSub /\ CodeInv /\ RedirectInv /\ HandlerInv /\ TokenInv
=============================================================================
