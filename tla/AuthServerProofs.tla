--------------------------- MODULE AuthServerProofs ---------------------------
(***************************************************************************)
(* Proofs about AuthServer, for every set of users, clients, URIs and       *)
(* handlers and every value of the bounds.                                  *)
(***************************************************************************)
EXTENDS AuthServer, TLAPS

(***************************************************************************)
(* Type correctness.                                                        *)
(***************************************************************************)

\* A session value that is in the map is a session record.
LEMMA LiveType ==
    ASSUME TypeOK, NEW c \in Consents, Live(c)
    PROVE  sessions[c] \in session
  BY DEF TypeOK, Live

\* getClientSessionByID returns an element of the array, or nil.
LEMMA ClientSessionType ==
    ASSUME TypeOK, NEW sess \in session, NEW client \in ClientIDs
    PROVE  ClientSession(sess, client) \in clientSession
  <1>1. slices[sess.cookie][sess.arr][client] \in clientSession
    BY DEF TypeOK, session
  <1>2. NoClientSession \in clientSession
    BY DEF NoClientSession, NoSub, clientSession, ClaimSet, AdvertisedSubs, ClientIDs, Subs, AnyURI, Challenges
  <1> QED BY <1>1, <1>2 DEF ClientSession

\* Storing an array changes that array only.
LEMMA StoreArrayReads ==
    ASSUME TypeOK, NEW c \in Consents, NEW a \in SUBSET ClientIDs, NEW f
    PROVE  /\ StoreArray(c, a, f)[c][a] = f
           /\ \A d \in Consents, b \in SUBSET ClientIDs :
                (d # c \/ b # a) => StoreArray(c, a, f)[d][b] = slices[d][b]
  <1>1. slices[c] \in [SUBSET ClientIDs -> [ClientIDs -> clientSession]]
    BY DEF TypeOK
  <1> DEFINE g == [slices[c] EXCEPT ![a] = f]
  <1>2. StoreArray(c, a, f) = [slices EXCEPT ![c] = g]
    BY DEF StoreArray
  <1>3. g[a] = f /\ \A b \in SUBSET ClientIDs : b # a => g[b] = slices[c][b]
    BY <1>1
  <1> HIDE DEF g
  <1>4. StoreArray(c, a, f)[c] = g /\ \A d \in Consents : d # c => StoreArray(c, a, f)[d] = slices[d]
    BY <1>2 DEF TypeOK
  <1> QED BY <1>3, <1>4

\* Storing a well-typed array keeps the heap well typed.
LEMMA StoreArrayType ==
    ASSUME TypeOK, NEW c \in Consents, NEW a \in SUBSET ClientIDs, NEW f \in [ClientIDs -> clientSession]
    PROVE  StoreArray(c, a, f) \in [Consents -> [SUBSET ClientIDs -> [ClientIDs -> clientSession]]]
  <1> DEFINE g == [slices[c] EXCEPT ![a] = f]
  <1>1. g \in [SUBSET ClientIDs -> [ClientIDs -> clientSession]]
    BY DEF TypeOK
  <1>2. StoreArray(c, a, f) = [slices EXCEPT ![c] = g]
    BY DEF StoreArray
  <1> HIDE DEF g
  <1> QED BY <1>1, <1>2 DEF TypeOK

\* Every step notes requests in progress only.
LEMMA NotedType ==
    ASSUME NotePublic
    PROVE  seenPublic' \subseteq Handlers
  BY DEF NotePublic

\* The type invariant holds initially.
LEMMA TypeInit == Init => TypeOK
  <1> SUFFICES ASSUME Init PROVE TypeOK OBVIOUS
  <1>1. NoClientSession \in clientSession
    BY DEF NoClientSession, NoSub, clientSession, ClaimSet, AdvertisedSubs, ClientIDs, Subs, AnyURI, Challenges
  <1>2. slices \in [Consents -> [SUBSET ClientIDs -> [ClientIDs -> clientSession]]]
    BY <1>1 DEF Init
  <1>3. handlers \in [Handlers -> HandlerState]
    BY DEF Init, HandlerState
  <1>4. nRequests \in 0 .. MaxRequests /\ nConsents \in 0 .. MaxConsents
    BY ConstantsAssumption DEF Init
  <1> QED BY <1>2, <1>3, <1>4 DEF Init, TypeOK

\* Resolving a client leaves a well-typed registry.
LEMMA ResolvedType ==
    ASSUME TypeOK, NEW req \in ClientRequests, clients' \in ResolvedRegistries(req)
    PROVE  clients' \in [Clients -> clientRegistration \cup {None}]
  <1> USE ConstantsAssumption
  <1>0. req \in [client : ClientIDs, uri : URIs, chal : Challenges] OBVIOUS
  <1>1. CASE req.client \in MetadataClients
    <2>1. PICK doc \in Documents : clients' = [clients EXCEPT ![req.client] = doc]
      BY <1>1 DEF ResolvedRegistries
    <2>2. doc \in clientRegistration
      BY DEF clientRegistration
    <2> QED BY <2>1, <2>2 DEF TypeOK
  <1>2. CASE req.client \notin MetadataClients
    <2>1. clients' = registerClientLocked(req.client, req.uri)
      BY <1>2 DEF ResolvedRegistries
    <2> DEFINE old == IF clients[req.client] = None THEN {} ELSE clients[req.client].uris
               reg == [method |-> "automatic", auth |-> "none", uris |-> {req.uri} \cup old]
    <2>2. CASE req.client = NoClient \/ (clients[req.client] # None /\ clients[req.client].method # "automatic")
      BY <2>1, <2>2 DEF registerClientLocked, TypeOK
    <2>3. CASE ~(req.client = NoClient \/ (clients[req.client] # None /\ clients[req.client].method # "automatic"))
      <3>1. req.client \in Clients
        BY <2>3, <1>0 DEF ClientIDs
      <3>2. old \subseteq URIs
        BY <3>1 DEF TypeOK, clientRegistration
      <3>3. reg \in clientRegistration
        BY <3>2, <1>0 DEF clientRegistration
      <3>4. clients' = [clients EXCEPT ![req.client] = reg]
        BY <2>1, <2>3 DEF registerClientLocked
      <3> QED BY <3>3, <3>4 DEF TypeOK
    <2> QED BY <2>2, <2>3
  <1> QED BY <1>1, <1>2

\* Every step on the way to a code keeps the types.
LEMMA TypeRegistering ==
    ASSUME TypeOK, Registering
    PROVE  TypeOK'
  <1>1. PICK client \in DynamicClients, reg \in Registrations : Register(client, reg)
    BY DEF Registering
  <1>2. reg \in clientRegistration
    BY ConstantsAssumption DEF clientRegistration
  <1> QED BY <1>1, <1>2, NotedType DEF Register, TypeOK, historyVars

LEMMA TypeAuthorizeSSO ==
    ASSUME TypeOK, NEW p \in Handlers, NEW req \in ClientRequests, NEW c \in Consents,
           AuthorizeSSO(p, req, c)
    PROVE  TypeOK'
  <1>0. req \in AuthorizeRequest
    BY ConstantsAssumption DEF AuthorizeRequest, AnyURI
  <1>1. sessions[c] \in session /\ req.client \in ClientIDs
    BY <1>0, LiveType DEF AuthorizeSSO, AuthorizeRequest
  <1>2. clients' \in [Clients -> clientRegistration \cup {None}]
    BY ResolvedType DEF AuthorizeSSO, resolveAuthorizeClient
  <1>3. slices' \in [Consents -> [SUBSET ClientIDs -> [ClientIDs -> clientSession]]]
    <2> DEFINE cs == slices[sessions[c].cookie][sessions[c].arr][req.client]
    <2>0. cs \in clientSession
      BY <1>1 DEF TypeOK, session
    <2>1. [cs EXCEPT !.chal = req.chal, !.uri = req.uri] \in clientSession
      BY <1>0, <2>0 DEF clientSession, AuthorizeRequest
    <2>2. [slices[sessions[c].cookie][sessions[c].arr] EXCEPT
             ![req.client] = [@ EXCEPT !.chal = req.chal, !.uri = req.uri]] \in [ClientIDs -> clientSession]
      BY <2>1, <1>1 DEF TypeOK, session
    <2> QED BY <2>2, <1>1, StoreArrayType DEF AuthorizeSSO, UpdatedSlices, TypeOK, session
  <1>4. handlers' \in [Handlers -> HandlerState]
    <2>1. ClientSession(sessions[c], req.client).claims.consent \in Consents \cup {0}
      BY <1>1, ClientSessionType DEF clientSession, ClaimSet
    <2>2. [pc |-> "issue", sess |-> sessions[c], req |-> req,
           consent |-> ClientSession(sessions[c], req.client).claims.consent] \in IssueState
      BY <1>0, <1>1, <2>1 DEF IssueState
    <2> QED BY <2>2 DEF AuthorizeSSO, TypeOK, HandlerState
  <1> QED BY <1>2, <1>3, <1>4, NotedType DEF AuthorizeSSO, TypeOK, historyVars

LEMMA TypeAuthorizing ==
    ASSUME TypeOK, Authorizing
    PROVE  TypeOK'
  <1>1. PICK req \in ClientRequests :
          \/ AuthorizeRefused(req)
          \/ AuthorizeLoginRequired(req)
          \/ AuthorizeLogin(req)
          \/ \E p \in Handlers, c \in Consents :
                \/ AuthorizeWithCookie(p, req, c)
                \/ \E t \in tokens : AuthorizeByHint(p, req, t, c)
    BY DEF Authorizing
  <1>2. CASE AuthorizeRefused(req)
    BY <1>2, ResolvedType, NotedType DEF AuthorizeRefused, TypeOK, historyVars
  <1>5. CASE AuthorizeLoginRequired(req)
    BY <1>5, ResolvedType, NotedType DEF AuthorizeLoginRequired, resolveAuthorizeClient, TypeOK, historyVars
  <1>3. CASE AuthorizeLogin(req)
    <2>1. clients' \in [Clients -> clientRegistration \cup {None}]
      BY <1>3, ResolvedType DEF AuthorizeLogin, resolveAuthorizeClient
    <2>2. [req |-> req, sub |-> NoUser] \in authContextEntry
      BY ConstantsAssumption DEF authContextEntry, AuthorizeRequest, AnyURI, Subs
    <2>3. nRequests' \in 0 .. MaxRequests
      BY <1>3, ConstantsAssumption DEF AuthorizeLogin, TypeOK
    <2> QED BY <1>3, <2>1, <2>2, <2>3, NotedType DEF AuthorizeLogin, TypeOK, historyVars
  <1>4. CASE \E p \in Handlers, c \in Consents :
               \/ AuthorizeWithCookie(p, req, c)
               \/ \E t \in tokens : AuthorizeByHint(p, req, t, c)
    BY <1>4, TypeAuthorizeSSO DEF AuthorizeWithCookie, AuthorizeByHint
  <1> QED BY <1>1, <1>2, <1>3, <1>4, <1>5

LEMMA TypeLogin ==
    ASSUME TypeOK, NEW r \in Requests, NEW user \in Users, login(r, user)
    PROVE  TypeOK'
  <1> DEFINE zero == [req |-> [client |-> NoClient, uri |-> NoURI, chal |-> NoChallenge], sub |-> NoUser]
             ctx  == IF authContext[r] # None THEN authContext[r] ELSE zero
  <1>1. zero \in authContextEntry
    BY DEF authContextEntry, AuthorizeRequest, ClientIDs, AnyURI, Challenges, Subs
  <1>2. ctx \in authContextEntry
    BY <1>1 DEF TypeOK
  <1>3. [ctx EXCEPT !.sub = user] \in authContextEntry
    BY <1>2 DEF authContextEntry, Subs
  <1>4. authContext' = [authContext EXCEPT ![r] = [ctx EXCEPT !.sub = user]]
    BY DEF login
  <1> QED BY <1>3, <1>4, NotedType DEF login, TypeOK, historyVars

LEMMA TypeApproveRead ==
    ASSUME TypeOK, NEW p \in Handlers, NEW r \in Requests, ApproveRead(p, r)
    PROVE  TypeOK'
  <1>1. [pc |-> "approve", r |-> r, ctx |-> authContext[r]] \in ApproveState
    BY DEF ApproveRead, ApproveState, TypeOK
  <1> QED BY <1>1, NotedType DEF ApproveRead, TypeOK, HandlerState, serverVars, historyVars

\* What the second half of /approve works with.
LEMMA ApproveCommitTypes ==
    ASSUME TypeOK, NEW p \in Handlers, handlers[p].pc = "approve", nConsents < MaxConsents,
           NEW old \in FoundOrNewSession(handlers[p].ctx.sub),
           NEW sub \in {OfferedSub(handlers[p].ctx)} \cup EditedSubs
    PROVE  /\ handlers[p].r \in Requests
           /\ handlers[p].ctx \in authContextEntry
           /\ handlers[p].ctx.sub \in Subs
           /\ handlers[p].ctx.req \in AuthorizeRequest
           /\ handlers[p].ctx.req.client \in ClientIDs
           /\ nConsents + 1 \in Consents
           /\ old \in session
           /\ old.sub = handlers[p].ctx.sub
           /\ UpsertedSession(old, handlers[p].ctx.req.client) \in session
           /\ ConsentedClientSession(old, handlers[p].ctx, sub) \in clientSession
  <1> DEFINE ctx == handlers[p].ctx
             req == ctx.req
             n   == nConsents + 1
  <1>1. handlers[p].r \in Requests /\ ctx \in authContextEntry
    BY DEF TypeOK, HandlerState, Idle, ApproveState, IssueState, TakenState,
           VerifyState, ReadState, ClaimsState, FinishState, Finishing
  <1>2. req \in AuthorizeRequest /\ req.client \in ClientIDs /\ ctx.sub \in Subs
    BY <1>1 DEF authContextEntry, AuthorizeRequest
  <1>3. n \in Consents
    BY ConstantsAssumption DEF TypeOK, Consents
  <1>4. old \in session /\ old.sub = ctx.sub
    <2>1. CASE SessionsOfSub(ctx.sub) # {}
      BY <2>1, LiveType DEF SessionsOfSub, FoundOrNewSession
    <2>2. CASE SessionsOfSub(ctx.sub) = {}
      BY <2>2, <1>2, <1>3 DEF session, FoundOrNewSession
    <2> QED BY <2>1, <2>2
  <1>5. UpsertedSession(old, req.client) \in session
    BY <1>4, <1>2 DEF session, UpsertedSession
  <1>6. ConsentedClientSession(old, ctx, sub) \in clientSession
    <2>1. sectorIdentifier(req.uri, req.client) \in Hosts \cup ClientIDs
      BY <1>2 DEF sectorIdentifier, Hosts
    <2>2. OfferedSub(ctx) \in AdvertisedSubs
      BY <2>1, <1>2 DEF OfferedSub, computeAdvertisedSub, AdvertisedSubs, ClientIDs
    <2>4. sub \in AdvertisedSubs \cup {None}
      BY <2>2, ConstantsAssumption
    <2>3. ClientSession(old, req.client).csid \in Consents \cup {0}
      BY <1>4, <1>2, ClientSessionType DEF clientSession
    <2> QED BY <2>2, <2>3, <2>4, <1>2, <1>3 DEF clientSession, ClaimSet, AuthorizeRequest, ConsentedClientSession, NewSessionID
  <1> QED BY <1>1, <1>2, <1>3, <1>4, <1>5, <1>6

LEMMA TypeApproveCommit ==
    ASSUME TypeOK, NEW p \in Handlers, ApproveCommit(p)
    PROVE  TypeOK'
  <1> DEFINE ctx == handlers[p].ctx
             req == ctx.req
  <1>1. PICK old \in FoundOrNewSession(ctx.sub), sub \in {OfferedSub(ctx)} \cup EditedSubs :
          CommitConsent(p, ctx, old, sub)
    BY DEF ApproveCommit
  <1> DEFINE sess == UpsertedSession(old, req.client)
             cs   == ConsentedClientSession(old, ctx, sub)
  <1>2. /\ handlers[p].r \in Requests /\ ctx.sub \in Subs
        /\ req \in AuthorizeRequest /\ req.client \in ClientIDs
        /\ nConsents + 1 \in Consents
        /\ old \in session /\ sess \in session /\ cs \in clientSession
    BY <1>1, ApproveCommitTypes DEF ApproveCommit, CommitConsent
  <1>3. old.cookie \in Consents /\ old.arr \in SUBSET ClientIDs /\ sess.arr \in SUBSET ClientIDs
    BY <1>2 DEF session
  <1> HIDE DEF sess, cs
  <1>4. sessions' \in [Consents -> session \cup {None}]
    BY <1>1, <1>2, <1>3 DEF TypeOK, CommitConsent, sess
  <1>5. slices' \in [Consents -> [SUBSET ClientIDs -> [ClientIDs -> clientSession]]]
    <2>1. [slices[old.cookie][old.arr] EXCEPT ![req.client] = cs] \in [ClientIDs -> clientSession]
      BY <1>2, <1>3 DEF TypeOK
    <2>2. slices' = StoreArray(old.cookie, sess.arr, [slices[old.cookie][old.arr] EXCEPT ![req.client] = cs])
      BY <1>1 DEF CommitConsent, sess, cs
    <2>3. StoreArray(old.cookie, sess.arr, [slices[old.cookie][old.arr] EXCEPT ![req.client] = cs])
            \in [Consents -> [SUBSET ClientIDs -> [ClientIDs -> clientSession]]]
      BY <2>1, <1>3, StoreArrayType, Zenon
    <2> QED BY <2>2, <2>3
  <1>6. bindings' \in [Consents -> Binding \cup {None}]
    <2>1. [cookie |-> old.cookie, client |-> req.client, sub |-> ctx.sub] \in Binding
      BY <1>2, <1>3 DEF Binding
    <2> QED BY <1>1, <2>1 DEF TypeOK, CommitConsent
  <1>7. handlers' \in [Handlers -> HandlerState]
    <2>1. [pc |-> "issue", sess |-> sess, req |-> req, consent |-> nConsents + 1] \in IssueState
      BY <1>2 DEF IssueState
    <2> QED BY <1>1, <2>1 DEF TypeOK, CommitConsent, HandlerState, sess
  <1>8. nConsents' \in 0 .. MaxConsents
    BY <1>1, <1>2 DEF CommitConsent, Consents, TypeOK
  <1>9. authContext' \in [Requests -> authContextEntry \cup {None}]
    BY <1>1, <1>2 DEF CommitConsent, TypeOK
  <1> QED BY <1>1, <1>4, <1>5, <1>6, <1>7, <1>8, <1>9, NotedType DEF CommitConsent, TypeOK

\* Which fields a handler carries follows from where it is.
LEMMA HandlerTypes ==
    ASSUME TypeOK, NEW p \in Handlers
    PROVE  /\ handlers[p].pc = "approve" => handlers[p] \in ApproveState
           /\ handlers[p].pc = "issue"   => handlers[p] \in IssueState
           /\ handlers[p].pc = "taken"   => handlers[p] \in TakenState
           /\ handlers[p].pc = "verify"  => handlers[p] \in VerifyState
           /\ handlers[p].pc = "read"    => handlers[p] \in ReadState
           /\ handlers[p].pc = "claims"  => handlers[p] \in ClaimsState
           /\ handlers[p].pc \in Finishing => handlers[p] \in FinishState
  BY DEF TypeOK, HandlerState, Idle, ApproveState, IssueState, TakenState,
         VerifyState, ReadState, ClaimsState, FinishState, Finishing

LEMMA TypeIssueCode ==
    ASSUME TypeOK, NEW p \in Handlers, NEW k \in Codes, issueCodeAndRedirect(p, k)
    PROVE  TypeOK' /\ sent'[k] \in Redirect
  <1> DEFINE hp == handlers[p]
  <1>1. hp \in IssueState
    BY HandlerTypes DEF issueCodeAndRedirect
  <1>2. /\ hp.sess \in session /\ hp.sess.cookie \in Consents
        /\ hp.req \in AuthorizeRequest /\ hp.req.client \in ClientIDs
        /\ hp.consent \in Consents \cup {0}
    BY <1>1 DEF IssueState, session, AuthorizeRequest
  <1>3. ClientSession(hp.sess, hp.req.client).uri \in AnyURI
    BY <1>2, ClientSessionType DEF clientSession
  <1>4. [cookie |-> hp.sess.cookie, client |-> hp.req.client] \in codeMetadataEntry
    BY <1>2 DEF codeMetadataEntry
  <1>5. [req |-> hp.req, cookie |-> hp.sess.cookie, followed |-> hp.req.client \in hp.sess.ids,
         uri |-> ClientSession(hp.sess, hp.req.client).uri, consent |-> hp.consent] \in Redirect
    BY <1>2, <1>3 DEF Redirect
  <1>6. TypeOK'
    BY <1>4, <1>5, NotedType DEF issueCodeAndRedirect, TypeOK, HandlerState
  <1>7. sent'[k] \in Redirect
    BY <1>5 DEF issueCodeAndRedirect, TypeOK
  <1> QED BY <1>6, <1>7

\* Every step of a token request keeps the types.
LEMMA TypeTokenSteps ==
    ASSUME TypeOK, NEW p \in Handlers,
           \/ \E k \in HeldCodes : TakeCode(p, k)
           \/ SnapshotSession(p)
           \/ \E verifier \in Challenges : VerifyPKCE(p, verifier)
           \/ \E t \in tokens : RefreshGrant(p, t)
           \/ ReadAdvertisedSub(p)
           \/ ReadClaims(p)
    PROVE  TypeOK'
  <1> DEFINE hp == handlers[p]
  <1>1. CASE \E k \in HeldCodes : TakeCode(p, k)
    <2>1. PICK k \in Codes : TakeCode(p, k)
      BY <1>1 DEF HeldCodes
    <2>2. [pc |-> "taken", code |-> k, meta |-> codeMeta[k]] \in TakenState
      BY <2>1 DEF TakeCode, TakenState, TypeOK
    <2> QED BY <2>1, <2>2, NotedType DEF TakeCode, CodesAfterTake, TypeOK, HandlerState, historyVars
  <1>2. CASE SnapshotSession(p)
    <2>1. hp \in TakenState
      BY <1>2, HandlerTypes DEF SnapshotSession
    <2>2. CASE Live(hp.meta.cookie)
      <3>1. sessions[hp.meta.cookie] \in session
        BY <2>2, LiveType DEF Live
      <3>2. [pc |-> "verify", code |-> hp.code, sess |-> sessions[hp.meta.cookie],
             client |-> hp.meta.client] \in VerifyState
        BY <2>1, <3>1 DEF TakenState, VerifyState, codeMetadataEntry
      <3> QED BY <1>2, <2>2, <3>2, NotedType DEF SnapshotSession, TypeOK, HandlerState, serverVars, historyVars
    <2>3. CASE ~Live(hp.meta.cookie)
      BY <1>2, <2>3, NotedType DEF SnapshotSession, TypeOK, HandlerState, serverVars, historyVars
    <2> QED BY <2>2, <2>3
  <1>3. CASE \E verifier \in Challenges : VerifyPKCE(p, verifier)
    <2>1. PICK verifier \in Challenges : VerifyPKCE(p, verifier)
      BY <1>3
    <2>2. hp \in VerifyState
      BY <2>1, HandlerTypes DEF VerifyPKCE
    <2>3. [pc |-> "read", code |-> hp.code, sess |-> hp.sess, client |-> hp.client,
           verifier |-> verifier] \in ReadState
      BY <2>2 DEF VerifyState, ReadState
    <2> QED BY <2>1, <2>3, NotedType DEF VerifyPKCE, TypeOK, HandlerState, serverVars, historyVars
  <1>4. CASE \E t \in tokens : RefreshGrant(p, t)
    <2>1. PICK t \in tokens : RefreshGrant(p, t)
      BY <1>4
    <2>2. PICK x \in SessionsWithCsid(t.csid) :
            handlers' = [handlers EXCEPT ![p] =
              [pc |-> "read", code |-> 0, sess |-> sessions[x[1]], client |-> x[2],
               verifier |-> NoChallenge]]
      BY <2>1 DEF RefreshGrant
    <2>3. sessions[x[1]] \in session /\ x[2] \in ClientIDs
      BY LiveType DEF SessionsWithCsid
    <2>4. [pc |-> "read", code |-> 0, sess |-> sessions[x[1]], client |-> x[2],
           verifier |-> NoChallenge] \in ReadState
      BY <2>3 DEF ReadState, Challenges
    <2> QED BY <2>1, <2>2, <2>4, NotedType DEF RefreshGrant, TypeOK, HandlerState, serverVars, historyVars
  <1>5. CASE ReadAdvertisedSub(p)
    <2>1. hp \in ReadState
      BY <1>5, HandlerTypes DEF ReadAdvertisedSub
    <2>2. ClientSession(hp.sess, hp.client) \in clientSession
      BY <2>1, ClientSessionType DEF ReadState
    <2>3. [pc |-> "claims", code |-> hp.code, sess |-> hp.sess, client |-> hp.client,
           verifier |-> hp.verifier, adv |-> ClientSession(hp.sess, hp.client).adv] \in ClaimsState
      BY <2>1, <2>2 DEF ReadState, ClaimsState, clientSession
    <2> QED BY <1>5, <2>3, NotedType DEF ReadAdvertisedSub, TypeOK, HandlerState, serverVars, historyVars
  <1>6. CASE ReadClaims(p)
    <2>1. hp \in ClaimsState
      BY <1>6, HandlerTypes DEF ReadClaims
    <2>2. ClientSession(hp.sess, hp.client) \in clientSession
      BY <2>1, ClientSessionType DEF ClaimsState
    <2>3. [pc |-> "finish", code |-> hp.code, cookie |-> hp.sess.cookie, client |-> hp.client,
           verifier |-> hp.verifier, csid |-> ReadCsid(hp.sess, hp.client), adv |-> hp.adv,
           claims |-> ClientSession(hp.sess, hp.client).claims,
           reg |-> None, cred |-> NoClient] \in FinishState
      BY <2>1, <2>2 DEF ClaimsState, FinishState, Finishing, session, clientSession, ReadCsid, ClientIDs
    <2> QED BY <1>6, <2>3, NotedType DEF ReadClaims, TypeOK, HandlerState, serverVars, historyVars
  <1> QED BY <1>1, <1>2, <1>3, <1>4, <1>5, <1>6

\* Resolving the client again leaves a well-typed registry, the old one or one
\* with a new document.
LEMMA ResolveRegistry ==
    ASSUME TypeOK, NEW hp \in FinishState, NEW cred \in ClientIDs,
           NEW out \in ResolveOutcomes(hp, cred)
    PROVE  /\ out.registry \in [Clients -> clientRegistration \cup {None}]
           /\ \/ out.registry = clients
              \/ \E doc \in Documents : out.registry = [clients EXCEPT ![hp.client] = doc]
  <1>1. Documents \subseteq clientRegistration
    BY ConstantsAssumption DEF clientRegistration
  <1>2. \/ out.registry = clients
        \/ \E doc \in Documents : out.registry = [clients EXCEPT ![hp.client] = doc]
    BY DEF ResolveOutcomes
  <1> QED BY <1>1, <1>2 DEF TypeOK

\* A verdict leaves a handler that is granted its tokens, or none.
LEMMA VerdictType ==
    ASSUME NEW hp \in FinishState, NEW cred \in ClientIDs, NEW ok
    PROVE  /\ Verdict(hp, ok, cred) \in HandlerState
           /\ Verdict(hp, ok, cred) # Idle =>
                /\ ok /\ Verdict(hp, ok, cred) = [hp EXCEPT !.pc = "granted", !.reg = None, !.cred = cred]
  <1>1. [hp EXCEPT !.pc = "granted", !.reg = None, !.cred = cred] \in FinishState
    BY DEF FinishState, Finishing
  <1> QED BY <1>1 DEF Verdict, HandlerState

\* The sub of an ID token is a subject.
LEMMA IssuedSubType ==
    ASSUME NEW hp \in FinishState
    PROVE  IssuedSub(hp) \in AdvertisedSubs
  BY DEF IssuedSub, FinishState, ClaimSet

\* What the write-back at the end of token does to an array element: nothing,
\* or AdvertisedSub and claims of the element with the csid just issued.
LEMMA WrittenBackEntries ==
    ASSUME TypeOK, NEW hp \in FinishState
    PROVE  /\ WrittenBack(hp) \in [Consents -> [SUBSET ClientIDs -> [ClientIDs -> clientSession]]]
           /\ \A c \in Consents, a \in SUBSET ClientIDs, i \in ClientIDs :
                LET before == slices[c][a][i]
                    after  == WrittenBack(hp)[c][a][i]
                IN  \/ after = before
                    \/ /\ c = hp.cookie /\ before.csid = hp.csid /\ after.csid = before.csid
                       /\ after.uri = before.uri /\ after.adv = hp.adv
  <1>1. CASE ~Live(hp.cookie)
    BY <1>1 DEF WrittenBack, TypeOK
  <1>2. CASE Live(hp.cookie)
    <2> DEFINE claims == [hp.claims EXCEPT !.sub = IssuedSub(hp)]
               sess == sessions[hp.cookie]
               arr  == slices[hp.cookie][sess.arr]
               new  == [i \in ClientIDs |->
                          IF i \in sess.ids /\ arr[i].csid = hp.csid
                          THEN [arr[i] EXCEPT !.adv = hp.adv, !.claims = claims]
                          ELSE arr[i]]
    <2>1. hp.cookie \in Consents /\ sess.arr \in SUBSET ClientIDs
      BY <1>2, LiveType DEF session, FinishState
    <2>a. \A a \in SUBSET ClientIDs : slices[hp.cookie][a] \in [ClientIDs -> clientSession]
      BY <2>1 DEF TypeOK
    <2>2. arr \in [ClientIDs -> clientSession]
      BY <2>1, <2>a
    <2>b. claims \in ClaimSet
      BY IssuedSubType DEF FinishState, ClaimSet
    <2>3. \A i \in ClientIDs : [arr[i] EXCEPT !.adv = hp.adv, !.claims = claims] \in clientSession
      <3> HIDE DEF claims
      <3> QED BY <2>2, <2>b DEF clientSession, FinishState
    <2>4. new \in [ClientIDs -> clientSession]
      BY <2>2, <2>3
    <2>5. \A i \in ClientIDs :
            \/ new[i] = arr[i]
            \/ /\ arr[i].csid = hp.csid /\ new[i].csid = arr[i].csid
               /\ new[i].uri = arr[i].uri /\ new[i].adv = hp.adv
      BY <2>2 DEF clientSession
    <2>6. WrittenBack(hp) = StoreArray(hp.cookie, sess.arr, new)
      BY <1>2 DEF WrittenBack
    <2> HIDE DEF new, sess
    <2>7. StoreArray(hp.cookie, sess.arr, new) \in [Consents -> [SUBSET ClientIDs -> [ClientIDs -> clientSession]]]
      BY <2>1, <2>4, StoreArrayType, Zenon
    <2>8. StoreArray(hp.cookie, sess.arr, new)[hp.cookie][sess.arr] = new
      BY <2>1, StoreArrayReads
    <2>9. ASSUME NEW c \in Consents, NEW a \in SUBSET ClientIDs, c # hp.cookie \/ a # sess.arr
          PROVE  StoreArray(hp.cookie, sess.arr, new)[c][a] = slices[c][a]
      BY <2>1, <2>9, StoreArrayReads
    <2>10. ASSUME NEW c \in Consents, NEW a \in SUBSET ClientIDs, NEW i \in ClientIDs
           PROVE  LET before == slices[c][a][i]
                      after  == WrittenBack(hp)[c][a][i]
                  IN  \/ after = before
                      \/ /\ c = hp.cookie /\ before.csid = hp.csid /\ after.csid = before.csid
                         /\ after.uri = before.uri /\ after.adv = hp.adv
      <3>1. CASE c = hp.cookie /\ a = sess.arr
        BY <3>1, <2>5, <2>6, <2>8
      <3>2. CASE c # hp.cookie \/ a # sess.arr
        BY <3>2, <2>6, <2>9
      <3> QED BY <3>1, <3>2
    <2> QED BY <2>6, <2>7, <2>10
  <1> QED BY <1>1, <1>2

\* Authenticating a client and issuing its tokens keep the types.
LEMMA TypeAuthenticate ==
    ASSUME TypeOK, NEW p \in Handlers,
           \/ \E cred \in ClientIDs : AuthenticateRegistered(p, cred) \/ ResolveMetadata(p, cred)
           \/ ReadMetadataRegistration(p)
    PROVE  TypeOK'
  <1> DEFINE hp == handlers[p]
  <1>1. hp \in FinishState
    BY HandlerTypes DEF AuthenticateRegistered, ReadMetadataRegistration, ResolveMetadata, Finishing
  <1>2. CASE \E cred \in ClientIDs : AuthenticateRegistered(p, cred)
    <2>1. PICK cred \in ClientIDs : AuthenticateRegistered(p, cred)
      BY <1>2
    <2>2. PICK ok : handlers' = [handlers EXCEPT ![p] = Verdict(hp, ok, cred)]
      BY <2>1, Zenon DEF AuthenticateRegistered
    <2>3. Verdict(hp, ok, cred) \in HandlerState
      BY <1>1, VerdictType
    <2>4. handlers' \in [Handlers -> HandlerState]
      BY <2>2, <2>3 DEF TypeOK
    <2> QED BY <2>1, <2>4, NotedType DEF AuthenticateRegistered, TypeOK, serverVars, historyVars
  <1>3. CASE ReadMetadataRegistration(p)
    <2>1. Registration(hp.client) \in clientRegistration
      BY <1>1, <1>3 DEF ReadMetadataRegistration, Registration, FinishState, ClientIDs, TypeOK
    <2>2. [hp EXCEPT !.pc = "resolve", !.reg = Registration(hp.client)] \in FinishState
      BY <1>1, <2>1 DEF FinishState, Finishing
    <2> QED BY <1>3, <2>2, NotedType DEF ReadMetadataRegistration, TypeOK, HandlerState, serverVars, historyVars
  <1>4. CASE \E cred \in ClientIDs : ResolveMetadata(p, cred)
    <2>1. PICK cred \in ClientIDs : ResolveMetadata(p, cred)
      BY <1>4
    <2>2. PICK out \in ResolveOutcomes(hp, cred) :
            /\ clients' = out.registry
            /\ handlers' = [handlers EXCEPT ![p] = Verdict(hp, out.ok, cred)]
      BY <2>1 DEF ResolveMetadata
    <2>3. clients' \in [Clients -> clientRegistration \cup {None}]
      BY <1>1, <2>2, ResolveRegistry
    <2>4. handlers' \in [Handlers -> HandlerState]
      BY <1>1, <2>2, VerdictType DEF TypeOK
    <2> QED BY <2>1, <2>3, <2>4, NotedType DEF ResolveMetadata, TypeOK, historyVars
  <1> QED BY <1>2, <1>3, <1>4

LEMMA TypeIssueTokens ==
    ASSUME TypeOK, NEW p \in Handlers, IssueTokens(p)
    PROVE  TypeOK'
  <1> DEFINE hp == handlers[p]
  <1>1. hp \in FinishState
    BY HandlerTypes DEF IssueTokens, Finishing
  <1>2. hp.code \in Codes \cup {0}
    BY <1>1 DEF FinishState
  <1>3. slices' \in [Consents -> [SUBSET ClientIDs -> [ClientIDs -> clientSession]]]
    BY <1>1, WrittenBackEntries DEF IssueTokens
  <1>4. tokens' \subseteq Token
    <2>1. IssuedTokens(hp) \in Token
      BY <1>1, IssuedSubType DEF IssuedTokens, FinishState, Token
    <2> QED BY <2>1 DEF IssueTokens, TypeOK
  <1>5. uses' \in [Codes -> Nat]
    BY <1>2 DEF IssueTokens, TypeOK
  <1> QED BY <1>3, <1>4, <1>5, NotedType DEF IssueTokens, TypeOK, HandlerState

\* Every step keeps the types.
LEMMA TypeNext == TypeOK /\ [Next]_vars => TypeOK'
  <1> SUFFICES ASSUME TypeOK, [Next]_vars PROVE TypeOK' OBVIOUS
  <1>1. CASE Registering
    BY <1>1, TypeRegistering
  <1>2. CASE Authorizing
    BY <1>2, TypeAuthorizing
  <1>3. CASE \E r \in Requests, user \in Users : login(r, user)
    BY <1>3, TypeLogin
  <1>4. CASE Approving
    BY <1>4, TypeApproveRead, TypeApproveCommit, TypeIssueCode DEF Approving
  <1>5. CASE Exchanging
    BY <1>5, TypeTokenSteps, TypeAuthenticate, TypeIssueTokens DEF Exchanging
  <1>6. CASE \E c \in Consents : EndSession(c)
    BY <1>6, NotedType DEF EndSession, TypeOK, historyVars
  <1>7. CASE UNCHANGED vars
    BY <1>7 DEF vars, serverVars, historyVars, TypeOK
  <1> QED BY <1>1, <1>2, <1>3, <1>4, <1>5, <1>6, <1>7 DEF Next

\* The maps, slices, requests in progress and histories of the server always
\* have the types the code declares (main.go:36-73, 135-173).
THEOREM TypeCorrect == Spec => []TypeOK
  BY TypeInit, TypeNext, PTL DEF Spec
=============================================================================
