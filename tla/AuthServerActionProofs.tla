------------------------ MODULE AuthServerActionProofs ------------------------
(***************************************************************************)
(* The action properties of AuthServer: a SessionID whose session ended     *)
(* never comes back, no client with keys is granted tokens without them, and *)
(* AuthServer implements Grants.                                            *)
(*                                                                          *)
(* The first follows from InductiveInv: whatever client session can be      *)
(* reached after a step had its SessionID before it, or has one nobody had. *)
(* The second needs to know more about metadata clients (MetadataInv).  The *)
(* third follows what each step does to the grants that can be found, the   *)
(* codes that can be exchanged and the grant each token request works for.  *)
(***************************************************************************)
EXTENDS AuthServerSafetyProofs

-----------------------------------------------------------------------------
(* Ended sessions stay ended. *)

\* The SessionID element i of live session c is found under.
CsidOf(c, i) == slices[c][sessions[c].arr][i].csid

\* What getSessionByClientSessionIDLocked can find after a step it could find
\* before the step, unless the SessionID is new.
CsidsKept ==
    \A c \in Consents, i \in ClientIDs :
        (Live(c)' /\ i \in sessions'[c].ids) =>
            \/ Live(c) /\ i \in sessions[c].ids /\ CsidOf(c, i)' = CsidOf(c, i)
            \/ bindings[CsidOf(c, i)'] = None

LEMMA CsidsKeptSuffices ==
    ASSUME InductiveInv, InductiveInv', CsidsKept, NEW n \in Consents,
           bindings[n] # None, SessionsWithCsid(n) = {}
    PROVE  SessionsWithCsid(n)' = {}
  <1> SUFFICES ASSUME NEW c \in Consents, NEW i \in ClientIDs, Live(c)', i \in sessions'[c].ids,
                      ClientSession(sessions[c], i)'.csid = n
               PROVE  FALSE
    BY DEF SessionsWithCsid
  <1>1. sessions'[c].cookie = c
    BY DEF InductiveInv, SessionInv
  <1>2. CsidOf(c, i)' = n
    BY <1>1 DEF ClientSession, CsidOf
  <1>3. Live(c) /\ i \in sessions[c].ids /\ CsidOf(c, i) = n
    BY <1>2 DEF CsidsKept
  <1>4. sessions[c].cookie = c
    BY <1>3 DEF InductiveInv, SessionInv
  <1>5. ClientSession(sessions[c], i).csid = n
    BY <1>3, <1>4 DEF ClientSession, CsidOf
  <1>6. n # 0
    BY DEF Consents
  <1>7. <<c, i>> \in SessionsWithCsid(n)
    BY <1>3, <1>5, <1>6 DEF SessionsWithCsid
  <1> QED BY <1>7

\* A step that keeps the SessionID of every array element, and no session but
\* those there were, finds nothing new.
LEMMA CsidsKeptInPlace ==
    ASSUME TypeOK,
           \A c \in Consents : sessions'[c] \in {sessions[c], None},
           \A c \in Consents, a \in SUBSET ClientIDs, i \in ClientIDs :
               slices'[c][a][i].csid = slices[c][a][i].csid
    PROVE  CsidsKept
  <1> SUFFICES ASSUME NEW c \in Consents, NEW i \in ClientIDs, Live(c)', i \in sessions'[c].ids
               PROVE  Live(c) /\ i \in sessions[c].ids /\ CsidOf(c, i)' = CsidOf(c, i)
    BY DEF CsidsKept
  <1>1. Live(c) /\ sessions'[c] = sessions[c]
    BY DEF Live
  <1>2. sessions[c].arr \in SUBSET ClientIDs
    BY <1>1, LiveType DEF session
  <1>3. slices'[c][sessions[c].arr][i].csid = slices[c][sessions[c].arr][i].csid
    BY <1>2
  <1> QED BY <1>1, <1>3 DEF CsidOf

LEMMA CsidsKeptUnchanged ==
    ASSUME TypeOK, UNCHANGED <<sessions, slices>>
    PROVE  CsidsKept
  BY CsidsKeptInPlace

LEMMA CsidsAuthorizeSSO ==
    ASSUME TypeOK, NEW p \in Handlers, NEW req \in ClientRequests, NEW c \in Consents,
           AuthorizeSSO(p, req, c)
    PROVE  CsidsKept
  <1>1. sessions[c] \in session /\ slices' = UpdatedSlices(sessions[c], req) /\ sessions' = sessions
    BY LiveType DEF AuthorizeSSO
  <1>2. ASSUME NEW d \in Consents, NEW a \in SUBSET ClientIDs, NEW i \in ClientIDs
        PROVE  slices'[d][a][i].csid = slices[d][a][i].csid
    <2>1. LET before == slices[d][a][i]
              after  == slices'[d][a][i]
          IN  \/ after = before
              \/ /\ i = req.client
                 /\ after.csid = before.csid /\ after.adv = before.adv /\ after.uri = req.uri
                 /\ after.claims = before.claims
      BY <1>1, UpdatedSlicesReads
    <2> QED BY <2>1
  <1> QED BY <1>1, <1>2, CsidsKeptInPlace

LEMMA CsidsIssueTokens ==
    ASSUME TypeOK, NEW p \in Handlers, IssueTokens(p)
    PROVE  CsidsKept
  <1> DEFINE hp == handlers[p]
  <1>1. hp \in FinishState
    BY HandlerTypes DEF IssueTokens, Finishing
  <1>2. sessions' = sessions /\ slices' = WrittenBack(hp)
    BY DEF IssueTokens
  <1>3. ASSUME NEW c \in Consents, NEW a \in SUBSET ClientIDs, NEW i \in ClientIDs
        PROVE  slices'[c][a][i].csid = slices[c][a][i].csid
    <2>1. LET after == WrittenBack(hp)[c][a][i]
          IN  after = slices[c][a][i] \/ after.csid = slices[c][a][i].csid
      BY <1>1, WrittenBackEntries, Zenon
    <2> QED BY <1>2, <2>1
  <1> QED BY <1>2, <1>3, CsidsKeptInPlace

\* Array elements that are set keep their SessionID.
CsidsInPlace ==
    \A c \in Consents, a \in SUBSET ClientIDs, i \in ClientIDs :
        slices[c][a][i].csid # 0 => slices'[c][a][i].csid = slices[c][a][i].csid

\* What the commit of an approval does to sessions and SessionIDs.
Committed(client, old) ==
    /\ sessions'[old.cookie] # None /\ sessions'[old.cookie].ids = old.ids \cup {client}
    /\ \A d \in Consents : d # old.cookie => sessions'[d] = sessions[d]
    /\ \A d \in Consents, a \in SUBSET ClientIDs : d # old.cookie => slices'[d][a] = slices[d][a]
    /\ \A i \in ClientIDs : CsidOf(old.cookie, i)' = IF i = client /\ client \notin old.ids THEN nConsents + 1
                                                     ELSE slices[old.cookie][old.arr][i].csid
    /\ nConsents + 1 \in Consents /\ bindings[nConsents + 1] = None

\* An approval keeps the SessionID of the client session it overwrites, copies
\* the others, and gives an appended one a SessionID that is bound to nobody.
LEMMA CommitReads ==
    ASSUME InductiveInv, NEW p \in Handlers, handlers[p].pc = "approve",
           NEW ctx, ctx = handlers[p].ctx, NEW old \in FoundOrNewSession(ctx.sub),
           NEW sub \in {OfferedSub(ctx)} \cup EditedSubs,
           NEW sess, sess = UpsertedSession(old, ctx.req.client),
           NEW cs, cs = ConsentedClientSession(old, ctx, sub), CommitConsent(p, ctx, old, sub)
    PROVE  /\ ctx.req.client \in ClientIDs /\ ctx.sub \in Subs /\ FoundOK(ctx.sub, old)
           /\ Committed(ctx.req.client, old) /\ CsidsInPlace
  <1> DEFINE client == ctx.req.client
             f      == [slices[old.cookie][old.arr] EXCEPT ![client] = cs]
  <1>1. TypeOK /\ nConsents \in Nat /\ nConsents < MaxConsents /\ nConsents + 1 \in Consents
    <2>1. TypeOK
      BY DEF InductiveInv
    <2>2. nConsents \in Nat
      BY <2>1, ConstantsAssumption DEF TypeOK
    <2>3. nConsents < MaxConsents
      BY DEF CommitConsent
    <2> QED BY <2>1, <2>2, <2>3, ApproveCommitTypes
  <1>2. /\ ctx \in authContextEntry /\ ctx.sub \in Subs /\ client \in ClientIDs
        /\ old \in session /\ sess \in session /\ cs \in clientSession
    BY <1>1, ApproveCommitTypes
  <1>3. FoundOK(ctx.sub, old)
    BY <1>1, <1>2, FoundSession
  <1>4. /\ sess.cookie = old.cookie /\ sess.ids = old.ids \cup {client}
        /\ client \in old.ids => cs.csid = slices[old.cookie][old.arr][client].csid
        /\ client \notin old.ids => cs.csid = nConsents + 1 /\ sess.arr \in {old.arr, sess.ids}
        /\ client \in old.ids => sess.arr = old.arr
    BY <1>1, <1>2, Upserted
  <1>5. /\ old.cookie \in Consents /\ old.arr \in SUBSET ClientIDs /\ old.ids \in SUBSET ClientIDs
        /\ sess.arr \in SUBSET ClientIDs
    BY <1>2 DEF session
  <1>6. sessions'[old.cookie] = sess /\ \A d \in Consents : d # old.cookie => sessions'[d] = sessions[d]
    BY <1>1, <1>5 DEF CommitConsent, TypeOK
  <1>7. slices[old.cookie][old.arr] \in [ClientIDs -> clientSession]
    <2>1. \A c \in Consents : slices[c] \in [SUBSET ClientIDs -> [ClientIDs -> clientSession]]
      BY <1>1 DEF TypeOK
    <2>2. \A c \in Consents, a \in SUBSET ClientIDs : slices[c][a] \in [ClientIDs -> clientSession]
      BY <2>1
    <2> QED BY <1>5, <2>2, Zenon
  <1>8. f[client] = cs /\ \A i \in ClientIDs : i # client => f[i] = slices[old.cookie][old.arr][i]
    BY <1>2, <1>7
  <1>9. slices' = StoreArray(old.cookie, sess.arr, f)
    BY DEF CommitConsent
  <1> HIDE DEF f
  <1>10. /\ slices'[old.cookie][sess.arr] = f
         /\ \A d \in Consents, b \in SUBSET ClientIDs :
               (d # old.cookie \/ b # sess.arr) => slices'[d][b] = slices[d][b]
    BY <1>1, <1>5, <1>9, StoreArrayReads
  <1>11. bindings[nConsents + 1] = None
    BY <1>1 DEF InductiveInv, FreshInv
  <1> HIDE DEF client
  <1>12. \A i \in ClientIDs : f[i].csid = IF i = client /\ client \notin old.ids THEN nConsents + 1
                                          ELSE slices[old.cookie][old.arr][i].csid
    BY <1>2, <1>4, <1>8
  <1>13. sess # None
    BY <1>2, NoneAssumption
  <1>14. Committed(client, old)
    <2>1. \A i \in ClientIDs : CsidOf(old.cookie, i)' = f[i].csid
      BY <1>6, <1>10 DEF CsidOf
    <2> QED BY <1>1, <1>4, <1>6, <1>10, <1>11, <1>12, <1>13, <2>1 DEF Committed
  <1>15. CsidsInPlace
    <2> SUFFICES ASSUME NEW c \in Consents, NEW a \in SUBSET ClientIDs, NEW i \in ClientIDs,
                        slices[c][a][i].csid # 0
                 PROVE  slices'[c][a][i].csid = slices[c][a][i].csid
      BY DEF CsidsInPlace
    <2>1. CASE c # old.cookie \/ a # sess.arr
      BY <1>10, <2>1
    <2>2. CASE c = old.cookie /\ a = sess.arr
      <3>1. a \cup {i} \subseteq old.ids
        BY <1>3, <2>2 DEF FoundOK
      <3>2. a = old.arr
        BY <1>4, <2>2, <3>1
      <3> QED BY <1>10, <1>12, <2>2, <3>1, <3>2
    <2> QED BY <2>1, <2>2
  <1> QED BY <1>2, <1>3, <1>14, <1>15 DEF client

\* The same, for the step of the handler.
LEMMA ApproveCommitReads ==
    ASSUME InductiveInv, NEW p \in Handlers, ApproveCommit(p)
    PROVE  \E old \in FoundOrNewSession(handlers[p].ctx.sub),
              sub \in {OfferedSub(handlers[p].ctx)} \cup EditedSubs :
              /\ CommitConsent(p, handlers[p].ctx, old, sub)
              /\ handlers[p].ctx.req.client \in ClientIDs /\ handlers[p].ctx.sub \in Subs
              /\ FoundOK(handlers[p].ctx.sub, old)
              /\ Committed(handlers[p].ctx.req.client, old) /\ CsidsInPlace
  <1>1. PICK ctx : ctx = handlers[p].ctx
    OBVIOUS
  <1>2. PICK old \in FoundOrNewSession(ctx.sub), sub \in {OfferedSub(ctx)} \cup EditedSubs :
          CommitConsent(p, ctx, old, sub)
    BY <1>1 DEF ApproveCommit
  <1>3. PICK sess : sess = UpsertedSession(old, ctx.req.client)
    OBVIOUS
  <1>4. PICK cs : cs = ConsentedClientSession(old, ctx, sub)
    OBVIOUS
  <1>5. handlers[p].pc = "approve"
    BY DEF ApproveCommit
  <1>6. /\ ctx.req.client \in ClientIDs /\ ctx.sub \in Subs /\ FoundOK(ctx.sub, old)
        /\ Committed(ctx.req.client, old) /\ CsidsInPlace
    BY <1>1, <1>2, <1>3, <1>4, <1>5, CommitReads
  <1> QED BY <1>1, <1>2, <1>6

LEMMA CsidsApproveCommit ==
    ASSUME InductiveInv, NEW p \in Handlers, ApproveCommit(p)
    PROVE  CsidsKept
  <1>1. PICK old \in FoundOrNewSession(handlers[p].ctx.sub) :
          FoundOK(handlers[p].ctx.sub, old) /\ Committed(handlers[p].ctx.req.client, old)
    BY ApproveCommitReads
  <1>2. TypeOK
    BY DEF InductiveInv
  <1> SUFFICES ASSUME NEW c \in Consents, NEW i \in ClientIDs, Live(c)', i \in sessions'[c].ids
               PROVE  \/ Live(c) /\ i \in sessions[c].ids /\ CsidOf(c, i)' = CsidOf(c, i)
                      \/ bindings[CsidOf(c, i)'] = None
    BY DEF CsidsKept
  <1>3. CASE c # old.cookie
    <2>1. Live(c) /\ sessions'[c] = sessions[c]
      BY <1>1, <1>3 DEF Live, Committed
    <2>2. sessions[c].arr \in SUBSET ClientIDs
      BY <1>2, <2>1, LiveType DEF session
    <2>3. slices'[c][sessions[c].arr] = slices[c][sessions[c].arr]
      BY <1>1, <1>3, <2>2 DEF Committed
    <2> QED BY <2>1, <2>3 DEF CsidOf
  <1>4. CASE c = old.cookie /\ i \notin old.ids
    BY <1>1, <1>4 DEF Committed
  <1>5. CASE c = old.cookie /\ i \in old.ids
    <2>1. Live(c) /\ sessions[c] = old
      BY <1>1, <1>5 DEF FoundOK
    <2> QED BY <1>1, <1>5, <2>1 DEF Committed, CsidOf
  <1> QED BY <1>3, <1>4, <1>5

LEMMA CsidsNext ==
    ASSUME InductiveInv, [Next]_vars
    PROVE  CsidsKept
  <1>0. TypeOK
    BY DEF InductiveInv
  <1>1. CASE Registering
    BY <1>0, <1>1, CsidsKeptUnchanged DEF Registering, Register
  <1>2. CASE Authorizing
    <2>1. PICK req \in ClientRequests :
            \/ AuthorizeRefused(req)
            \/ AuthorizeLoginRequired(req)
            \/ AuthorizeLogin(req)
            \/ \E p \in Handlers, c \in Consents : AuthorizeSSO(p, req, c)
      BY <1>2 DEF Authorizing, AuthorizeWithCookie, AuthorizeByHint
    <2>2. CASE AuthorizeRefused(req) \/ AuthorizeLoginRequired(req) \/ AuthorizeLogin(req)
      BY <1>0, <2>2, CsidsKeptUnchanged DEF AuthorizeRefused, AuthorizeLoginRequired, AuthorizeLogin
    <2> QED BY <1>0, <2>1, <2>2, CsidsAuthorizeSSO
  <1>3. CASE \E r \in Requests, user \in Users : login(r, user)
    BY <1>0, <1>3, CsidsKeptUnchanged DEF login
  <1>4. CASE Approving
    <2>1. PICK p \in Handlers :
            \/ \E r \in Requests : ApproveRead(p, r)
            \/ ApproveCommit(p)
            \/ \E k \in Codes : issueCodeAndRedirect(p, k)
      BY <1>4 DEF Approving
    <2>2. CASE ApproveCommit(p)
      BY <2>2, CsidsApproveCommit
    <2>3. CASE ~ApproveCommit(p)
      BY <1>0, <2>1, <2>3, CsidsKeptUnchanged DEF ApproveRead, issueCodeAndRedirect, serverVars
    <2> QED BY <2>2, <2>3
  <1>5. CASE Exchanging
    <2>1. PICK p \in Handlers :
            \/ UNCHANGED <<sessions, slices>>
            \/ IssueTokens(p)
      BY <1>5 DEF Exchanging, TakeCode, SnapshotSession, VerifyPKCE, RefreshGrant, ReadAdvertisedSub,
                  ReadClaims, AuthenticateRegistered, ReadMetadataRegistration, ResolveMetadata, serverVars
    <2> QED BY <1>0, <2>1, CsidsKeptUnchanged, CsidsIssueTokens
  <1>6. CASE \E c \in Consents : EndSession(c)
    <2>1. PICK c \in Consents : EndSession(c)
      BY <1>6
    <2>2. slices' = slices /\ \A d \in Consents : sessions'[d] \in {sessions[d], None}
      BY <1>0, <2>1 DEF EndSession, TypeOK
    <2> QED BY <1>0, <2>2, CsidsKeptInPlace
  <1>7. CASE UNCHANGED vars
    BY <1>0, <1>7, CsidsKeptUnchanged DEF vars, serverVars
  <1> QED BY <1>1, <1>2, <1>3, <1>4, <1>5, <1>6, <1>7 DEF Next

\* Once the session behind a SessionID has ended, no later approval, single
\* sign-on or write-back makes that SessionID found again, so refresh tokens
\* that carry it stay dead.
THEOREM Revocation == Spec => RevocationIsPermanent
  <1>1. InductiveInv /\ InductiveInv' /\ [Next]_vars =>
          [\A n \in Consents :
              (bindings[n] # None /\ SessionsWithCsid(n) = {}) => SessionsWithCsid(n)' = {}]_vars
    BY CsidsNext, CsidsKeptSuffices
  <1> QED BY <1>1, Invariance, PTL DEF Spec, RevocationIsPermanent

-----------------------------------------------------------------------------
(* Clients with keys have to use them. *)

\* A metadata client is known to the registry.
Known(client) == client \in MetadataClients => clients[client] # None

\* ... once the step is done; the client may be named by either state.
KnownAfter(client) == client \in MetadataClients => clients'[client] # None

\* Registrations of metadata clients are documents, and whoever works for such a
\* client has seen one resolved: a request, an approval of it and a SessionID
\* created by that.
RegistryMeta == \A i \in MetadataClients : clients[i] \in Documents \cup {None}
RequestMeta  == \A r \in Requests : authContext[r] # None => Known(authContext[r].req.client)
ApproveMeta  == \A p \in Handlers : handlers[p].pc = "approve" => Known(handlers[p].ctx.req.client)
BindingMeta  == \A n \in Consents : bindings[n] # None => Known(bindings[n].client)

MetadataInv == RegistryMeta /\ RequestMeta /\ ApproveMeta /\ BindingMeta

\* No metadata registration is lost or replaced by anything but a document.
MetadataKept ==
    \A i \in MetadataClients :
        clients'[i] \in Documents \cup {None} /\ (clients[i] # None => clients'[i] # None)

LEMMA DocumentsAreRegistrations == Documents \subseteq clientRegistration /\ None \notin Documents
  <1>1. Documents \subseteq clientRegistration
    BY ConstantsAssumption DEF clientRegistration
  <1> QED BY <1>1, NoneAssumption

\* Storing a document under a metadata client's client_id.
LEMMA StoredDocument ==
    ASSUME TypeOK, RegistryMeta, NEW client \in ClientIDs, NEW doc \in Documents,
           clients' = [clients EXCEPT ![client] = doc]
    PROVE  MetadataKept /\ KnownAfter(client)
  <1> SUFFICES ASSUME NEW i \in MetadataClients
               PROVE  /\ clients'[i] \in Documents \cup {None} /\ (clients[i] # None => clients'[i] # None)
                      /\ i = client => clients'[i] # None
    BY DEF MetadataKept, Known, KnownAfter
  <1>1. i \in Clients
    BY DEF Clients
  <1>2. clients'[i] = IF i = client THEN doc ELSE clients[i]
    BY <1>1 DEF TypeOK
  <1> QED BY <1>2, DocumentsAreRegistrations DEF RegistryMeta

LEMMA ResolvedKeepsMetadata ==
    ASSUME TypeOK, RegistryMeta, NEW req \in ClientRequests, clients' \in ResolvedRegistries(req)
    PROVE  MetadataKept /\ KnownAfter(req.client)
  <1>0. req.client \in ClientIDs
    BY ConstantsAssumption
  <1>1. CASE req.client \in MetadataClients
    <2>1. PICK doc \in Documents : clients' = [clients EXCEPT ![req.client] = doc]
      BY <1>1 DEF ResolvedRegistries
    <2> QED BY <1>0, <2>1, StoredDocument
  <1>2. CASE req.client \notin MetadataClients
    <2>1. clients' = registerClientLocked(req.client, req.uri)
      BY <1>2 DEF ResolvedRegistries
    <2>2. \A i \in MetadataClients : clients'[i] = clients[i]
      BY <1>2, <2>1 DEF registerClientLocked, TypeOK, Clients
    <2> QED BY <1>2, <2>2 DEF MetadataKept, RegistryMeta, KnownAfter
  <1> QED BY <1>1, <1>2

\* Every step keeps metadata registrations.
LEMMA MetadataKeptNext ==
    ASSUME TypeOK, RegistryMeta, [Next]_vars
    PROVE  MetadataKept
  <1>1. CASE clients' = clients
    BY <1>1 DEF MetadataKept, RegistryMeta
  <1>2. CASE Registering
    <2>1. PICK client \in DynamicClients, reg \in Registrations : Register(client, reg)
      BY <1>2 DEF Registering
    <2>2. \A i \in MetadataClients : clients'[i] = clients[i]
      BY <2>1, ClientsAssumption DEF Register, TypeOK, Clients
    <2> QED BY <2>2 DEF MetadataKept, RegistryMeta
  <1>3. CASE Authorizing
    <2>1. PICK req \in ClientRequests : clients' \in ResolvedRegistries(req)
      BY <1>3 DEF Authorizing, AuthorizeRefused, AuthorizeLoginRequired, AuthorizeLogin, AuthorizeWithCookie,
                  AuthorizeByHint, AuthorizeSSO, resolveAuthorizeClient
    <2> QED BY <2>1, ResolvedKeepsMetadata
  <1>4. CASE \E p \in Handlers, cred \in ClientIDs : ResolveMetadata(p, cred)
    <2>1. PICK p \in Handlers, cred \in ClientIDs : ResolveMetadata(p, cred)
      BY <1>4
    <2>2. handlers[p] \in FinishState
      BY <2>1, HandlerTypes DEF ResolveMetadata, Finishing
    <2>3. PICK out \in ResolveOutcomes(handlers[p], cred) : clients' = out.registry
      BY <2>1 DEF ResolveMetadata
    <2>4. \/ clients' = clients
          \/ \E doc \in Documents : clients' = [clients EXCEPT ![handlers[p].client] = doc]
      BY <2>2, <2>3, ResolveRegistry
    <2>5. handlers[p].client \in ClientIDs
      BY <2>2 DEF FinishState
    <2> QED BY <1>1, <2>4, <2>5, StoredDocument
  <1>5. \/ clients' = clients \/ Registering \/ Authorizing
        \/ \E p \in Handlers, cred \in ClientIDs : ResolveMetadata(p, cred)
    BY DEF Next, vars, serverVars, login, Approving, Exchanging, ApproveRead, ApproveCommit,
           CommitConsent, issueCodeAndRedirect, TakeCode, SnapshotSession, VerifyPKCE,
           RefreshGrant, ReadAdvertisedSub, ReadClaims, AuthenticateRegistered,
           ReadMetadataRegistration, IssueTokens, EndSession
  <1> QED BY <1>1, <1>2, <1>3, <1>4, <1>5

LEMMA KnownKept ==
    ASSUME MetadataKept, NEW client, Known(client)
    PROVE  KnownAfter(client)
  BY DEF MetadataKept, Known, KnownAfter

\* A request is remembered only after its client was resolved; login changes
\* whose request it is and never its client.
LEMMA RequestMetaNext ==
    ASSUME TypeOK, MetadataInv, [Next]_vars, MetadataKept
    PROVE  RequestMeta'
  <1> SUFFICES ASSUME NEW r \in Requests, authContext'[r] # None
               PROVE  KnownAfter(authContext'[r].req.client)
    BY DEF RequestMeta, Known, KnownAfter
  <1>0. authContext[r] # None => KnownAfter(authContext[r].req.client)
    BY KnownKept DEF MetadataInv, RequestMeta
  <1>1. CASE authContext'[r] \in {authContext[r], None}
    BY <1>0, <1>1
  <1>2. CASE \E req \in ClientRequests : AuthorizeLogin(req)
    <2>1. PICK req \in ClientRequests : AuthorizeLogin(req)
      BY <1>2
    <2>2. KnownAfter(req.client)
      BY <2>1, ResolvedKeepsMetadata DEF AuthorizeLogin, resolveAuthorizeClient, MetadataInv
    <2>3. authContext'[r] = authContext[r] \/ authContext'[r] = [req |-> req, sub |-> NoUser]
      BY <2>1 DEF AuthorizeLogin, TypeOK
    <2>4. CASE authContext'[r] = [req |-> req, sub |-> NoUser]
      BY <2>2, <2>4
    <2> QED BY <1>1, <2>3, <2>4
  <1>3. CASE \E s \in Requests, user \in Users : login(s, user)
    <2>1. PICK s \in Requests, user \in Users : login(s, user)
      BY <1>3
    <2>2. CASE s # r
      BY <1>1, <2>1, <2>2 DEF login, TypeOK
    <2>3. CASE s = r
      <3>1. CASE authContext[r] = None
        <4>1. authContext'[r].req.client = NoClient
          BY <2>1, <2>3, <3>1 DEF login, TypeOK
        <4> QED BY <4>1, ClientsAssumption DEF KnownAfter, Clients
      <3>2. CASE authContext[r] # None
        <4>1. authContext[r] \in authContextEntry
          BY <3>2 DEF TypeOK
        <4>2. authContext'[r] = [authContext[r] EXCEPT !.sub = user]
          BY <2>1, <2>3, <3>2 DEF login, TypeOK
        <4>3. authContext'[r].req = authContext[r].req
          BY <4>1, <4>2 DEF authContextEntry
        <4> QED BY <1>0, <3>2, <4>3
      <3> QED BY <3>1, <3>2
    <2> QED BY <2>2, <2>3
  <1>4. CASE \E p \in Handlers : ApproveCommit(p)
    <2>1. authContext'[r] \in {authContext[r], None}
      BY <1>4 DEF ApproveCommit, CommitConsent, TypeOK
    <2> QED BY <1>1, <2>1
  <1>5. \/ authContext' = authContext
        \/ \E req \in ClientRequests : AuthorizeLogin(req)
        \/ \E s \in Requests, user \in Users : login(s, user)
        \/ \E p \in Handlers : ApproveCommit(p)
    BY DEF Next, vars, serverVars, Registering, Register, Authorizing, AuthorizeRefused,
           AuthorizeLoginRequired, AuthorizeWithCookie, AuthorizeByHint, AuthorizeSSO, Approving, Exchanging, ApproveRead,
           issueCodeAndRedirect, TakeCode, SnapshotSession, VerifyPKCE,
           RefreshGrant, ReadAdvertisedSub, ReadClaims, AuthenticateRegistered,
           ReadMetadataRegistration, ResolveMetadata, IssueTokens, EndSession
  <1> QED BY <1>1, <1>2, <1>3, <1>4, <1>5

\* The steps that take a handler to the middle of an approval or of the
\* authentication of a client.
Arriving(p) ==
    \/ \E r \in Requests : ApproveRead(p, r)
    \/ \E cred \in ClientIDs : AuthenticateRegistered(p, cred) \/ ResolveMetadata(p, cred)
    \/ ReadMetadataRegistration(p)

LEMMA HandlerArrives ==
    ASSUME TypeOK, [Next]_vars, NEW p \in Handlers, handlers'[p] # handlers[p],
           handlers'[p].pc \in {"approve", "resolve", "granted"}
    PROVE  Arriving(p)
  <1>1. \/ handlers' = handlers
        \/ \E q \in Handlers : Arriving(q)
        \/ \E q \in Handlers : \E new :
             new.pc \notin {"approve", "resolve", "granted"} /\ handlers' = [handlers EXCEPT ![q] = new]
    <2>1. CASE Registering \/ UNCHANGED vars
      BY <2>1 DEF Registering, Register, vars
    <2>2. CASE Authorizing
      <3>1. PICK req \in ClientRequests :
              \/ handlers' = handlers
              \/ \E q \in Handlers, c \in Consents : AuthorizeSSO(q, req, c)
        BY <2>2 DEF Authorizing, AuthorizeRefused, AuthorizeLoginRequired, AuthorizeLogin, AuthorizeWithCookie, AuthorizeByHint
      <3>2. ASSUME NEW q \in Handlers, NEW c \in Consents, AuthorizeSSO(q, req, c)
            PROVE  \E new : new.pc \notin {"approve", "resolve", "granted"} /\ handlers' = [handlers EXCEPT ![q] = new]
        BY <3>2 DEF AuthorizeSSO
      <3> QED BY <3>1, <3>2
    <2>3. CASE (\E r \in Requests, user \in Users : login(r, user)) \/ (\E c \in Consents : EndSession(c))
      BY <2>3 DEF login, EndSession
    <2>4. CASE Approving
      <3>1. PICK q \in Handlers :
              \/ \E r \in Requests : ApproveRead(q, r)
              \/ ApproveCommit(q)
              \/ \E k \in Codes : issueCodeAndRedirect(q, k)
        BY <2>4 DEF Approving
      <3>2. ASSUME ApproveCommit(q)
            PROVE  \E new : new.pc \notin {"approve", "resolve", "granted"} /\ handlers' = [handlers EXCEPT ![q] = new]
        BY <3>2 DEF ApproveCommit, CommitConsent
      <3>3. ASSUME NEW k \in Codes, issueCodeAndRedirect(q, k)
            PROVE  \E new : new.pc \notin {"approve", "resolve", "granted"} /\ handlers' = [handlers EXCEPT ![q] = new]
        BY <3>3 DEF issueCodeAndRedirect, Idle
      <3> QED BY <3>1, <3>2, <3>3 DEF Arriving
    <2>5. CASE Exchanging
      BY <2>5 DEF Exchanging, TakeCode, SnapshotSession, VerifyPKCE, RefreshGrant,
         ReadAdvertisedSub, ReadClaims, IssueTokens, Idle, Arriving
    <2> QED BY <2>1, <2>2, <2>3, <2>4, <2>5 DEF Next
  <1>2. ASSUME NEW q \in Handlers, Arriving(q)
        PROVE  q = p
    <2>1. \E new : handlers' = [handlers EXCEPT ![q] = new]
      BY <1>2 DEF Arriving, ApproveRead, AuthenticateRegistered, ReadMetadataRegistration, ResolveMetadata
    <2> QED BY <2>1 DEF TypeOK
  <1>3. ASSUME NEW q \in Handlers, NEW new, new.pc \notin {"approve", "resolve", "granted"},
               handlers' = [handlers EXCEPT ![q] = new]
        PROVE  FALSE
    BY <1>3 DEF TypeOK
  <1> QED BY <1>1, <1>2, <1>3

\* The steps of authenticateClient move their handler on, with the grant it
\* found, or end it.
Authenticating(p, cred) ==
    AuthenticateRegistered(p, cred) \/ ReadMetadataRegistration(p) \/ ResolveMetadata(p, cred)

LEMMA AuthenticationMoves ==
    ASSUME TypeOK, NEW p \in Handlers, NEW cred \in ClientIDs, Authenticating(p, cred)
    PROVE  /\ handlers[p].pc \in Finishing /\ handlers[p] \in FinishState
           /\ \A q \in Handlers : q # p => handlers'[q] = handlers[q]
           /\ \/ /\ handlers'[p].pc \in {"resolve", "granted"}
                 /\ handlers'[p].client = handlers[p].client /\ handlers'[p].csid = handlers[p].csid
              \/ handlers'[p] = Idle
  <1>1. handlers[p].pc \in Finishing
    BY DEF Authenticating, AuthenticateRegistered, ReadMetadataRegistration, ResolveMetadata, Finishing
  <1>2. handlers[p] \in FinishState
    BY <1>1, HandlerTypes
  <1>3. \E new \in {[handlers[p] EXCEPT !.pc = "granted", !.reg = None, !.cred = cred], Idle}
                    \cup {[handlers[p] EXCEPT !.pc = "resolve", !.reg = Registration(handlers[p].client)]} :
          handlers' = [handlers EXCEPT ![p] = new]
    <2>1. ASSUME NEW ok
          PROVE  Verdict(handlers[p], ok, cred) \in
                   {[handlers[p] EXCEPT !.pc = "granted", !.reg = None, !.cred = cred], Idle}
      BY DEF Verdict
    <2>2. CASE AuthenticateRegistered(p, cred)
      <3>1. PICK ok : handlers' = [handlers EXCEPT ![p] = Verdict(handlers[p], ok, cred)]
        BY <2>2, Zenon DEF AuthenticateRegistered
      <3> QED BY <2>1, <3>1
    <2>3. CASE ResolveMetadata(p, cred)
      <3>1. PICK out : handlers' = [handlers EXCEPT ![p] = Verdict(handlers[p], out.ok, cred)]
        BY <2>3 DEF ResolveMetadata
      <3> QED BY <2>1, <3>1
    <2>4. CASE ReadMetadataRegistration(p)
      BY <2>4 DEF ReadMetadataRegistration
    <2> QED BY <2>2, <2>3, <2>4 DEF Authenticating
  <1>4. PICK new \in {[handlers[p] EXCEPT !.pc = "granted", !.reg = None, !.cred = cred], Idle}
                    \cup {[handlers[p] EXCEPT !.pc = "resolve", !.reg = Registration(handlers[p].client)]} :
          handlers' = [handlers EXCEPT ![p] = new]
    BY <1>3
  <1>5. handlers'[p] = new /\ \A q \in Handlers : q # p => handlers'[q] = handlers[q]
    BY <1>4 DEF TypeOK
  <1>6. \/ new.pc \in {"resolve", "granted"} /\ new.client = handlers[p].client /\ new.csid = handlers[p].csid
        \/ new = Idle
    BY <1>2, <1>4 DEF FinishState
  <1> QED BY <1>1, <1>2, <1>5, <1>6

\* An approval in progress holds a request that was stored.
LEMMA ApproveMetaNext ==
    ASSUME TypeOK, MetadataInv, [Next]_vars, MetadataKept
    PROVE  ApproveMeta'
  <1> SUFFICES ASSUME NEW p \in Handlers, handlers'[p].pc = "approve"
               PROVE  KnownAfter(handlers'[p].ctx.req.client)
    BY DEF ApproveMeta, Known, KnownAfter
  <1>1. CASE handlers'[p] = handlers[p]
    BY <1>1, KnownKept DEF MetadataInv, ApproveMeta
  <1>2. CASE \E r \in Requests : ApproveRead(p, r)
    <2>1. PICK r \in Requests : ApproveRead(p, r)
      BY <1>2
    <2>2. handlers'[p].ctx = authContext[r] /\ authContext[r] # None
      BY <2>1 DEF ApproveRead, TypeOK
    <2> QED BY <2>2, KnownKept DEF MetadataInv, RequestMeta
  <1>3. ASSUME handlers'[p] # handlers[p] PROVE \E r \in Requests : ApproveRead(p, r)
    <2>1. \A cred \in ClientIDs : ~Authenticating(p, cred)
      BY AuthenticationMoves DEF Idle
    <2>2. NoClient \in ClientIDs
      BY DEF ClientIDs
    <2> QED BY <1>3, <2>1, <2>2, HandlerArrives DEF Arriving, Authenticating
  <1> QED BY <1>1, <1>2, <1>3

\* A SessionID is only created by an approval.
LEMMA BindingMetaNext ==
    ASSUME TypeOK, MetadataInv, [Next]_vars, MetadataKept
    PROVE  BindingMeta'
  <1> SUFFICES ASSUME NEW n \in Consents, bindings'[n] # None
               PROVE  KnownAfter(bindings'[n].client)
    BY DEF BindingMeta, Known, KnownAfter
  <1>1. CASE bindings'[n] = bindings[n]
    BY <1>1, KnownKept DEF MetadataInv, BindingMeta
  <1>2. CASE \E p \in Handlers : ApproveCommit(p)
    <2>1. PICK p \in Handlers : ApproveCommit(p)
      BY <1>2
    <2>2. bindings'[n] = bindings[n] \/ bindings'[n].client = handlers[p].ctx.req.client
      BY <2>1 DEF ApproveCommit, CommitConsent, TypeOK
    <2>3. KnownAfter(handlers[p].ctx.req.client)
      BY <2>1, KnownKept DEF MetadataInv, ApproveMeta, ApproveCommit
    <2> QED BY <1>1, <2>2, <2>3
  <1>3. bindings' = bindings \/ \E p \in Handlers : ApproveCommit(p)
    BY DEF Next, vars, historyVars, Registering, Register, Authorizing, AuthorizeRefused,
           AuthorizeLoginRequired, AuthorizeLogin, AuthorizeWithCookie, AuthorizeByHint, AuthorizeSSO, login, Approving,
           Exchanging, ApproveRead, issueCodeAndRedirect, TakeCode, SnapshotSession, VerifyPKCE,
           RefreshGrant, ReadAdvertisedSub, ReadClaims, AuthenticateRegistered,
           ReadMetadataRegistration, ResolveMetadata, IssueTokens, EndSession
  <1> QED BY <1>1, <1>2, <1>3

LEMMA MetadataInvInit == Init => MetadataInv
  BY DEF Init, MetadataInv, RegistryMeta, RequestMeta, ApproveMeta, BindingMeta, Clients, Idle

LEMMA MetadataInvNext ==
    ASSUME InductiveInv, MetadataInv, [Next]_vars
    PROVE  MetadataInv'
  <1>1. TypeOK /\ MetadataKept
    BY MetadataKeptNext DEF InductiveInv, MetadataInv
  <1>2. RegistryMeta'
    BY <1>1 DEF MetadataKept, RegistryMeta
  <1> QED BY <1>1, <1>2, RequestMetaNext, ApproveMetaNext, BindingMetaNext DEF MetadataInv

\* MetadataInv is an invariant: what is under way for a metadata client works
\* with a document that was resolved.
THEOREM MetadataInvariance == Spec => []MetadataInv
  <1>1. InductiveInv /\ MetadataInv /\ [Next]_vars => MetadataInv'
    BY MetadataInvNext
  <1> QED BY <1>1, MetadataInvInit, Invariance, PTL DEF Spec

\* A token request that resolves a metadata client read a document; if that was
\* a public one, this was noted.
ResolveInv ==
    \A p \in Handlers :
        handlers[p].pc = "resolve" /\ handlers[p].client \in MetadataClients =>
            handlers[p].reg \in Documents /\ (handlers[p].reg.auth = "none" => p \in seenPublic)

KeysInv == KeysAreNeverSkipped /\ ResolveInv

LEMMA EveryStepNotes == Next => NotePublic
  BY DEF Next, Registering, Register, Authorizing, AuthorizeRefused, AuthorizeLoginRequired,
         AuthorizeLogin, AuthorizeWithCookie, AuthorizeByHint, AuthorizeSSO, login, Approving,
         Exchanging, ApproveRead, ApproveCommit, CommitConsent, issueCodeAndRedirect, TakeCode,
         SnapshotSession, VerifyPKCE, RefreshGrant, ReadAdvertisedSub, ReadClaims,
         AuthenticateRegistered, ReadMetadataRegistration, ResolveMetadata, IssueTokens, EndSession

\* The client of a token request that found its grant is known: the SessionID
\* was created for it.
LEMMA GrantedClientKnown ==
    ASSUME InductiveInv, MetadataInv, NEW p \in Handlers, handlers[p].pc \in Finishing,
           handlers[p].client \in MetadataClients
    PROVE  /\ handlers[p].client \in Clients /\ handlers[p].client # NoClient
           /\ Registration(handlers[p].client) = clients[handlers[p].client]
           /\ clients[handlers[p].client] \in Documents
           /\ clients[handlers[p].client] # None /\ clients[handlers[p].client].method = "metadata"
  <1>1. handlers[p] \in FinishState
    BY HandlerTypes DEF InductiveInv
  <1>2. /\ handlers[p].csid # 0
        /\ bindings[handlers[p].csid] = [cookie |-> handlers[p].cookie, client |-> handlers[p].client,
                                         sub |-> handlers[p].adv.sub]
    BY DEF InductiveInv, HandlerInv, HandlerOK
  <1>3. /\ handlers[p].csid \in Consents /\ handlers[p].cookie \in Consents
        /\ handlers[p].client \in ClientIDs /\ handlers[p].adv.sub \in Subs
    BY <1>1, <1>2 DEF FinishState, AdvertisedSubs
  <1>4. bindings[handlers[p].csid] # None
    BY <1>2, <1>3, NoneAssumption DEF Binding
  <1>5. bindings[handlers[p].csid].client = handlers[p].client
    BY <1>2
  <1>6. Known(handlers[p].client)
    BY <1>3, <1>4, <1>5 DEF MetadataInv, BindingMeta
  <1>7. handlers[p].client \in Clients /\ handlers[p].client # NoClient
    BY ClientsAssumption DEF Clients
  <1>8. clients[handlers[p].client] \in Documents /\ clients[handlers[p].client] # None
    BY <1>6 DEF MetadataInv, RegistryMeta, Known
  <1>9. clients[handlers[p].client].method = "metadata"
    BY <1>8, ConstantsAssumption
  <1> QED BY <1>7, <1>8, <1>9 DEF Registration

\* What KeysInv asks of one request after a step.
KeysOKAfter(p) ==
    handlers'[p].client \in MetadataClients =>
        /\ handlers'[p].pc = "granted" /\ handlers'[p].cred # handlers'[p].client => p \in seenPublic'
        /\ handlers'[p].pc = "resolve" =>
             handlers'[p].reg \in Documents /\ (handlers'[p].reg.auth = "none" => p \in seenPublic')

\* The lookup notes a public registration at once.
LEMMA KeysReadMetadataRegistration ==
    ASSUME InductiveInv, MetadataInv, NEW p \in Handlers, ReadMetadataRegistration(p)
    PROVE  KeysOKAfter(p)
  <1> SUFFICES ASSUME handlers'[p].client \in MetadataClients
               PROVE  /\ handlers'[p].pc = "resolve" /\ handlers'[p].reg \in Documents
                      /\ handlers'[p].reg.auth = "none" => p \in seenPublic'
    BY DEF KeysOKAfter
  <1>1. handlers[p].pc \in Finishing /\ TypeOK
    BY DEF ReadMetadataRegistration, Finishing, InductiveInv
  <1>2. handlers[p] \in FinishState
    BY <1>1, HandlerTypes
  <1>3. /\ handlers'[p].pc = "resolve" /\ handlers'[p].client = handlers[p].client
        /\ handlers'[p].reg = Registration(handlers[p].client) /\ clients' = clients
    BY <1>1, <1>2 DEF ReadMetadataRegistration, TypeOK, FinishState, serverVars
  <1>4. handlers'[p].reg = clients'[handlers'[p].client] /\ handlers'[p].reg \in Documents
    BY <1>1, <1>3, GrantedClientKnown
  <1>5. handlers'[p].reg.auth = "none" => p \in seenPublic'
    BY <1>3, <1>4 DEF ReadMetadataRegistration, NotePublic
  <1> QED BY <1>3, <1>4, <1>5

\* The verdict on a metadata client: its own credentials, a public registration
\* read before, or a public document just stored.
LEMMA KeysResolveMetadata ==
    ASSUME InductiveInv, MetadataInv, ResolveInv, NEW p \in Handlers, NEW cred \in ClientIDs,
           ResolveMetadata(p, cred)
    PROVE  KeysOKAfter(p)
  <1>1. TypeOK /\ handlers[p].pc = "resolve" /\ handlers[p] \in FinishState
    BY HandlerTypes DEF ResolveMetadata, Finishing, InductiveInv
  <1>2. PICK out \in ResolveOutcomes(handlers[p], cred) :
          /\ clients' = out.registry
          /\ handlers' = [handlers EXCEPT ![p] = Verdict(handlers[p], out.ok, cred)]
    BY DEF ResolveMetadata
  <1>3. handlers'[p] = Verdict(handlers[p], out.ok, cred)
    BY <1>1, <1>2 DEF TypeOK
  <1>4. CASE ~out.ok
    BY <1>3, <1>4 DEF Verdict, Idle, KeysOKAfter
  <1>5. CASE out.ok
    <2>1. /\ handlers'[p].pc = "granted" /\ handlers'[p].client = handlers[p].client
          /\ handlers'[p].cred = cred
      BY <1>1, <1>3, <1>5 DEF Verdict, FinishState
    <2> SUFFICES ASSUME handlers[p].client \in MetadataClients, cred # handlers[p].client
                 PROVE  p \in seenPublic'
      BY <2>1 DEF KeysOKAfter
    <2>2. handlers[p].reg \in Documents /\ (handlers[p].reg.auth = "none" => p \in seenPublic)
      BY <1>1 DEF ResolveInv
    <2>3. handlers[p].reg.auth \in {"none", "private_key_jwt"}
      BY <2>2, ConstantsAssumption
    <2>4. p \in seenPublic \/ clients'[handlers'[p].client].auth = "none"
      <3>1. \/ out = [registry |-> clients, ok |-> handlers[p].reg.auth # "private_key_jwt"]
            \/ \E doc \in Documents :
                 out = [registry |-> [clients EXCEPT ![handlers[p].client] = doc],
                        ok |-> CredentialsVerify(doc, handlers[p].client, cred)]
        BY DEF ResolveOutcomes
      <3>2. CASE out = [registry |-> clients, ok |-> handlers[p].reg.auth # "private_key_jwt"]
        <4>1. out.ok = (handlers[p].reg.auth # "private_key_jwt")
          BY <3>2
        <4> QED BY <1>5, <2>2, <2>3, <4>1
      <3>3. ASSUME NEW doc \in Documents,
                   out = [registry |-> [clients EXCEPT ![handlers[p].client] = doc],
                          ok |-> CredentialsVerify(doc, handlers[p].client, cred)]
            PROVE  clients'[handlers'[p].client].auth = "none"
        <4>1. /\ out.registry = [clients EXCEPT ![handlers[p].client] = doc]
              /\ out.ok = CredentialsVerify(doc, handlers[p].client, cred)
          BY <3>3
        <4>2. clients'[handlers[p].client] = doc
          BY <1>1, <1>2, <4>1 DEF TypeOK, Clients
        <4>3. doc.auth = "none"
          BY <1>5, <4>1 DEF CredentialsVerify
        <4> QED BY <2>1, <4>2, <4>3
      <3> QED BY <3>1, <3>2, <3>3
    <2> QED BY <2>1, <2>4 DEF ResolveMetadata, NotePublic
  <1> QED BY <1>4, <1>5

LEMMA KeysInvNext ==
    ASSUME InductiveInv, MetadataInv, KeysInv, [Next]_vars
    PROVE  KeysInv'
  <1>0. TypeOK
    BY DEF InductiveInv
  <1> SUFFICES ASSUME NEW p \in Handlers PROVE KeysOKAfter(p)
    BY DEF KeysInv, KeysAreNeverSkipped, ResolveInv, KeysOKAfter
  <1>1. CASE handlers'[p] = handlers[p]
    <2>1. handlers[p].pc \in {"resolve", "granted"} /\ handlers[p].client \in MetadataClients
            /\ p \in seenPublic => p \in seenPublic'
      <3>1. CASE UNCHANGED vars
        BY <3>1 DEF vars
      <3>2. CASE Next
        BY <1>1, <3>2, EveryStepNotes DEF NotePublic
      <3> QED BY <3>1, <3>2
    <2> QED BY <1>1, <2>1 DEF KeysInv, KeysAreNeverSkipped, ResolveInv, KeysOKAfter
  <1>2. CASE handlers'[p] # handlers[p] /\ handlers'[p].pc \in {"resolve", "granted"}
    <2>1. Arriving(p)
      BY <1>0, <1>2, HandlerArrives
    <2>2. CASE \E r \in Requests : ApproveRead(p, r)
      BY <1>0, <1>2, <2>2 DEF ApproveRead, TypeOK
    <2>3. CASE \E cred \in ClientIDs : AuthenticateRegistered(p, cred)
      <3>1. PICK cred \in ClientIDs : AuthenticateRegistered(p, cred)
        BY <2>3
      <3>2. handlers[p].pc \in Finishing /\ handlers[p] \in FinishState
        BY <1>0, <3>1, HandlerTypes DEF AuthenticateRegistered, Finishing
      <3>3. handlers[p].client \notin MetadataClients
        BY <3>1, <3>2, GrantedClientKnown DEF AuthenticateRegistered
      <3>4. handlers'[p].client = handlers[p].client
        BY <1>0, <1>2, <3>1, AuthenticationMoves DEF Authenticating, Idle
      <3> QED BY <3>3, <3>4 DEF KeysOKAfter
    <2>4. CASE \E cred \in ClientIDs : ResolveMetadata(p, cred)
      BY <2>4, KeysResolveMetadata DEF KeysInv
    <2>5. CASE ReadMetadataRegistration(p)
      BY <2>5, KeysReadMetadataRegistration
    <2> QED BY <2>1, <2>2, <2>3, <2>4, <2>5 DEF Arriving
  <1>3. CASE handlers'[p].pc \notin {"resolve", "granted"}
    BY <1>3 DEF KeysOKAfter
  <1> QED BY <1>1, <1>2, <1>3

\* A metadata client whose registration has keys from the lookup that begins its
\* authentication until the verdict is granted no tokens without a proof of them,
\* whatever other requests fetch and store in between.
THEOREM KeysAreRequired == Spec => []KeysAreNeverSkipped
  <1>1. Init => KeysInv
    BY DEF Init, KeysInv, KeysAreNeverSkipped, ResolveInv, Idle
  <1>2. InductiveInv /\ MetadataInv /\ KeysInv /\ [Next]_vars => KeysInv'
    BY KeysInvNext
  <1>3. KeysInv => KeysAreNeverSkipped
    BY DEF KeysInv
  <1> QED BY <1>1, <1>2, <1>3, Invariance, MetadataInvariance, PTL DEF Spec

-----------------------------------------------------------------------------
(* AuthServer implements Grants. *)

\* The refinement mapping, by name.
Active  == {n \in Consents : SessionsWithCsid(n) # {}}
CodeFor == [k \in Codes |-> IF sent[k] = None THEN None
                            ELSE [cookie |-> sent[k].cookie, client |-> sent[k].req.client]]
Open    == {k \in Codes : Exchangeable(k)}
Working == [p \in Handlers |-> WorkingFor(handlers[p])]
Issued  == {[grant |-> t.csid, client |-> t.client, sub |-> t.adv.sub] : t \in tokens}

LEMMA Stutters ==
    ASSUME bindings' = bindings, Active' = Active, CodeFor' = CodeFor, Open' = Open,
           Working' = Working, Issued' = Issued
    PROVE  UNCHANGED Granted!grantVars
  BY DEF Granted!grantVars, Active, CodeFor, Open, Working, Issued

\* Element i of live session c carries the SessionID n.
Reaches(c, i, n) == Live(c) /\ i \in sessions[c].ids /\ CsidOf(c, i) = n

LEMMA ActiveReached ==
    ASSUME SessionInv, NEW n \in Consents
    PROVE  n \in Active <=> \E c \in Consents, i \in ClientIDs : Reaches(c, i, n)
  <1>1. n # 0
    BY DEF Consents
  <1>2. ASSUME NEW c \in Consents, NEW i \in ClientIDs
        PROVE  Reaches(c, i, n) <=> <<c, i>> \in SessionsWithCsid(n)
    <2>1. Live(c) => sessions[c].cookie = c
      BY DEF SessionInv
    <2> QED BY <1>1, <2>1 DEF SessionsWithCsid, Reaches, ClientSession, CsidOf
  <1>3. SessionsWithCsid(n) # {} <=> \E c \in Consents, i \in ClientIDs : <<c, i>> \in SessionsWithCsid(n)
    BY DEF SessionsWithCsid
  <1> QED BY <1>2, <1>3 DEF Active

LEMMA ActiveReachedAfter ==
    ASSUME SessionInv', NEW n \in Consents
    PROVE  n \in Active' <=> \E c \in Consents, i \in ClientIDs : Reaches(c, i, n)'
  <1>1. n # 0
    BY DEF Consents
  <1>2. ASSUME NEW c \in Consents, NEW i \in ClientIDs
        PROVE  Reaches(c, i, n)' <=> <<c, i>> \in SessionsWithCsid(n)'
    <2>1. Live(c)' => sessions'[c].cookie = c
      BY DEF SessionInv
    <2> QED BY <1>1, <2>1 DEF SessionsWithCsid, Reaches, ClientSession, CsidOf
  <1>3. SessionsWithCsid(n)' # {} <=> \E c \in Consents, i \in ClientIDs : <<c, i>> \in SessionsWithCsid(n)'
    BY DEF SessionsWithCsid
  <1> QED BY <1>2, <1>3 DEF Active

\* A grant that can be found is for the session, client and user it is found with.
LEMMA ReachedBinding ==
    ASSUME InductiveInv, NEW c \in Consents, NEW i \in ClientIDs, NEW n, Reaches(c, i, n)
    PROVE  /\ n \in Consents /\ sessions[c] \in session
           /\ bindings[n] = [cookie |-> c, client |-> i, sub |-> sessions[c].sub]
  <1>1. TypeOK
    BY DEF InductiveInv
  <1>2. sessions[c] \in session /\ sessions[c].cookie = c /\ SessionOK(sessions[c])
    BY <1>1, LiveType DEF Reaches, InductiveInv, SessionInv
  <1>3. sessions[c].arr \in SUBSET ClientIDs
    BY <1>2 DEF session
  <1>4. /\ slices[c][sessions[c].arr][i].csid = n /\ n # 0
        /\ slices[c][sessions[c].arr][i].adv.sub = sessions[c].sub
    BY <1>2 DEF Reaches, CsidOf, SessionOK
  <1>5. EntryOK(c, sessions[c].arr, i)
    BY <1>3 DEF InductiveInv, EntryInv
  <1>6. slices[c][sessions[c].arr][i] \in clientSession
    BY <1>1, <1>3 DEF TypeOK
  <1>7. n \in Consents
    BY <1>4, <1>6 DEF clientSession
  <1> QED BY <1>2, <1>4, <1>5, <1>7 DEF EntryOK

LEMMA ActiveKept ==
    ASSUME TypeOK, sessions' = sessions, SessionInv, SessionInv',
           \A c \in Consents, a \in SUBSET ClientIDs, i \in ClientIDs :
               slices'[c][a][i].csid = slices[c][a][i].csid
    PROVE  Active' = Active
  <1>1. ASSUME NEW c \in Consents, NEW i \in ClientIDs, NEW n
        PROVE  Reaches(c, i, n)' <=> Reaches(c, i, n)
    <2>1. Live(c) => sessions[c].arr \in SUBSET ClientIDs
      BY LiveType DEF session
    <2>2. Live(c) => CsidOf(c, i)' = CsidOf(c, i)
      BY <2>1 DEF CsidOf
    <2> QED BY <2>2 DEF Reaches, Live
  <1>2. \A n \in Consents : n \in Active' <=> n \in Active
    BY <1>1, ActiveReached, ActiveReachedAfter
  <1> QED BY <1>2 DEF Active

\* The grant a token request works for does not change behind its back: its copy
\* of the session leads to elements that keep their SessionID.
LEMMA WorkingKept ==
    ASSUME InductiveInv, CsidsInPlace, NEW q \in Handlers, handlers'[q] = handlers[q]
    PROVE  WorkingFor(handlers[q])' = WorkingFor(handlers[q])
  <1>1. CASE handlers[q].pc \notin {"verify", "read", "claims"}
    BY <1>1 DEF WorkingFor, Finishing
  <1>2. CASE handlers[q].pc \in {"verify", "read", "claims"}
    <2> DEFINE sess == handlers[q].sess
               client == handlers[q].client
    <2>1. sess \in session /\ client \in ClientIDs /\ SessionOK(sess)
      <3>1. TypeOK /\ HandlerOK(handlers[q])
        BY DEF InductiveInv, HandlerInv
      <3> QED BY <1>2, <3>1, HandlerTypes DEF HandlerOK, VerifyState, ReadState, ClaimsState
    <2>2. WorkingFor(handlers[q]) = ClientSession(sess, client).csid
      BY <1>2 DEF WorkingFor, Finishing
    <2>3. CASE client \notin sess.ids
      BY <1>2, <2>3 DEF WorkingFor, ClientSession, Finishing
    <2>4. CASE client \in sess.ids
      <3>1. sess.cookie \in Consents /\ sess.arr \in SUBSET ClientIDs
        BY <2>1 DEF session
      <3>2. slices[sess.cookie][sess.arr][client].csid # 0
        BY <2>1, <2>4 DEF SessionOK
      <3>3. slices'[sess.cookie][sess.arr][client].csid = slices[sess.cookie][sess.arr][client].csid
        BY <2>1, <3>1, <3>2 DEF CsidsInPlace
      <3> QED BY <1>2, <2>4, <3>3 DEF WorkingFor, ClientSession, Finishing
    <2> QED BY <2>3, <2>4
  <1> QED BY <1>1, <1>2

LEMMA WorkingMoves ==
    ASSUME InductiveInv, CsidsInPlace, NEW p \in Handlers,
           \A q \in Handlers : q # p => handlers'[q] = handlers[q]
    PROVE  Working' = [Working EXCEPT ![p] = WorkingFor(handlers[p])']
  <1>1. \A q \in Handlers : q # p => WorkingFor(handlers[q])' = WorkingFor(handlers[q])
    BY WorkingKept
  <1> QED BY <1>1 DEF Working

LEMMA WorkingStays ==
    ASSUME InductiveInv, CsidsInPlace, NEW p \in Handlers,
           \A q \in Handlers : q # p => handlers'[q] = handlers[q],
           WorkingFor(handlers[p])' = WorkingFor(handlers[p])
    PROVE  Working' = Working
  <1>1. \A q \in Handlers : q # p => WorkingFor(handlers[q])' = WorkingFor(handlers[q])
    BY WorkingKept
  <1> QED BY <1>1 DEF Working

LEMMA OpenKept ==
    ASSUME codeMeta' = codeMeta,
           \A q \in Handlers :
              handlers'[q] = handlers[q] \/ (handlers[q].pc # "taken" /\ handlers'[q].pc # "taken")
    PROVE  Open' = Open
  BY DEF Open, Exchangeable

LEMMA UnchangedInPlace == ASSUME slices' = slices PROVE CsidsInPlace
  BY DEF CsidsInPlace

\* A step that moves one handler, outside the hands of any code, and nothing a
\* grant depends on.
LEMMA HandlerStutters ==
    ASSUME InductiveInv, InductiveInv', NEW p \in Handlers,
           UNCHANGED <<bindings, sent, tokens, codeMeta, sessions>>,
           \A c \in Consents, a \in SUBSET ClientIDs, i \in ClientIDs :
               slices'[c][a][i].csid = slices[c][a][i].csid,
           \A q \in Handlers : q # p => handlers'[q] = handlers[q],
           handlers[p].pc # "taken", handlers'[p].pc # "taken",
           WorkingFor(handlers[p])' = WorkingFor(handlers[p])
    PROVE  UNCHANGED Granted!grantVars
  <1>1. CsidsInPlace
    BY DEF CsidsInPlace
  <1>2. Active' = Active
    BY ActiveKept DEF InductiveInv
  <1>3. Working' = Working
    BY <1>1, WorkingStays
  <1>4. Open' = Open
    BY OpenKept
  <1> QED BY <1>2, <1>3, <1>4, Stutters DEF CodeFor, Issued

\* Steps that move no handler and touch no session.
LEMMA QuietStutters ==
    ASSUME UNCHANGED <<bindings, sent, tokens, codeMeta, sessions, slices, handlers>>
    PROVE  UNCHANGED Granted!grantVars
  <1>1. Active' = Active
    BY DEF Active, SessionsWithCsid, ClientSession, Live
  <1>2. Working' = Working
    BY DEF Working, WorkingFor, ClientSession
  <1>3. Open' = Open
    BY DEF Open, Exchangeable
  <1> QED BY <1>1, <1>2, <1>3, Stutters DEF CodeFor, Issued

LEMMA RefinesAuthorizing ==
    ASSUME InductiveInv, InductiveInv', Authorizing
    PROVE  UNCHANGED Granted!grantVars
  <1>1. PICK req \in ClientRequests :
          \/ AuthorizeRefused(req)
          \/ AuthorizeLoginRequired(req)
          \/ AuthorizeLogin(req)
          \/ \E p \in Handlers, c \in Consents : AuthorizeSSO(p, req, c)
    BY DEF Authorizing, AuthorizeWithCookie, AuthorizeByHint
  <1>2. CASE AuthorizeRefused(req) \/ AuthorizeLoginRequired(req) \/ AuthorizeLogin(req)
    BY <1>2, QuietStutters DEF AuthorizeRefused, AuthorizeLoginRequired, AuthorizeLogin, historyVars
  <1>3. ASSUME NEW p \in Handlers, NEW c \in Consents, AuthorizeSSO(p, req, c)
        PROVE  UNCHANGED Granted!grantVars
    <2>1. TypeOK
      BY DEF InductiveInv
    <2>2. sessions[c] \in session /\ slices' = UpdatedSlices(sessions[c], req)
      BY <1>3, <2>1, LiveType DEF AuthorizeSSO
    <2>3. ASSUME NEW d \in Consents, NEW a \in SUBSET ClientIDs, NEW i \in ClientIDs
          PROVE  slices'[d][a][i].csid = slices[d][a][i].csid
      <3>1. LET before == slices[d][a][i]
                after  == slices'[d][a][i]
            IN  \/ after = before
                \/ /\ i = req.client
                   /\ after.csid = before.csid /\ after.adv = before.adv /\ after.uri = req.uri
                   /\ after.claims = before.claims
        BY <2>1, <2>2, UpdatedSlicesReads
      <3> QED BY <3>1
    <2>4. /\ handlers[p].pc = "idle" /\ handlers'[p].pc = "issue"
          /\ \A q \in Handlers : q # p => handlers'[q] = handlers[q]
      BY <1>3, <2>1 DEF AuthorizeSSO, TypeOK, Idle
    <2>5. WorkingFor(handlers[p])' = 0 /\ WorkingFor(handlers[p]) = 0
      BY <2>4 DEF WorkingFor, Finishing
    <2> QED BY <1>3, <2>3, <2>4, <2>5, HandlerStutters DEF AuthorizeSSO, historyVars
  <1> QED BY <1>1, <1>2, <1>3

\* Logout ends exactly the grants of the session.
LEMMA RefinesEndSession ==
    ASSUME InductiveInv, InductiveInv', NEW c \in Consents, EndSession(c)
    PROVE  Granted!End(c)
  <1>1. /\ UNCHANGED <<bindings, sent, tokens, codeMeta, slices, handlers>>
        /\ sessions'[c] = None /\ \A d \in Consents : d # c => sessions'[d] = sessions[d]
    BY DEF EndSession, InductiveInv, TypeOK, historyVars
  <1>2. ASSUME NEW d \in Consents, NEW i \in ClientIDs, NEW n
        PROVE  Reaches(d, i, n)' <=> Reaches(d, i, n) /\ d # c
    BY <1>1 DEF Reaches, Live, CsidOf
  <1>3. ASSUME NEW d \in Consents, NEW i \in ClientIDs, NEW n \in Consents, Reaches(d, i, n)
        PROVE  bindings[n].cookie = d
    <2>1. bindings[n] = [cookie |-> d, client |-> i, sub |-> sessions[d].sub]
      BY <1>3, ReachedBinding
    <2> QED BY <2>1
  <1>4. SessionInv /\ SessionInv'
    BY DEF InductiveInv
  <1>5. ASSUME NEW n \in Consents
        PROVE  n \in Active' <=> (n \in Active /\ bindings[n].cookie # c)
    <2>1. n \in Active <=> \E d \in Consents, i \in ClientIDs : Reaches(d, i, n)
      BY <1>4, ActiveReached
    <2>2. n \in Active' <=> \E d \in Consents, i \in ClientIDs : Reaches(d, i, n)'
      BY <1>4, ActiveReachedAfter
    <2>3. ASSUME NEW d \in Consents, NEW i \in ClientIDs
          PROVE  Reaches(d, i, n)' <=> Reaches(d, i, n) /\ d # c
      BY <1>2
    <2>4. ASSUME NEW d \in Consents, NEW i \in ClientIDs, Reaches(d, i, n)
          PROVE  bindings[n].cookie = d
      BY <1>3, <2>4
    <2> QED BY <2>1, <2>2, <2>3, <2>4, Zenon
  <1>6. Active' = {n \in Active : bindings[n].cookie # c}
    BY <1>5 DEF Active
  <1>7. CodeFor' = CodeFor /\ Open' = Open /\ Working' = Working /\ Issued' = Issued
    BY <1>1 DEF CodeFor, Open, Exchangeable, Working, WorkingFor, ClientSession, Issued
  <1> QED BY <1>1, <1>6, <1>7 DEF Granted!End, Active, CodeFor, Open, Working, Issued

\* The steps of /approve and /token that only move a handler along.
LEMMA RefinesApproveRead ==
    ASSUME InductiveInv, InductiveInv', NEW p \in Handlers, NEW r \in Requests, ApproveRead(p, r)
    PROVE  UNCHANGED Granted!grantVars
  <1>1. TypeOK
    BY DEF InductiveInv
  <1>2. /\ handlers[p].pc = "idle" /\ handlers'[p].pc = "approve"
        /\ \A q \in Handlers : q # p => handlers'[q] = handlers[q]
        /\ UNCHANGED <<bindings, sent, tokens, codeMeta, sessions, slices>>
    BY <1>1 DEF ApproveRead, TypeOK, Idle, serverVars, historyVars
  <1>3. WorkingFor(handlers[p])' = 0 /\ WorkingFor(handlers[p]) = 0
    BY <1>2 DEF WorkingFor, Finishing
  <1> QED BY <1>2, <1>3, HandlerStutters

LEMMA RefinesReadAdvertisedSub ==
    ASSUME InductiveInv, InductiveInv', NEW p \in Handlers, ReadAdvertisedSub(p)
    PROVE  UNCHANGED Granted!grantVars
  <1>1. TypeOK
    BY DEF InductiveInv
  <1>2. /\ handlers[p].pc = "read" /\ handlers'[p].pc = "claims"
        /\ handlers'[p].sess = handlers[p].sess /\ handlers'[p].client = handlers[p].client
        /\ \A q \in Handlers : q # p => handlers'[q] = handlers[q]
        /\ UNCHANGED <<bindings, sent, tokens, codeMeta, sessions, slices>>
    BY <1>1 DEF ReadAdvertisedSub, TypeOK, serverVars, historyVars
  <1>3. WorkingFor(handlers[p])' = WorkingFor(handlers[p])
    BY <1>2 DEF WorkingFor, ClientSession, Finishing
  <1> QED BY <1>2, <1>3, HandlerStutters

LEMMA RefinesReadClaims ==
    ASSUME InductiveInv, InductiveInv', NEW p \in Handlers, ReadClaims(p)
    PROVE  UNCHANGED Granted!grantVars
  <1>1. TypeOK
    BY DEF InductiveInv
  <1>2. /\ handlers[p].pc = "claims" /\ handlers'[p].pc = "finish"
        /\ handlers'[p].csid = ClientSession(handlers[p].sess, handlers[p].client).csid
        /\ \A q \in Handlers : q # p => handlers'[q] = handlers[q]
        /\ UNCHANGED <<bindings, sent, tokens, codeMeta, sessions, slices>>
    BY <1>1 DEF ReadClaims, ReadCsid, TypeOK, serverVars, historyVars
  <1>3. WorkingFor(handlers[p])' = WorkingFor(handlers[p])
    BY <1>2 DEF WorkingFor, Finishing
  <1> QED BY <1>2, <1>3, HandlerStutters

\* A step that moves one handler and nothing else a grant depends on keeps
\* which grants can be found.
LEMMA HandlerMoves ==
    ASSUME InductiveInv, NEW p \in Handlers,
           UNCHANGED <<bindings, sent, tokens, sessions, slices>>,
           \A q \in Handlers : q # p => handlers'[q] = handlers[q]
    PROVE  /\ Active' = Active /\ CodeFor' = CodeFor /\ Issued' = Issued
           /\ Working' = [Working EXCEPT ![p] = WorkingFor(handlers[p])']
  <1>1. Active' = Active
    BY DEF Active, SessionsWithCsid, ClientSession, Live
  <1>2. Working' = [Working EXCEPT ![p] = WorkingFor(handlers[p])']
    BY UnchangedInPlace, WorkingMoves
  <1> QED BY <1>1, <1>2 DEF CodeFor, Issued

\* token fails PKCE: the request is refused, or had no grant to begin with.
LEMMA RefinesVerifyPKCE ==
    ASSUME InductiveInv, InductiveInv', NEW p \in Handlers, NEW verifier \in Challenges,
           VerifyPKCE(p, verifier)
    PROVE  Granted!Refuse(p) \/ UNCHANGED Granted!grantVars
  <1>1. TypeOK
    BY DEF InductiveInv
  <1>2. /\ handlers[p].pc = "verify"
        /\ \A q \in Handlers : q # p => handlers'[q] = handlers[q]
        /\ UNCHANGED <<bindings, sent, tokens, codeMeta, sessions, slices>>
    BY <1>1 DEF VerifyPKCE, TypeOK, serverVars, historyVars
  <1>3. \/ /\ handlers'[p].pc = "read"
           /\ handlers'[p].sess = handlers[p].sess /\ handlers'[p].client = handlers[p].client
        \/ handlers'[p].pc = "idle"
    BY <1>1 DEF VerifyPKCE, TypeOK, Idle
  <1>4. CASE handlers'[p].pc = "read"
    <2>1. WorkingFor(handlers[p])' = WorkingFor(handlers[p])
      BY <1>2, <1>3, <1>4 DEF WorkingFor, ClientSession, Finishing
    <2> QED BY <1>2, <1>4, <2>1, HandlerStutters
  <1>5. CASE handlers'[p].pc = "idle"
    <2>1. WorkingFor(handlers[p])' = 0
      BY <1>5 DEF WorkingFor, Finishing
    <2>2. CASE WorkingFor(handlers[p]) = 0
      BY <1>2, <1>5, <2>1, <2>2, HandlerStutters
    <2>3. CASE WorkingFor(handlers[p]) # 0
      <3>1. Working[p] # 0 /\ Working' = [Working EXCEPT ![p] = 0]
        BY <1>2, <2>1, <2>3, HandlerMoves DEF Working
      <3>2. Open' = Open
        BY <1>2, <1>5, OpenKept
      <3>3. Active' = Active /\ CodeFor' = CodeFor /\ Issued' = Issued
        BY <1>2, HandlerMoves
      <3> QED BY <1>2, <3>1, <3>2, <3>3 DEF Granted!Refuse, Active, CodeFor, Open, Working, Issued
    <2> QED BY <2>2, <2>3
  <1> QED BY <1>3, <1>4, <1>5

\* refresh_token begins with a grant that a token names and that can be found.
LEMMA RefinesRefreshGrant ==
    ASSUME InductiveInv, InductiveInv', NEW p \in Handlers, NEW t \in tokens, RefreshGrant(p, t)
    PROVE  \E n \in Consents : Granted!BeginWithToken(p, n)
  <1>1. TypeOK
    BY DEF InductiveInv
  <1>2. PICK x \in SessionsWithCsid(t.csid) :
          handlers' = [handlers EXCEPT ![p] =
            [pc |-> "read", code |-> 0, sess |-> sessions[x[1]], client |-> x[2],
             verifier |-> NoChallenge]]
    BY DEF RefreshGrant
  <1>3. /\ handlers[p].pc = "idle" /\ handlers'[p].pc = "read"
        /\ handlers'[p].sess = sessions[x[1]] /\ handlers'[p].client = x[2]
        /\ \A q \in Handlers : q # p => handlers'[q] = handlers[q]
        /\ UNCHANGED <<bindings, sent, tokens, codeMeta, sessions, slices>>
    BY <1>1, <1>2 DEF RefreshGrant, TypeOK, Idle, serverVars, historyVars
  <1>4. t.csid # 0 /\ ClientSession(sessions[x[1]], x[2]).csid = t.csid
    BY <1>2 DEF SessionsWithCsid
  <1>5. t.csid \in Consents
    BY <1>1, <1>4 DEF TypeOK, Token
  <1>6. t.csid \in Active
    BY <1>2, <1>5 DEF Active
  <1>7. Working[p] = 0 /\ WorkingFor(handlers[p])' = t.csid
    BY <1>3, <1>4 DEF Working, WorkingFor, Finishing, ClientSession
  <1>8. /\ Active' = Active /\ CodeFor' = CodeFor /\ Issued' = Issued
        /\ Working' = [Working EXCEPT ![p] = t.csid]
    BY <1>3, <1>7, HandlerMoves
  <1>9. Open' = Open
    BY <1>3, OpenKept
  <1>10. \E u \in Issued : u.grant = t.csid
    <2>1. [grant |-> t.csid, client |-> t.client, sub |-> t.adv.sub] \in Issued
      BY DEF Issued
    <2> QED BY <2>1
  <1>11. Granted!BeginWithToken(p, t.csid)
    BY <1>3, <1>6, <1>7, <1>8, <1>9, <1>10
    DEF Granted!BeginWithToken, Granted!Begin, Active, CodeFor, Open, Working, Issued
  <1> QED BY <1>5, <1>11

\* A code that was taken is still on its way to its grant.
LEMMA RefinesTakeCode ==
    ASSUME InductiveInv, InductiveInv', NEW p \in Handlers, NEW k \in HeldCodes, TakeCode(p, k)
    PROVE  UNCHANGED Granted!grantVars
  <1>1. TypeOK /\ k \in Codes
    BY DEF InductiveInv, HeldCodes
  <1>2. /\ handlers[p].pc = "idle" /\ handlers'[p].pc = "taken" /\ handlers'[p].code = k
        /\ \A q \in Handlers : q # p => handlers'[q] = handlers[q]
        /\ UNCHANGED <<bindings, sent, tokens, sessions, slices>>
        /\ codeMeta[k] # None /\ \A j \in Codes : j # k => codeMeta'[j] = codeMeta[j]
    BY <1>1 DEF TakeCode, CodesAfterTake, TypeOK, Idle, historyVars
  <1>3. WorkingFor(handlers[p])' = 0 /\ WorkingFor(handlers[p]) = 0
    BY <1>2 DEF WorkingFor, Finishing
  <1>4. Working' = Working
    BY <1>2, <1>3, UnchangedInPlace, WorkingStays
  <1>5. ASSUME NEW j \in Codes PROVE Exchangeable(j)' <=> Exchangeable(j)
    BY <1>2 DEF Exchangeable
  <1>6. Open' = Open
    BY <1>5 DEF Open
  <1>7. Active' = Active /\ CodeFor' = CodeFor /\ Issued' = Issued
    BY <1>2, HandlerMoves
  <1> QED BY <1>2, <1>4, <1>6, <1>7, Stutters

\* The session of a code is copied: the code is spent, and the request works
\* for the grant of the code's client in that session, if there is one.
LEMMA RefinesSnapshotSession ==
    ASSUME InductiveInv, InductiveInv', NEW p \in Handlers, SnapshotSession(p)
    PROVE  \E k \in Codes : Granted!SpendCode(k) \/ \E n \in Consents : Granted!BeginWithCode(p, n, k)
  <1>1. TypeOK
    BY DEF InductiveInv
  <1>2. PICK k, cookie, client :
          k = handlers[p].code /\ cookie = handlers[p].meta.cookie /\ client = handlers[p].meta.client
    OBVIOUS
  <1>3. /\ handlers[p].pc = "taken" /\ handlers'[p].pc # "taken"
        /\ \A q \in Handlers : q # p => handlers'[q] = handlers[q]
        /\ UNCHANGED <<bindings, sent, tokens, codeMeta, sessions, slices>>
        /\ \/ ~Live(cookie) /\ handlers'[p].pc = "idle"
           \/ /\ Live(cookie) /\ handlers'[p].pc = "verify"
              /\ handlers'[p].sess = sessions[cookie] /\ handlers'[p].client = client
    BY <1>1, <1>2 DEF SnapshotSession, TypeOK, Idle, serverVars, historyVars
  <1>4. k \in Codes /\ k # 0 /\ cookie \in Consents /\ client \in ClientIDs
    <2>1. handlers[p] \in TakenState
      BY <1>1, <1>3, HandlerTypes
    <2> QED BY <1>2, <2>1 DEF TakenState, codeMetadataEntry, Codes
  <1>5. sent[k] # None /\ sent[k].cookie = cookie /\ sent[k].req.client = client /\ codeMeta[k] = None
    BY <1>2, <1>3, <1>4 DEF InductiveInv, HandlerInv, HandlerOK, GrantOK
  <1>6. k \in Open /\ Open' = Open \ {k}
    <2>1. k \in Open
      BY <1>2, <1>3, <1>4 DEF Open, Exchangeable
    <2>2. ASSUME NEW q \in Handlers, handlers[q].pc = "taken", handlers[q].code = k PROVE q = p
      BY <1>2, <1>3, <1>4, <2>2 DEF InductiveInv, CodeInv, Holds
    <2>3. ~Exchangeable(k)'
      BY <1>3, <1>5, <2>2 DEF Exchangeable
    <2>4. ASSUME NEW j \in Codes, j # k PROVE Exchangeable(j)' <=> Exchangeable(j)
      BY <1>2, <1>3, <2>4 DEF Exchangeable
    <2> QED BY <2>1, <2>3, <2>4 DEF Open
  <1>7. Working[p] = 0 /\ CodeFor[k] = [cookie |-> cookie, client |-> client]
    BY <1>3, <1>4, <1>5 DEF Working, WorkingFor, Finishing, CodeFor
  <1>8. /\ Active' = Active /\ CodeFor' = CodeFor /\ Issued' = Issued
        /\ Working' = [Working EXCEPT ![p] = WorkingFor(handlers[p])']
    BY <1>3, HandlerMoves
  <1>9. CASE Live(cookie) /\ client \in sessions[cookie].ids
    <2>1. PICK n : n = CsidOf(cookie, client)
      OBVIOUS
    <2>2. Reaches(cookie, client, n)
      BY <1>9, <2>1 DEF Reaches
    <2>3. n \in Consents /\ bindings[n] = [cookie |-> cookie, client |-> client, sub |-> sessions[cookie].sub]
      BY <1>4, <2>2, ReachedBinding
    <2>4. n \in Active
      BY <1>4, <2>2, <2>3, ActiveReached DEF InductiveInv
    <2>5. WorkingFor(handlers[p])' = n
      <3>1. sessions[cookie].cookie = cookie
        BY <1>4, <1>9 DEF InductiveInv, SessionInv
      <3> QED BY <1>3, <1>9, <2>1, <3>1 DEF WorkingFor, ClientSession, CsidOf
    <2>6. Working' = [Working EXCEPT ![p] = n]
      BY <1>8, <2>5
    <2>7. bindings[n].cookie = CodeFor[k].cookie /\ bindings[n].client = CodeFor[k].client
      BY <1>7, <2>3
    <2>8. Granted!BeginWithCode(p, n, k)
      BY <1>3, <1>6, <1>7, <1>8, <2>4, <2>6, <2>7
      DEF Granted!BeginWithCode, Granted!Begin, Active, CodeFor, Open, Working, Issued
    <2> QED BY <1>4, <2>3, <2>8
  <1>10. CASE ~(Live(cookie) /\ client \in sessions[cookie].ids)
    <2>1. WorkingFor(handlers[p])' = 0
      BY <1>3, <1>10 DEF WorkingFor, Finishing, ClientSession, NoClientSession
    <2>2. Working' = Working
      BY <1>7, <1>8, <2>1 DEF Working
    <2>3. Granted!SpendCode(k)
      BY <1>3, <1>6, <1>8, <2>2 DEF Granted!SpendCode, Active, CodeFor, Open, Working, Issued
    <2> QED BY <1>4, <2>3
  <1> QED BY <1>9, <1>10

LEMMA RefinesIssueCode ==
    ASSUME InductiveInv, InductiveInv', NEW p \in Handlers, NEW k \in Codes, issueCodeAndRedirect(p, k)
    PROVE  \E cookie \in Consents, client \in ClientIDs : Granted!IssueCode(k, cookie, client)
  <1>1. TypeOK
    BY DEF InductiveInv
  <1>2. PICK cookie, client : cookie = handlers[p].sess.cookie /\ client = handlers[p].req.client
    OBVIOUS
  <1>3. /\ handlers[p].pc = "issue" /\ handlers'[p].pc = "idle"
        /\ \A q \in Handlers : q # p => handlers'[q] = handlers[q]
        /\ UNCHANGED <<bindings, tokens, sessions, slices>>
        /\ sent[k] = None /\ sent'[k].cookie = cookie /\ sent'[k].req.client = client
        /\ codeMeta'[k] = [cookie |-> cookie, client |-> client]
        /\ \A j \in Codes : j # k => codeMeta'[j] = codeMeta[j] /\ sent'[j] = sent[j]
    BY <1>1, <1>2 DEF issueCodeAndRedirect, TypeOK, Idle
  <1>4. cookie \in Consents /\ client \in ClientIDs
    <2>1. handlers[p] \in IssueState
      BY <1>1, <1>3, HandlerTypes
    <2> QED BY <1>2, <2>1 DEF IssueState, session, AuthorizeRequest
  <1>5. codeMeta'[k] # None /\ sent'[k] # None
    <2>1. codeMeta'[k] \in codeMetadataEntry
      BY <1>3, <1>4 DEF codeMetadataEntry
    <2>2. sent'[k] \in Redirect
      BY <1>1, TypeIssueCode
    <2> QED BY <2>1, <2>2, NoneAssumption
  <1>6. Open' = Open \cup {k}
    <2>1. Exchangeable(k)'
      BY <1>5 DEF Exchangeable
    <2>2. ASSUME NEW j \in Codes, j # k PROVE Exchangeable(j)' <=> Exchangeable(j)
      BY <1>3, <2>2 DEF Exchangeable
    <2> QED BY <2>1, <2>2 DEF Open
  <1>7. CodeFor[k] = None /\ CodeFor' = [CodeFor EXCEPT ![k] = [cookie |-> cookie, client |-> client]]
    <2>1. CodeFor'[k] = [cookie |-> cookie, client |-> client]
      BY <1>3, <1>5 DEF CodeFor
    <2>2. \A j \in Codes : j # k => CodeFor'[j] = CodeFor[j]
      BY <1>3 DEF CodeFor
    <2>3. CodeFor[k] = None
      BY <1>3 DEF CodeFor
    <2> QED BY <2>1, <2>2, <2>3 DEF CodeFor
  <1>8. Working' = Working
    <2>1. WorkingFor(handlers[p])' = 0 /\ WorkingFor(handlers[p]) = 0
      BY <1>3 DEF WorkingFor, Finishing
    <2> QED BY <1>3, <2>1, UnchangedInPlace, WorkingStays
  <1>9. Active' = Active /\ Issued' = Issued
    BY <1>3 DEF Active, SessionsWithCsid, ClientSession, Live, Issued
  <1>10. Granted!IssueCode(k, cookie, client)
    BY <1>3, <1>6, <1>7, <1>8, <1>9 DEF Granted!IssueCode, Active, CodeFor, Open, Working, Issued
  <1> QED BY <1>4, <1>10

\* A request whose client is being authenticated keeps its grant, or is refused.
LEMMA FinishingRefines ==
    ASSUME InductiveInv, InductiveInv', NEW p \in Handlers, handlers[p].pc \in Finishing,
           UNCHANGED <<codeMeta, sessions, slices, sent, tokens, bindings>>,
           \A q \in Handlers : q # p => handlers'[q] = handlers[q],
           \/ handlers'[p].pc \in {"resolve", "granted"} /\ handlers'[p].csid = handlers[p].csid
           \/ handlers'[p] = Idle
    PROVE  UNCHANGED Granted!grantVars \/ Granted!Refuse(p)
  <1>1. handlers[p].pc # "taken" /\ WorkingFor(handlers[p]) = handlers[p].csid
    BY DEF WorkingFor, Finishing
  <1>2. CASE handlers'[p].pc \in {"resolve", "granted"} /\ handlers'[p].csid = handlers[p].csid
    <2>1. WorkingFor(handlers[p])' = handlers[p].csid
      BY <1>2 DEF WorkingFor, Finishing
    <2> QED BY <1>1, <1>2, <2>1, HandlerStutters
  <1>3. CASE handlers'[p] = Idle
    <2>1. handlers'[p].pc # "taken" /\ WorkingFor(handlers[p])' = 0
      BY <1>3 DEF WorkingFor, Idle, Finishing
    <2>2. handlers[p].csid # 0
      BY DEF InductiveInv, HandlerInv, HandlerOK
    <2>3. Working[p] # 0 /\ Working' = [Working EXCEPT ![p] = 0]
      BY <1>1, <2>1, <2>2, HandlerMoves DEF Working
    <2>4. Open' = Open
      BY <1>1, <2>1, OpenKept
    <2>5. Active' = Active /\ CodeFor' = CodeFor /\ Issued' = Issued
      BY HandlerMoves
    <2> QED BY <2>3, <2>4, <2>5 DEF Granted!Refuse, Active, CodeFor, Open, Working, Issued
  <1> QED BY <1>2, <1>3

\* ... which is all that authenticateClient does with it.
LEMMA RefinesAuthentication ==
    ASSUME InductiveInv, InductiveInv', NEW p \in Handlers, NEW cred \in ClientIDs,
           Authenticating(p, cred)
    PROVE  UNCHANGED Granted!grantVars \/ Granted!Refuse(p)
  <1>1. TypeOK
    BY DEF InductiveInv
  <1>2. UNCHANGED <<codeMeta, sessions, slices, sent, tokens, bindings>>
    BY DEF Authenticating, AuthenticateRegistered, ReadMetadataRegistration, ResolveMetadata,
           serverVars, historyVars
  <1> QED BY <1>1, <1>2, AuthenticationMoves, FinishingRefines

\* The tokens of a response are those of the grant the request works for.
LEMMA RefinesIssueTokens ==
    ASSUME InductiveInv, InductiveInv', NEW p \in Handlers, IssueTokens(p)
    PROVE  Granted!IssueTokens(p)
  <1>1. TypeOK
    BY DEF InductiveInv
  <1>2. PICK hp : hp = handlers[p]
    OBVIOUS
  <1>3. hp.pc = "granted" /\ hp.pc \in Finishing /\ hp \in FinishState
    BY <1>1, <1>2, HandlerTypes DEF IssueTokens, Finishing
  <1>4. /\ handlers'[p].pc = "idle" /\ \A q \in Handlers : q # p => handlers'[q] = handlers[q]
        /\ UNCHANGED <<codeMeta, sessions, sent, bindings>>
        /\ slices' = WrittenBack(hp) /\ tokens' = tokens \cup {IssuedTokens(hp)}
    BY <1>1, <1>2 DEF IssueTokens, TypeOK, Idle
  <1>5. /\ hp.csid # 0
        /\ bindings[hp.csid] = [cookie |-> hp.cookie, client |-> hp.client, sub |-> hp.adv.sub]
    BY <1>2, <1>3 DEF InductiveInv, HandlerInv, HandlerOK
  <1>6. ASSUME NEW c \in Consents, NEW a \in SUBSET ClientIDs, NEW i \in ClientIDs
        PROVE  slices'[c][a][i].csid = slices[c][a][i].csid
    <2>1. LET after == WrittenBack(hp)[c][a][i]
          IN  after = slices[c][a][i] \/ after.csid = slices[c][a][i].csid
      BY <1>1, <1>3, WrittenBackEntries, Zenon
    <2> QED BY <1>4, <2>1
  <1>7. Active' = Active
    BY <1>1, <1>4, <1>6, ActiveKept DEF InductiveInv
  <1>8. Working[p] = hp.csid /\ Working' = [Working EXCEPT ![p] = 0]
    <2>1. WorkingFor(handlers[p])' = 0 /\ WorkingFor(handlers[p]) = hp.csid
      BY <1>2, <1>3, <1>4 DEF WorkingFor, Finishing
    <2>2. CsidsInPlace
      BY <1>6 DEF CsidsInPlace
    <2>3. Working' = [Working EXCEPT ![p] = WorkingFor(handlers[p])']
      BY <1>4, <2>2, WorkingMoves
    <2> QED BY <2>1, <2>3 DEF Working
  <1>9. CodeFor' = CodeFor /\ Open' = Open
    <2>1. Open' = Open
      BY <1>2, <1>3, <1>4, OpenKept
    <2> QED BY <1>4, <2>1 DEF CodeFor
  <1>10. PICK u : u = [grant |-> hp.csid, client |-> hp.client, sub |-> hp.adv.sub]
    OBVIOUS
  <1>11. Issued' = Issued \cup {u}
    <2>1. PICK t : t = IssuedTokens(hp)
      OBVIOUS
    <2>2. [grant |-> t.csid, client |-> t.client, sub |-> t.adv.sub] = u
      BY <1>10, <2>1 DEF IssuedTokens
    <2>3. tokens' = tokens \cup {t}
      BY <1>4, <2>1
    <2> QED BY <2>2, <2>3 DEF Issued
  <1>12. u = [grant |-> hp.csid, client |-> bindings[hp.csid].client, sub |-> bindings[hp.csid].sub]
    BY <1>5, <1>10
  <1> QED BY <1>4, <1>5, <1>7, <1>8, <1>9, <1>11, <1>12
          DEF Granted!IssueTokens, Active, CodeFor, Open, Working, Issued

\* After an approval the grants that were reached still are, and so is the one
\* it gave, if it gave one.
LEMMA ReachedAfterCommit ==
    ASSUME InductiveInv, NEW client \in ClientIDs, NEW sub, NEW old, FoundOK(sub, old),
           Committed(client, old), NEW d \in Consents, NEW i \in ClientIDs, NEW n
    PROVE  Reaches(d, i, n)' <=>
             \/ Reaches(d, i, n)
             \/ client \notin old.ids /\ d = old.cookie /\ i = client /\ n = nConsents + 1
  <1>1. TypeOK
    BY DEF InductiveInv
  <1>2. CASE d # old.cookie
    <2>1. sessions'[d] = sessions[d]
      BY <1>2 DEF Committed
    <2>2. Live(d) => sessions[d].arr \in SUBSET ClientIDs
      BY <1>1, LiveType DEF session
    <2>3. Live(d) => CsidOf(d, i)' = CsidOf(d, i)
      BY <1>2, <2>1, <2>2 DEF CsidOf, Committed
    <2> QED BY <1>2, <2>1, <2>3 DEF Reaches, Live
  <1>3. CASE d = old.cookie
    <2>1. Live(d)' /\ sessions'[d].ids = old.ids \cup {client}
      BY <1>3 DEF Committed, Live
    <2>2. CsidOf(d, i)' = IF i = client /\ client \notin old.ids THEN nConsents + 1
                          ELSE slices[old.cookie][old.arr][i].csid
      BY <1>3 DEF Committed
    <2>3. CASE i \in old.ids
      <3>1. Live(d) /\ sessions[d] = old
        BY <1>3, <2>3 DEF FoundOK
      <3> QED BY <1>3, <2>1, <2>2, <2>3, <3>1 DEF Reaches, CsidOf
    <2>4. CASE i \notin old.ids
      <3>1. ~Reaches(d, i, n)
        BY <1>3, <2>4 DEF FoundOK, Reaches
      <3> QED BY <1>3, <2>1, <2>2, <2>4, <3>1 DEF Reaches
    <2> QED BY <2>3, <2>4
  <1> QED BY <1>2, <1>3

\* An approval gives a new grant, or renews the one there is.
LEMMA RefinesApproveCommit ==
    ASSUME InductiveInv, InductiveInv', NEW p \in Handlers, ApproveCommit(p)
    PROVE  \/ UNCHANGED Granted!grantVars
           \/ \E n \in Consents, cookie \in Consents, client \in ClientIDs, sub \in Subs :
                Granted!Consent(n, cookie, client, sub)
  <1>1. TypeOK /\ SessionInv /\ SessionInv'
    BY DEF InductiveInv
  <1>2. PICK client, sub : client = handlers[p].ctx.req.client /\ sub = handlers[p].ctx.sub
    OBVIOUS
  <1>3. PICK old \in FoundOrNewSession(sub), edited \in {OfferedSub(handlers[p].ctx)} \cup EditedSubs :
          /\ CommitConsent(p, handlers[p].ctx, old, edited)
          /\ client \in ClientIDs /\ sub \in Subs
          /\ FoundOK(sub, old)
          /\ Committed(client, old) /\ CsidsInPlace
    BY <1>2, ApproveCommitReads
  <1>4. PICK fresh : fresh = nConsents + 1
    OBVIOUS
  <1>5. fresh \in Consents /\ bindings[fresh] = None /\ old.cookie \in Consents
    <2>1. old \in session
      BY <1>3 DEF FoundOK
    <2> QED BY <1>3, <1>4, <2>1 DEF Committed, session
  <1>6. /\ handlers[p].pc = "approve" /\ handlers'[p].pc = "issue"
        /\ \A q \in Handlers : q # p => handlers'[q] = handlers[q]
        /\ UNCHANGED <<codeMeta, sent, tokens>>
    BY <1>1, <1>3 DEF ApproveCommit, CommitConsent, TypeOK
  <1>7. /\ client \in old.ids => bindings' = bindings
        /\ client \notin old.ids =>
             bindings' = [bindings EXCEPT ![fresh] = [cookie |-> old.cookie, client |-> client, sub |-> sub]]
    BY <1>2, <1>3, <1>4 DEF CommitConsent, ConsentedClientSession, NewSessionID
  <1>8. Working' = Working
    <2>1. WorkingFor(handlers[p])' = 0 /\ WorkingFor(handlers[p]) = 0
      BY <1>6 DEF WorkingFor, Finishing
    <2> QED BY <1>3, <1>6, <2>1, WorkingStays
  <1>9. Open' = Open /\ CodeFor' = CodeFor /\ Issued' = Issued
    <2>1. Open' = Open
      BY <1>6, OpenKept
    <2> QED BY <1>6, <2>1 DEF CodeFor, Issued
  <1>10. ASSUME NEW d \in Consents, NEW i \in ClientIDs, NEW n
         PROVE  Reaches(d, i, n)' <=>
                  \/ Reaches(d, i, n)
                  \/ client \notin old.ids /\ d = old.cookie /\ i = client /\ n = fresh
    BY <1>3, <1>4, ReachedAfterCommit
  <1>11. ASSUME NEW n \in Consents
         PROVE  n \in Active' <=> n \in Active \/ (client \notin old.ids /\ n = fresh)
    <2>1. n \in Active <=> \E d \in Consents, i \in ClientIDs : Reaches(d, i, n)
      BY <1>1, ActiveReached
    <2>2. n \in Active' <=> \E d \in Consents, i \in ClientIDs : Reaches(d, i, n)'
      BY <1>1, ActiveReachedAfter
    <2> QED BY <1>3, <1>5, <1>10, <2>1, <2>2
  <1>12. CASE client \in old.ids
    <2>1. Active' = Active
      BY <1>11, <1>12 DEF Active
    <2> QED BY <1>7, <1>8, <1>9, <1>12, <2>1, Stutters
  <1>13. CASE client \notin old.ids
    <2>1. Active' = Active \cup {fresh}
      BY <1>5, <1>11, <1>13 DEF Active
    <2>2. ASSUME NEW m \in Active
          PROVE  /\ bindings[m].sub = sub <=> bindings[m].cookie = old.cookie
                 /\ bindings[m].cookie = old.cookie => bindings[m].client # client
      <3>1. m \in Consents
        BY DEF Active
      <3>2. PICK c \in Consents, i \in ClientIDs : Reaches(c, i, m)
        BY <1>1, <3>1, ActiveReached
      <3>3. bindings[m] = [cookie |-> c, client |-> i, sub |-> sessions[c].sub]
        BY <3>2, ReachedBinding
      <3>4. Live(c) /\ i \in sessions[c].ids
        BY <3>2 DEF Reaches
      <3>5. sessions[c].sub = sub => c = old.cookie
        BY <1>3, <3>4 DEF FoundOK
      <3>6. c = old.cookie => sessions[c] = old /\ old.sub = sub
        BY <1>3, <3>4 DEF FoundOK
      <3>7. bindings[m].cookie = c /\ bindings[m].client = i /\ bindings[m].sub = sessions[c].sub
        BY <3>3
      <3> QED BY <1>13, <3>4, <3>5, <3>6, <3>7
    <2>3. Granted!Consent(fresh, old.cookie, client, sub)
      BY <1>5, <1>7, <1>8, <1>9, <1>13, <2>1, <2>2
      DEF Granted!Consent, Active, CodeFor, Open, Working, Issued
    <2> QED BY <1>3, <1>5, <2>3
  <1> QED BY <1>12, <1>13

LEMMA RefinesInit == Init => Granted!GInit
  <1> SUFFICES ASSUME Init PROVE Granted!GInit
    OBVIOUS
  <1>1. Active = {}
    BY DEF Init, Active, SessionsWithCsid, Live
  <1>2. CodeFor = [k \in Codes |-> None] /\ Issued = {}
    BY DEF Init, CodeFor, Issued
  <1>3. Open = {}
    BY DEF Init, Open, Exchangeable, Idle
  <1>4. Working = [p \in Handlers |-> 0]
    BY DEF Init, Working, WorkingFor, Finishing, Idle
  <1>5. bindings = [n \in Consents |-> None]
    BY DEF Init
  <1> QED BY <1>1, <1>2, <1>3, <1>4, <1>5 DEF Granted!GInit, Active, CodeFor, Open, Working, Issued

\* Every step of the server is one of the grants or changes none of them.
LEMMA RefinesNext ==
    ASSUME InductiveInv, InductiveInv', [Next]_vars
    PROVE  [Granted!GNext]_(Granted!grantVars)
  <1>1. CASE Registering
    BY <1>1, QuietStutters DEF Registering, Register, historyVars
  <1>2. CASE Authorizing
    BY <1>2, RefinesAuthorizing
  <1>3. CASE \E r \in Requests, user \in Users : login(r, user)
    BY <1>3, QuietStutters DEF login, historyVars
  <1>4. CASE Approving
    <2>1. PICK p \in Handlers :
            \/ \E r \in Requests : ApproveRead(p, r)
            \/ ApproveCommit(p)
            \/ \E k \in Codes : issueCodeAndRedirect(p, k)
      BY <1>4 DEF Approving
    <2>2. CASE \E r \in Requests : ApproveRead(p, r)
      BY <2>2, RefinesApproveRead
    <2>3. CASE ApproveCommit(p)
      BY <2>3, RefinesApproveCommit DEF Granted!GNext
    <2>4. CASE \E k \in Codes : issueCodeAndRedirect(p, k)
      BY <2>4, RefinesIssueCode DEF Granted!GNext
    <2> QED BY <2>1, <2>2, <2>3, <2>4
  <1>5. CASE Exchanging
    <2>1. PICK p \in Handlers :
            \/ \E k \in HeldCodes : TakeCode(p, k)
            \/ SnapshotSession(p)
            \/ \E verifier \in Challenges : VerifyPKCE(p, verifier)
            \/ \E t \in tokens : RefreshGrant(p, t)
            \/ ReadAdvertisedSub(p)
            \/ ReadClaims(p)
            \/ \E cred \in ClientIDs : AuthenticateRegistered(p, cred) \/ ResolveMetadata(p, cred)
            \/ ReadMetadataRegistration(p)
            \/ IssueTokens(p)
      BY <1>5 DEF Exchanging
    <2>2. CASE (\E k \in HeldCodes : TakeCode(p, k)) \/ ReadAdvertisedSub(p) \/ ReadClaims(p)
      BY <2>2, RefinesTakeCode, RefinesReadAdvertisedSub, RefinesReadClaims
    <2>3. CASE SnapshotSession(p)
      BY <2>3, RefinesSnapshotSession DEF Granted!GNext
    <2>4. CASE \E verifier \in Challenges : VerifyPKCE(p, verifier)
      BY <2>4, RefinesVerifyPKCE DEF Granted!GNext
    <2>5. CASE \E t \in tokens : RefreshGrant(p, t)
      BY <2>5, RefinesRefreshGrant DEF Granted!GNext
    <2>6. CASE \/ \E cred \in ClientIDs : AuthenticateRegistered(p, cred) \/ ResolveMetadata(p, cred)
               \/ ReadMetadataRegistration(p)
      <3>1. NoClient \in ClientIDs
        BY DEF ClientIDs
      <3>2. UNCHANGED Granted!grantVars \/ Granted!Refuse(p)
        BY <2>6, <3>1, RefinesAuthentication DEF Authenticating
      <3> QED BY <3>2 DEF Granted!GNext
    <2>7. CASE IssueTokens(p)
      BY <2>7, RefinesIssueTokens DEF Granted!GNext
    <2> QED BY <2>1, <2>2, <2>3, <2>4, <2>5, <2>6, <2>7
  <1>6. CASE \E c \in Consents : EndSession(c)
    BY <1>6, RefinesEndSession DEF Granted!GNext
  <1>7. CASE UNCHANGED vars
    BY <1>7, QuietStutters DEF vars, serverVars, historyVars
  <1> QED BY <1>1, <1>2, <1>3, <1>4, <1>5, <1>6, <1>7 DEF Next

\* The server, with its critical sections, copied sessions and shared arrays,
\* does with grants, codes and tokens only what Grants allows.
THEOREM GrantsRefinement == Spec => ImplementsGrants
  <1>1. InductiveInv /\ InductiveInv' /\ [Next]_vars => [Granted!GNext]_(Granted!grantVars)
    BY RefinesNext
  <1> QED BY <1>1, RefinesInit, Invariance, PTL DEF Spec, ImplementsGrants, Granted!GSpec

\* A grant that was given, cannot be found and has nobody at work for it.
LEMMA RevokedIs ==
    ASSUME NEW n \in Consents
    PROVE  /\ Granted!Revoked(n) <=>
                bindings[n] # None /\ n \notin Active /\ \A p \in Handlers : Working[p] # n
           /\ Granted!Revoked(n)' <=>
                bindings'[n] # None /\ n \notin Active' /\ \A p \in Handlers : Working'[p] # n
  BY DEF Granted!Revoked, Active, Working

\* No step that Grants allows changes that, or issues tokens for it.
LEMMA RevokedStays ==
    ASSUME TypeOK, Granted!GNext, NEW n \in Consents, Granted!Revoked(n)
    PROVE  Granted!Revoked(n)' /\ \A t \in Issued' \ Issued : t.grant # n
  <1>1. bindings[n] # None /\ n \notin Active /\ \A p \in Handlers : Working[p] # n
    BY RevokedIs
  <1>2. n # 0
    BY DEF Consents
  <1>3. DOMAIN bindings = Consents /\ Working = [p \in Handlers |-> Working[p]]
    BY DEF TypeOK, Working
  <1> SUFFICES /\ bindings'[n] # None /\ n \notin Active' /\ \A p \in Handlers : Working'[p] # n
               /\ \A t \in Issued' \ Issued : t.grant # n
    BY RevokedIs
  <1>4. ASSUME NEW m \in Consents, NEW cookie \in Consents, NEW client \in ClientIDs, NEW sub \in Subs,
               Granted!Consent(m, cookie, client, sub)
        PROVE  /\ bindings'[n] # None /\ n \notin Active' /\ Working' = Working /\ Issued' = Issued
    <2>1. /\ bindings[m] = None /\ Active' = Active \cup {m} /\ Working' = Working /\ Issued' = Issued
          /\ bindings' = [bindings EXCEPT ![m] = [cookie |-> cookie, client |-> client, sub |-> sub]]
      BY <1>4 DEF Granted!Consent, Active, Working, Issued
    <2>2. m # n
      BY <1>1, <2>1
    <2> QED BY <1>1, <1>3, <2>1, <2>2
  <1>5. ASSUME NEW cookie \in Consents, Granted!End(cookie)
        PROVE  bindings' = bindings /\ n \notin Active' /\ Working' = Working /\ Issued' = Issued
    <2>1. /\ Active' = {m \in Active : bindings[m].cookie # cookie}
          /\ bindings' = bindings /\ Working' = Working /\ Issued' = Issued
      BY <1>5 DEF Granted!End, Active, Working, Issued
    <2> QED BY <1>1, <2>1
  <1>6. ASSUME NEW p \in Handlers, NEW m \in Consents, Granted!Begin(p, m)
        PROVE  /\ bindings' = bindings /\ Active' = Active /\ Issued' = Issued
               /\ \A q \in Handlers : Working'[q] # n
    <2>1. /\ m \in Active /\ Working' = [Working EXCEPT ![p] = m]
          /\ bindings' = bindings /\ Active' = Active /\ Issued' = Issued
      BY <1>6 DEF Granted!Begin, Active, Working, Issued
    <2> QED BY <1>1, <1>3, <2>1
  <1>7. ASSUME NEW p \in Handlers, Granted!IssueTokens(p) \/ Granted!Refuse(p)
        PROVE  /\ bindings' = bindings /\ Active' = Active
               /\ \A q \in Handlers : Working'[q] # n
               /\ \A t \in Issued' \ Issued : t.grant # n
    <2>1. /\ Working' = [Working EXCEPT ![p] = 0] /\ bindings' = bindings /\ Active' = Active
          /\ \/ Issued' = Issued
             \/ \E client, sub : Issued' = Issued \cup {[grant |-> Working[p], client |-> client, sub |-> sub]}
      BY <1>7 DEF Granted!IssueTokens, Granted!Refuse, Active, Working, Issued
    <2>2. \A q \in Handlers : Working'[q] # n
      BY <1>1, <1>2, <1>3, <2>1
    <2>3. \A t \in Issued' \ Issued : t.grant # n
      BY <1>1, <2>1
    <2> QED BY <2>1, <2>2, <2>3
  <1>8. CASE \E k \in Codes : \/ \E cookie \in Consents, client \in ClientIDs : Granted!IssueCode(k, cookie, client)
                              \/ Granted!SpendCode(k)
    <2>1. bindings' = bindings /\ Active' = Active /\ Working' = Working /\ Issued' = Issued
      BY <1>8 DEF Granted!IssueCode, Granted!SpendCode, Active, Working, Issued
    <2> QED BY <1>1, <2>1
  <1>9. CASE \E p \in Handlers, m \in Consents : Granted!Begin(p, m)
    BY <1>1, <1>6, <1>9
  <1>10. CASE \E m \in Consents, cookie \in Consents, client \in ClientIDs, sub \in Subs :
                Granted!Consent(m, cookie, client, sub)
    BY <1>1, <1>4, <1>10
  <1>11. CASE \E cookie \in Consents : Granted!End(cookie)
    BY <1>1, <1>5, <1>11
  <1>12. CASE \E p \in Handlers : Granted!IssueTokens(p) \/ Granted!Refuse(p)
    BY <1>1, <1>7, <1>12
  <1> QED BY <1>8, <1>9, <1>10, <1>11, <1>12
          DEF Granted!GNext, Granted!BeginWithToken, Granted!BeginWithCode

\* After logout, once the token requests that were at work are answered, none of
\* the session's grants yields a token again: a consequence of implementing
\* Grants.
THEOREM RevokedStaysRevoked == Spec => RevokedGrantsStayRevoked
  <1>1. InductiveInv /\ [Granted!GNext]_(Granted!grantVars) =>
          [\A n \in Consents :
             Granted!Revoked(n) =>
               Granted!Revoked(n)' /\ \A t \in Issued' \ Issued : t.grant # n]_(Granted!grantVars)
    BY RevokedStays DEF InductiveInv
  <1> QED BY <1>1, GrantsRefinement, Invariance, PTL
          DEF ImplementsGrants, Granted!GSpec, RevokedGrantsStayRevoked, Granted!RevokedForGood, Issued
=============================================================================
