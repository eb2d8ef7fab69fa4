------------------------ MODULE AuthServerSafetyProofs ------------------------
(***************************************************************************)
(* The safety properties of AuthServer, proved from InductiveInv.           *)
(*                                                                          *)
(* The argument has two halves.  Every step only lets the server evolve:    *)
(* dynamic registrations, bindings of a csid, issued codes and the elements *)
(* of client session arrays are never rebound (Evolves).  Whatever held of  *)
(* a request, a session copy, a grant or a handler before such a step holds *)
(* after it (the ...Kept lemmas); what remains for each action is the one   *)
(* thing it adds.                                                           *)
(***************************************************************************)
EXTENDS AuthServerProofs

DynamicKept  == \A i \in DynamicClients : clients[i] # None => clients'[i] = clients[i]
BindingsKept == \A n \in Consents : bindings[n] # None => bindings'[n] = bindings[n]
EntriesKept  == \A c \in Consents, a \in SUBSET ClientIDs, i \in ClientIDs :
                    slices[c][a][i].csid # 0 =>
                        /\ slices'[c][a][i].csid = slices[c][a][i].csid
                        /\ slices'[c][a][i].adv.sub = slices[c][a][i].adv.sub
SessionsKept == \A c \in Consents :
                    sessions'[c] # None =>
                        \/ c > nConsents
                        \/ sessions[c] # None /\ sessions[c].ids \subseteq sessions'[c].ids
CodesKept    == \A k \in Codes :
                    sent[k] # None => /\ sent'[k] = sent[k]
                                      /\ codeMeta[k] = None => codeMeta'[k] = None

Evolves == DynamicKept /\ BindingsKept /\ EntriesKept /\ SessionsKept /\ CodesKept /\ nConsents <= nConsents'

-----------------------------------------------------------------------------
(* What evolution keeps. *)

\* An accepted request stays accepted.
LEMMA RequestOKKept ==
    ASSUME Evolves, NEW req, RequestOK(req)
    PROVE  RequestOK(req)'
  BY DEF Evolves, DynamicKept, RequestOK

\* A copy of a session stays usable however the original evolves, or ends.
LEMMA SessionOKKept ==
    ASSUME TypeOK, TypeOK', Evolves, NEW sess \in session, SessionOK(sess)
    PROVE  SessionOK(sess)'
  <1>1. sess.cookie \in Consents /\ sess.arr \in SUBSET ClientIDs /\ sess.ids \in SUBSET ClientIDs
    BY DEF session
  <1>2. sess.cookie \in Int /\ nConsents \in Int /\ nConsents' \in Int
    BY <1>1 DEF TypeOK, Consents
  <1>3. Live(sess.cookie)' => sess.ids \subseteq sessions'[sess.cookie].ids
    BY <1>1, <1>2 DEF SessionOK, Evolves, SessionsKept, Live
  <1>4. ASSUME NEW i \in sess.ids
        PROVE  /\ slices'[sess.cookie][sess.arr][i].csid # 0
               /\ slices'[sess.cookie][sess.arr][i].adv.sub = sess.sub
    BY <1>1 DEF SessionOK, Evolves, EntriesKept
  <1> QED BY <1>2, <1>3, <1>4 DEF SessionOK, Evolves

\* A taken code stays tied to the session and client it was issued for.
LEMMA GrantOKKept ==
    ASSUME Evolves, NEW k \in Codes \cup {0}, NEW cookie, NEW client,
           GrantOK(k, cookie, client), k # 0 => uses'[k] = uses[k]
    PROVE  GrantOK(k, cookie, client)'
  BY DEF GrantOK, Evolves, CodesKept

\* A handler that does not move stays consistent.
LEMMA HandlerOKKept ==
    ASSUME TypeOK, TypeOK', Evolves, NEW hp \in HandlerState, HandlerOK(hp),
           hp.pc \in {"taken", "verify", "read", "claims"} \cup Finishing /\ hp.code # 0 => uses'[hp.code] = uses[hp.code]
    PROVE  HandlerOK(hp)'
  <1>1. CASE hp = Idle
    BY <1>1 DEF Idle, HandlerOK, Finishing
  <1>2. CASE hp \in ApproveState
    BY <1>2, RequestOKKept DEF ApproveState, HandlerOK, Finishing
  <1>3. CASE hp \in IssueState
    BY <1>3, RequestOKKept, SessionOKKept DEF IssueState, HandlerOK, Finishing
  <1>4. CASE hp \in TakenState
    BY <1>4, GrantOKKept DEF TakenState, HandlerOK, Finishing
  <1>5. CASE hp \in VerifyState
    BY <1>5, GrantOKKept, SessionOKKept DEF VerifyState, HandlerOK, Finishing
  <1>6. CASE hp \in ReadState
    BY <1>6, GrantOKKept, SessionOKKept DEF ReadState, HandlerOK, Finishing
  <1>7. CASE hp \in FinishState
    <2>1. hp.csid # 0 /\ GrantOK(hp.code, hp.cookie, hp.client)
      BY <1>7 DEF FinishState, HandlerOK, Finishing
    <2>2. GrantOK(hp.code, hp.cookie, hp.client)'
      BY <1>7, <2>1, GrantOKKept DEF FinishState
    <2>3. bindings'[hp.csid] = bindings[hp.csid]
      BY <1>7, <2>1, NoneAssumption DEF FinishState, HandlerOK, Finishing, Evolves, BindingsKept, Binding,
             AdvertisedSubs
    <2>4. hp.client \in DynamicClients =>
            /\ clients'[hp.client] = clients[hp.client] /\ clients[hp.client] # None /\ hp.pc # "resolve"
            /\ (hp.pc = "granted" /\ clients[hp.client].auth = "secret") => hp.cred = hp.client
      BY <1>7 DEF FinishState, HandlerOK, Finishing, Evolves, DynamicKept
    <2> QED BY <1>7, <2>1, <2>2, <2>3, <2>4 DEF FinishState, HandlerOK, Finishing
  <1>8. CASE hp \in ClaimsState
    BY <1>8, GrantOKKept, SessionOKKept DEF ClaimsState, HandlerOK, Finishing
  <1> QED BY <1>1, <1>2, <1>3, <1>4, <1>5, <1>6, <1>7, <1>8 DEF HandlerState

\* Tokens, redirects and pending requests stay consistent.
LEMMA RequestInvKept ==
    ASSUME RequestInv, Evolves,
           \A r \in Requests : \/ authContext'[r] \in {authContext[r], None}
                               \/ RequestOK(authContext[r].req)'
    PROVE  RequestInv'
  BY RequestOKKept DEF RequestInv

LEMMA RedirectInvKept ==
    ASSUME RedirectInv, Evolves, sent' = sent
    PROVE  RedirectInv'
  BY DEF RedirectInv, HeldCodes, Evolves, DynamicKept

LEMMA TokenInvKept ==
    ASSUME TypeOK, TokenInv, Evolves, tokens' = tokens
    PROVE  TokenInv'
  <1> SUFFICES ASSUME NEW t \in tokens
               PROVE  /\ t.csid # 0 /\ bindings'[t.csid] # None
                      /\ bindings'[t.csid].client = t.client
                      /\ bindings'[t.csid].sub = t.adv.sub
                      /\ t.client \in DynamicClients =>
                           /\ clients'[t.client] # None
                           /\ clients'[t.client].auth = "secret" => t.cred = t.client
    BY DEF TokenInv
  <1>1. t.csid \in Consents
    BY DEF TypeOK, Token, TokenInv
  <1>2. bindings'[t.csid] = bindings[t.csid]
    BY <1>1 DEF TokenInv, Evolves, BindingsKept
  <1>3. t.client \in DynamicClients => clients'[t.client] = clients[t.client]
    BY DEF TokenInv, Evolves, DynamicKept
  <1> QED BY <1>2, <1>3 DEF TokenInv

\* All handlers are consistent if the ones that moved are.
LEMMA HandlerInvKept ==
    ASSUME TypeOK, TypeOK', Evolves, HandlerInv,
           \A q \in Handlers :
              \/ HandlerOK(handlers[q])'
              \/ /\ handlers'[q] = handlers[q]
                 /\ \A k \in Codes : Holds(q, k) => uses'[k] = uses[k]
    PROVE  HandlerInv'
  <1> SUFFICES ASSUME NEW q \in Handlers, handlers'[q] = handlers[q],
                      \A k \in Codes : Holds(q, k) => uses'[k] = uses[k]
               PROVE  HandlerOK(handlers[q])'
    BY DEF HandlerInv
  <1>1. handlers[q] \in HandlerState /\ HandlerOK(handlers[q])
    BY DEF TypeOK, HandlerInv
  <1>2. handlers[q].pc \in {"taken", "verify", "read", "claims"} \cup Finishing => handlers[q].code \in Codes \cup {0}
    BY HandlerTypes DEF TakenState, VerifyState, ReadState, ClaimsState, FinishState
  <1>3. handlers[q].pc \in {"taken", "verify", "read", "claims"} \cup Finishing /\ handlers[q].code # 0
            => uses'[handlers[q].code] = uses[handlers[q].code]
    BY <1>2 DEF Holds, Finishing
  <1> QED BY <1>1, <1>3, HandlerOKKept

\* Live sessions stay consistent while sessions are at most removed.
LEMMA SessionInvKept ==
    ASSUME TypeOK, TypeOK', Evolves, SessionInv,
           \A c \in Consents : sessions'[c] \in {sessions[c], None}
    PROVE  SessionInv'
  <1> SUFFICES ASSUME NEW c \in Consents, Live(c), sessions'[c] = sessions[c]
               PROVE  sessions[c].cookie = c /\ SessionOK(sessions[c])'
    BY DEF SessionInv, Live
  <1>1. sessions[c] \in session /\ SessionOK(sessions[c]) /\ sessions[c].cookie = c
    BY LiveType DEF SessionInv
  <1> QED BY <1>1, SessionOKKept

\* Array elements stay bound when only registrations are added and sessions
\* removed.
LEMMA EntryInvKept ==
    ASSUME EntryInv, DynamicKept, slices' = slices, bindings' = bindings, nConsents' = nConsents,
           \A c \in Consents : sessions'[c] \in {sessions[c], None}
    PROVE  EntryInv'
  BY DEF EntryInv, EntryOK, DynamicKept, Live

\* No code gains a second holder when no handler takes one.
LEMMA CodeInvKept ==
    ASSUME CodeInv, codeMeta' = codeMeta, sent' = sent, uses' = uses,
           \A q \in Handlers, k \in Codes : Holds(q, k)' => Holds(q, k)
    PROVE  CodeInv'
  BY DEF CodeInv

(***************************************************************************)
(* A quiet step moves handlers, may remember requests, rewrite array        *)
(* elements and end sessions, but hands nothing out and binds nothing.      *)
(***************************************************************************)
LEMMA CounterType == ASSUME TypeOK PROVE nConsents \in Int
  BY DEF TypeOK

LEMMA QuietStep ==
    ASSUME InductiveInv, TypeOK', RegistryInv', DynamicKept, EntriesKept, EntryInv',
           UNCHANGED <<nConsents, bindings, sent, codeMeta, uses, tokens>>,
           \A c \in Consents : sessions'[c] \in {sessions[c], None},
           \A r \in Requests : \/ authContext'[r] \in {authContext[r], None}
                               \/ RequestOK(authContext[r].req)',
           \A q \in Handlers :
              \/ handlers'[q] = handlers[q]
              \/ HandlerOK(handlers[q])' /\ \A k \in Codes : Holds(q, k)' => Holds(q, k)
    PROVE  InductiveInv'
  <1>1. TypeOK
    BY DEF InductiveInv
  <1>2. Evolves
    BY <1>1, CounterType DEF Evolves, BindingsKept, SessionsKept, CodesKept
  <1>3. RequestInv' /\ RedirectInv' /\ TokenInv'
    BY <1>1, <1>2, RequestInvKept, RedirectInvKept, TokenInvKept DEF InductiveInv
  <1>4. SessionInv' /\ HandlerInv'
    BY <1>1, <1>2, SessionInvKept, HandlerInvKept DEF InductiveInv
  <1>5. CodeInv'
    <2>1. \A q \in Handlers, k \in Codes : Holds(q, k)' => Holds(q, k)
      BY DEF Holds, Finishing
    <2> QED BY <2>1, CodeInvKept DEF InductiveInv
  <1>6. FreshInv' /\ OneSessionPerSub'
    BY DEF InductiveInv, FreshInv, OneSessionPerSub, Live
  <1> QED BY <1>3, <1>4, <1>5, <1>6 DEF InductiveInv

-----------------------------------------------------------------------------
(* Registration and /authorize. *)

\* What traffic does to the registry leaves dynamic registrations alone.
LEMMA ResolvedKeepsDynamic ==
    ASSUME TypeOK, RegistryInv, NEW req \in ClientRequests, clients' \in ResolvedRegistries(req),
           req.client \in DynamicClients => clients[req.client] # None
    PROVE  DynamicKept /\ RegistryInv'
  <1>0. req.client \in ClientIDs
    BY ConstantsAssumption
  <1>1. CASE req.client \in MetadataClients
    <2>1. PICK doc \in Documents : clients' = [clients EXCEPT ![req.client] = doc]
      BY <1>1 DEF ResolvedRegistries
    <2>2. req.client \notin DynamicClients
      BY <1>1, ClientsAssumption
    <2> QED BY <2>1, <2>2 DEF DynamicKept, RegistryInv, TypeOK, Clients
  <1>2. CASE req.client \in DynamicClients
    <2>1. req.client \notin MetadataClients /\ clients[req.client].method = "dynamic"
      BY <1>2, ClientsAssumption DEF RegistryInv
    <2>2. clients' = clients
      BY <1>2, <2>1 DEF ResolvedRegistries, registerClientLocked
    <2> QED BY <2>2 DEF DynamicKept, RegistryInv
  <1>3. CASE req.client \notin MetadataClients \cup DynamicClients
    <2>1. clients' = registerClientLocked(req.client, req.uri)
      BY <1>3 DEF ResolvedRegistries
    <2>2. \A i \in DynamicClients : clients'[i] = clients[i]
      BY <2>1, <1>3 DEF registerClientLocked, TypeOK, Clients
    <2> QED BY <2>2 DEF DynamicKept, RegistryInv
  <1> QED BY <1>1, <1>2, <1>3

\* A request that resolveAuthorizeClient lets through is acceptable.
LEMMA ResolvedRequestOK ==
    ASSUME TypeOK, RegistryInv, NEW req \in ClientRequests, resolveAuthorizeClient(req)
    PROVE  DynamicKept /\ RegistryInv' /\ RequestOK(req)'
  <1>1. DynamicKept /\ RegistryInv'
    BY ResolvedKeepsDynamic DEF resolveAuthorizeClient
  <1>2. RequestOK(req)'
    <2> SUFFICES ASSUME req.client \in DynamicClients
                 PROVE  clients'[req.client] # None /\ req.uri \in clients'[req.client].uris
      BY DEF RequestOK
    <2>1. clients'[req.client] = clients[req.client] /\ clients[req.client] # None
      BY <1>1 DEF DynamicKept, resolveAuthorizeClient
    <2>2. clients'[req.client].method = "dynamic" /\ req.client # NoClient
      BY <2>1, ClientsAssumption DEF RegistryInv, Clients
    <2>3. RequestAllowed(clients', req)
      BY DEF resolveAuthorizeClient
    <2> QED BY <2>1, <2>2, <2>3 DEF RequestAllowed
  <1> QED BY <1>1, <1>2

LEMMA InvRegistering ==
    ASSUME InductiveInv, Registering
    PROVE  InductiveInv'
  <1>1. PICK client \in DynamicClients, reg \in Registrations : Register(client, reg)
    BY DEF Registering
  <1>2. TypeOK /\ TypeOK'
    BY TypeRegistering DEF InductiveInv
  <1>3. DynamicKept
    BY <1>1, <1>2 DEF Register, DynamicKept, TypeOK
  <1>4. RegistryInv'
    <2>1. reg.method = "dynamic" /\ client \in Clients
      BY ConstantsAssumption DEF Clients
    <2> QED BY <1>1, <1>2, <2>1 DEF Register, RegistryInv, InductiveInv, TypeOK
  <1>5. EntriesKept /\ EntryInv'
    BY <1>1, <1>3, EntryInvKept DEF Register, EntriesKept, InductiveInv, historyVars
  <1> QED BY <1>1, <1>2, <1>3, <1>4, <1>5, QuietStep DEF Register, historyVars

LEMMA InvAuthorizeRefused ==
    ASSUME InductiveInv, TypeOK', NEW req \in ClientRequests, AuthorizeRefused(req)
    PROVE  InductiveInv'
  <1>1. DynamicKept /\ RegistryInv'
    BY ResolvedKeepsDynamic, ClientsAssumption DEF InductiveInv, AuthorizeRefused
  <1>2. EntriesKept /\ EntryInv'
    BY <1>1, EntryInvKept DEF AuthorizeRefused, EntriesKept, InductiveInv, historyVars
  <1> QED BY <1>1, <1>2, QuietStep DEF AuthorizeRefused, historyVars

LEMMA InvAuthorizeLoginRequired ==
    ASSUME InductiveInv, TypeOK', NEW req \in ClientRequests, AuthorizeLoginRequired(req)
    PROVE  InductiveInv'
  <1>1. DynamicKept /\ RegistryInv'
    BY ResolvedRequestOK DEF InductiveInv, AuthorizeLoginRequired
  <1>2. EntriesKept /\ EntryInv'
    BY <1>1, EntryInvKept DEF AuthorizeLoginRequired, EntriesKept, InductiveInv, historyVars
  <1> QED BY <1>1, <1>2, QuietStep DEF AuthorizeLoginRequired, historyVars

LEMMA InvAuthorizeLogin ==
    ASSUME InductiveInv, TypeOK', NEW req \in ClientRequests, AuthorizeLogin(req)
    PROVE  InductiveInv'
  <1>1. DynamicKept /\ RegistryInv' /\ RequestOK(req)'
    BY ResolvedRequestOK DEF InductiveInv, AuthorizeLogin
  <1>2. EntriesKept /\ EntryInv'
    BY <1>1, EntryInvKept DEF AuthorizeLogin, EntriesKept, InductiveInv, historyVars
  <1>3. ASSUME NEW r \in Requests
        PROVE  authContext'[r] = authContext[r] \/ authContext'[r].req = req
    BY DEF AuthorizeLogin, InductiveInv, TypeOK
  <1>4. \A r \in Requests : authContext'[r] = authContext[r] \/ RequestOK(authContext[r].req)'
    BY <1>1, <1>3 DEF RequestOK
  <1> QED BY <1>1, <1>2, <1>4, QuietStep DEF AuthorizeLogin, historyVars

LEMMA InvLogin ==
    ASSUME InductiveInv, NEW r \in Requests, NEW user \in Users, login(r, user)
    PROVE  InductiveInv'
  <1> DEFINE zero == [req |-> [client |-> NoClient, uri |-> NoURI, chal |-> NoChallenge], sub |-> NoUser]
             ctx  == IF authContext[r] # None THEN authContext[r] ELSE zero
  <1>1. TypeOK /\ TypeOK'
    BY TypeLogin DEF InductiveInv
  <1>2. DynamicKept /\ RegistryInv'
    BY DEF login, DynamicKept, InductiveInv, RegistryInv
  <1>3. EntriesKept /\ EntryInv'
    BY <1>2, EntryInvKept DEF login, EntriesKept, InductiveInv, historyVars
  <1>4. ctx \in authContextEntry /\ RequestOK(ctx.req)
    <2>1. CASE authContext[r] # None
      BY <1>1, <2>1 DEF TypeOK, InductiveInv, RequestInv
    <2>2. CASE authContext[r] = None
      BY <2>2, ClientsAssumption DEF RequestOK, authContextEntry, AuthorizeRequest, ClientIDs, AnyURI,
             Challenges, Subs, Clients
    <2> QED BY <2>1, <2>2
  <1>5. authContext' = [authContext EXCEPT ![r] = [ctx EXCEPT !.sub = user]]
    BY DEF login
  <1> HIDE DEF ctx
  <1>6. [ctx EXCEPT !.sub = user].req = ctx.req
    BY <1>4 DEF authContextEntry
  <1>7. clients' = clients
    BY DEF login
  <1>8. \A s \in Requests : authContext'[s] = authContext[s] \/ authContext'[s].req = ctx.req
    BY <1>1, <1>5, <1>6 DEF TypeOK
  <1>9. \A s \in Requests : authContext'[s] = authContext[s] \/ RequestOK(authContext[s].req)'
    BY <1>4, <1>7, <1>8 DEF RequestOK
  <1> QED BY <1>1, <1>2, <1>3, <1>9, QuietStep DEF login, historyVars

LEMMA InvEndSession ==
    ASSUME InductiveInv, TypeOK', NEW c \in Consents, EndSession(c)
    PROVE  InductiveInv'
  <1>1. DynamicKept /\ RegistryInv'
    BY DEF EndSession, DynamicKept, InductiveInv, RegistryInv
  <1>2. \A d \in Consents : sessions'[d] \in {sessions[d], None}
    BY DEF EndSession, InductiveInv, TypeOK
  <1>3. EntriesKept /\ EntryInv'
    BY <1>1, <1>2, EntryInvKept DEF EndSession, EntriesKept, InductiveInv, historyVars
  <1> QED BY <1>1, <1>2, <1>3, QuietStep DEF EndSession, historyVars

\* Single sign-on rewrites the redirect URI and the challenge of one element.
LEMMA UpdatedSlicesReads ==
    ASSUME TypeOK, NEW sess \in session, NEW req \in ClientRequests
    PROVE  \A c \in Consents, a \in SUBSET ClientIDs, i \in ClientIDs :
              LET before == slices[c][a][i]
                  after  == UpdatedSlices(sess, req)[c][a][i]
              IN  \/ after = before
                  \/ /\ i = req.client
                     /\ after.csid = before.csid /\ after.adv = before.adv /\ after.uri = req.uri
                     /\ after.claims = before.claims
  <1>1. CASE req.client \notin sess.ids
    BY <1>1 DEF UpdatedSlices
  <1>2. CASE req.client \in sess.ids
    <2> DEFINE cs == slices[sess.cookie][sess.arr][req.client]
               f  == [slices[sess.cookie][sess.arr] EXCEPT
                        ![req.client] = [cs EXCEPT !.chal = req.chal, !.uri = req.uri]]
    <2>1. sess.cookie \in Consents /\ sess.arr \in SUBSET ClientIDs /\ req.client \in ClientIDs
      BY ConstantsAssumption DEF session
    <2>2. slices[sess.cookie][sess.arr] \in [ClientIDs -> clientSession]
      BY <2>1 DEF TypeOK
    <2>3. UpdatedSlices(sess, req) = StoreArray(sess.cookie, sess.arr, f)
      BY <1>2 DEF UpdatedSlices
    <2>4. cs \in clientSession
      BY <2>1, <2>2
    <2>5. f[req.client] = [cs EXCEPT !.chal = req.chal, !.uri = req.uri]
      BY <2>1, <2>2
    <2>6. /\ f[req.client].csid = cs.csid /\ f[req.client].adv = cs.adv /\ f[req.client].uri = req.uri
          /\ f[req.client].claims = cs.claims
      BY <2>4, <2>5 DEF clientSession
    <2>7. \A i \in ClientIDs : i # req.client => f[i] = slices[sess.cookie][sess.arr][i]
      BY <2>1, <2>2
    <2> HIDE DEF f
    <2>8. /\ UpdatedSlices(sess, req)[sess.cookie][sess.arr] = f
          /\ \A d \in Consents, b \in SUBSET ClientIDs :
                (d # sess.cookie \/ b # sess.arr) => UpdatedSlices(sess, req)[d][b] = slices[d][b]
      BY <2>1, <2>3, StoreArrayReads
    <2> QED BY <2>6, <2>7, <2>8
  <1> QED BY <1>1, <1>2

LEMMA InvAuthorizeSSO ==
    ASSUME InductiveInv, NEW p \in Handlers, NEW req \in ClientRequests, NEW c \in Consents,
           AuthorizeSSO(p, req, c)
    PROVE  InductiveInv'
  <1>1. TypeOK /\ TypeOK'
    BY TypeAuthorizeSSO DEF InductiveInv
  <1>2. DynamicKept /\ RegistryInv' /\ RequestOK(req)'
    BY ResolvedRequestOK DEF InductiveInv, AuthorizeSSO
  <1>3. sessions[c] \in session /\ slices' = UpdatedSlices(sessions[c], req)
    BY <1>1, LiveType DEF AuthorizeSSO
  <1>4. ASSUME NEW d \in Consents, NEW a \in SUBSET ClientIDs, NEW i \in ClientIDs
        PROVE  LET before == slices[d][a][i]
                   after  == slices'[d][a][i]
               IN  \/ after = before
                   \/ /\ i = req.client
                      /\ after.csid = before.csid /\ after.adv = before.adv /\ after.uri = req.uri
                      /\ after.claims = before.claims
    BY <1>1, <1>3, UpdatedSlicesReads
  <1>5. EntriesKept
    BY <1>4 DEF EntriesKept
  <1>6. EntryInv'
    <2> SUFFICES ASSUME NEW d \in Consents, NEW a \in SUBSET ClientIDs, NEW i \in ClientIDs
                 PROVE  EntryOK(d, a, i)'
      BY DEF EntryInv
    <2>1. EntryOK(d, a, i)
      BY DEF InductiveInv, EntryInv
    <2>2. UNCHANGED <<bindings, sessions, nConsents>>
      BY DEF AuthorizeSSO, historyVars
    <2> QED BY <1>2, <1>4, <2>1, <2>2 DEF EntryOK, RequestOK, DynamicKept, Live
  <1>7. Evolves
    BY <1>1, <1>2, <1>5, CounterType
       DEF Evolves, BindingsKept, SessionsKept, CodesKept, AuthorizeSSO, historyVars
  <1>8. SessionInv'
    BY <1>1, <1>7, SessionInvKept DEF InductiveInv, AuthorizeSSO
  <1>9. /\ handlers'[p].pc = "issue" /\ handlers'[p].sess = sessions'[c] /\ handlers'[p].req = req
        /\ \A q \in Handlers : q # p => handlers'[q] = handlers[q]
    BY <1>1 DEF AuthorizeSSO, TypeOK
  <1>10. HandlerOK(handlers[p])'
    <2>1. SessionOK(sessions[c])' /\ Live(c)'
      BY <1>8 DEF SessionInv, AuthorizeSSO, Live
    <2> QED BY <1>2, <1>9, <2>1 DEF HandlerOK, Finishing, SessionOK, RequestOK
  <1>11. \A k \in Codes : ~Holds(p, k)'
    BY <1>9 DEF Holds, Finishing
  <1> QED BY <1>1, <1>2, <1>5, <1>6, <1>9, <1>10, <1>11, QuietStep DEF AuthorizeSSO, historyVars

LEMMA InvAuthorizing ==
    ASSUME InductiveInv, Authorizing
    PROVE  InductiveInv'
  <1>1. PICK req \in ClientRequests :
          \/ AuthorizeRefused(req)
          \/ AuthorizeLoginRequired(req)
          \/ AuthorizeLogin(req)
          \/ \E p \in Handlers, c \in Consents : AuthorizeSSO(p, req, c)
    BY DEF Authorizing, AuthorizeWithCookie, AuthorizeByHint
  <1>2. TypeOK'
    BY TypeAuthorizing DEF InductiveInv
  <1> QED BY <1>1, <1>2, InvAuthorizeRefused, InvAuthorizeLoginRequired, InvAuthorizeLogin,
         InvAuthorizeSSO

-----------------------------------------------------------------------------
(* Steps that only move a handler: what it carries on is consistent. *)

\* The state HandlerOK speaks about does not include the handlers.
LEMMA SameOK ==
    ASSUME UNCHANGED <<serverVars, nConsents, historyVars>>, NEW hp
    PROVE  HandlerOK(hp)' <=> HandlerOK(hp)
  <1>1. ASSUME NEW sess PROVE SessionOK(sess)' <=> SessionOK(sess)
    BY DEF SessionOK, Live, serverVars
  <1>2. ASSUME NEW k, NEW cookie, NEW client
        PROVE  GrantOK(k, cookie, client)' <=> GrantOK(k, cookie, client)
    BY DEF GrantOK, serverVars, historyVars
  <1>3. ASSUME NEW req PROVE RequestOK(req)' <=> RequestOK(req)
    BY DEF RequestOK, serverVars
  <1> QED BY <1>1, <1>2, <1>3 DEF HandlerOK, Finishing, serverVars, historyVars

LEMMA HandlerStep ==
    ASSUME InductiveInv, TypeOK', NEW p \in Handlers, NEW new,
           UNCHANGED <<serverVars, nConsents, historyVars>>,
           handlers' = [handlers EXCEPT ![p] = new], HandlerOK(new),
           new.pc \in {"taken", "verify", "read", "claims"} \cup Finishing => new.code = 0 \/ Holds(p, new.code)
    PROVE  InductiveInv'
  <1>1. DynamicKept /\ RegistryInv'
    BY DEF serverVars, DynamicKept, InductiveInv, RegistryInv
  <1>2. EntriesKept /\ EntryInv'
    BY <1>1, EntryInvKept DEF serverVars, historyVars, EntriesKept, InductiveInv
  <1>3. handlers'[p] = new /\ \A q \in Handlers : q # p => handlers'[q] = handlers[q]
    BY DEF InductiveInv, TypeOK
  <1>4. HandlerOK(handlers[p])'
    BY <1>3, SameOK
  <1>5. \A k \in Codes : Holds(p, k)' => Holds(p, k)
    BY <1>3 DEF Holds, Finishing, Codes
  <1> QED BY <1>1, <1>2, <1>3, <1>4, <1>5, QuietStep DEF serverVars, historyVars

LEMMA IdleOK == HandlerOK(Idle) /\ Idle.pc = "idle"
  BY DEF Idle, HandlerOK, Finishing

LEMMA InvApproveRead ==
    ASSUME InductiveInv, NEW p \in Handlers, NEW r \in Requests, ApproveRead(p, r)
    PROVE  InductiveInv'
  <1> DEFINE new == [pc |-> "approve", r |-> r, ctx |-> authContext[r]]
  <1>1. TypeOK'
    BY TypeApproveRead DEF InductiveInv
  <1>2. HandlerOK(new) /\ new.pc = "approve"
    BY DEF HandlerOK, Finishing, ApproveRead, InductiveInv, RequestInv
  <1>3. handlers' = [handlers EXCEPT ![p] = new]
    BY DEF ApproveRead
  <1> HIDE DEF new
  <1> QED BY <1>1, <1>2, <1>3, HandlerStep DEF ApproveRead, Finishing

LEMMA InvSnapshotSession ==
    ASSUME InductiveInv, TypeOK', NEW p \in Handlers, SnapshotSession(p)
    PROVE  InductiveInv'
  <1> DEFINE hp  == handlers[p]
             new == [pc |-> "verify", code |-> hp.code, sess |-> sessions[hp.meta.cookie],
                     client |-> hp.meta.client]
  <1>1. hp.pc = "taken" /\ hp.meta.cookie \in Consents /\ hp.code \in Codes
    BY HandlerTypes DEF SnapshotSession, TakenState, codeMetadataEntry, InductiveInv
  <1>2. GrantOK(hp.code, hp.meta.cookie, hp.meta.client)
    BY <1>1 DEF InductiveInv, HandlerInv, HandlerOK, Finishing
  <1>3. CASE Live(hp.meta.cookie)
    <2>1. sessions[hp.meta.cookie].cookie = hp.meta.cookie /\ SessionOK(sessions[hp.meta.cookie])
      BY <1>1, <1>3 DEF InductiveInv, SessionInv
    <2>2. HandlerOK(new) /\ new.code = hp.code
      BY <1>2, <2>1 DEF HandlerOK, Finishing
    <2>3. handlers' = [handlers EXCEPT ![p] = new]
      BY <1>3 DEF SnapshotSession
    <2>4. Holds(p, hp.code)
      BY <1>1 DEF Holds, Finishing
    <2> HIDE DEF new, hp
    <2> QED BY <2>2, <2>3, <2>4, HandlerStep DEF SnapshotSession, Finishing
  <1>4. CASE ~Live(hp.meta.cookie)
    <2>1. handlers' = [handlers EXCEPT ![p] = Idle]
      BY <1>4 DEF SnapshotSession
    <2> QED BY <2>1, IdleOK, HandlerStep DEF SnapshotSession, Finishing
  <1> QED BY <1>3, <1>4

LEMMA InvVerifyPKCE ==
    ASSUME InductiveInv, TypeOK', NEW p \in Handlers, NEW verifier \in Challenges, VerifyPKCE(p, verifier)
    PROVE  InductiveInv'
  <1> DEFINE hp  == handlers[p]
             new == [pc |-> "read", code |-> hp.code, sess |-> hp.sess, client |-> hp.client,
                     verifier |-> verifier]
  <1>1. hp.pc = "verify"
    BY DEF VerifyPKCE
  <1>2. CASE hp.client \in hp.sess.ids /\ VerifierMatches(ClientSession(hp.sess, hp.client).chal, verifier)
    <2>1. HandlerOK(new) /\ new.code = hp.code
      BY <1>1, <1>2 DEF InductiveInv, HandlerInv, HandlerOK, Finishing
    <2>2. handlers' = [handlers EXCEPT ![p] = new]
      BY <1>2 DEF VerifyPKCE
    <2>3. Holds(p, hp.code)
      BY <1>1 DEF Holds, Finishing
    <2> HIDE DEF new, hp
    <2> QED BY <2>1, <2>2, <2>3, HandlerStep DEF VerifyPKCE, Finishing
  <1>3. CASE ~(hp.client \in hp.sess.ids /\ VerifierMatches(ClientSession(hp.sess, hp.client).chal, verifier))
    <2>1. handlers' = [handlers EXCEPT ![p] = Idle]
      BY <1>3 DEF VerifyPKCE
    <2> QED BY <2>1, IdleOK, HandlerStep DEF VerifyPKCE, Finishing
  <1> QED BY <1>2, <1>3

LEMMA InvRefreshGrant ==
    ASSUME InductiveInv, TypeOK', NEW p \in Handlers, NEW t \in tokens, RefreshGrant(p, t)
    PROVE  InductiveInv'
  <1>1. PICK x \in SessionsWithCsid(t.csid) :
          handlers' = [handlers EXCEPT ![p] =
            [pc |-> "read", code |-> 0, sess |-> sessions[x[1]], client |-> x[2], verifier |-> NoChallenge]]
    BY DEF RefreshGrant
  <1> DEFINE new == [pc |-> "read", code |-> 0, sess |-> sessions[x[1]], client |-> x[2],
                     verifier |-> NoChallenge]
  <1>2. SessionOK(sessions[x[1]]) /\ x[2] \in sessions[x[1]].ids
    BY DEF SessionsWithCsid, InductiveInv, SessionInv
  <1>3. HandlerOK(new) /\ new.code = 0
    BY <1>2 DEF HandlerOK, Finishing, GrantOK
  <1>4. handlers' = [handlers EXCEPT ![p] = new]
    BY <1>1
  <1> HIDE DEF new
  <1> QED BY <1>3, <1>4, HandlerStep DEF RefreshGrant, Finishing

LEMMA InvReadAdvertisedSub ==
    ASSUME InductiveInv, TypeOK', NEW p \in Handlers, ReadAdvertisedSub(p)
    PROVE  InductiveInv'
  <1> DEFINE hp  == handlers[p]
             cs  == slices[hp.sess.cookie][hp.sess.arr][hp.client]
             new == [pc |-> "claims", code |-> hp.code, sess |-> hp.sess, client |-> hp.client,
                     verifier |-> hp.verifier, adv |-> cs.adv]
  <1>1. hp.pc = "read"
    BY DEF ReadAdvertisedSub
  <1>2. SessionOK(hp.sess) /\ GrantOK(hp.code, hp.sess.cookie, hp.client) /\ hp.client \in hp.sess.ids
    BY <1>1 DEF InductiveInv, HandlerInv, HandlerOK, Finishing
  <1>3. ClientSession(hp.sess, hp.client) = cs /\ cs.adv.sub = hp.sess.sub
    BY <1>2 DEF ClientSession, SessionOK
  <1>4. handlers' = [handlers EXCEPT ![p] = new]
    BY <1>3 DEF ReadAdvertisedSub
  <1>5. Holds(p, hp.code)
    BY <1>1 DEF Holds, Finishing
  <1> HIDE DEF cs
  <1>6. HandlerOK(new) /\ new.code = hp.code
    BY <1>2, <1>3 DEF HandlerOK, Finishing
  <1> HIDE DEF new, hp
  <1> QED BY <1>4, <1>5, <1>6, HandlerStep DEF ReadAdvertisedSub, Finishing

\* The claims may be of a later approval than AdvertisedSub was, but by the same
\* user, and for the same client session.
LEMMA InvReadClaims ==
    ASSUME InductiveInv, TypeOK', NEW p \in Handlers, ReadClaims(p)
    PROVE  InductiveInv'
  <1> DEFINE hp  == handlers[p]
             cs  == slices[hp.sess.cookie][hp.sess.arr][hp.client]
             new == [pc |-> "finish", code |-> hp.code, cookie |-> hp.sess.cookie, client |-> hp.client,
                     verifier |-> hp.verifier, csid |-> cs.csid, adv |-> hp.adv,
                     claims |-> cs.claims, reg |-> None, cred |-> NoClient]
  <1>1. hp.pc = "claims" /\ hp \in ClaimsState
    BY HandlerTypes DEF ReadClaims, InductiveInv
  <1>2. /\ SessionOK(hp.sess) /\ GrantOK(hp.code, hp.sess.cookie, hp.client)
        /\ hp.client \in hp.sess.ids /\ hp.adv.sub = hp.sess.sub
    BY <1>1 DEF InductiveInv, HandlerInv, HandlerOK, Finishing
  <1>3. hp.sess.cookie \in Consents /\ hp.sess.arr \in SUBSET ClientIDs /\ hp.client \in ClientIDs
    BY <1>1 DEF ClaimsState, session
  <1>4. ClientSession(hp.sess, hp.client) = cs /\ cs.adv.sub = hp.adv.sub
    BY <1>2 DEF ClientSession, SessionOK
  <1>5. /\ cs.csid # 0
        /\ bindings[cs.csid] = [cookie |-> hp.sess.cookie, client |-> hp.client, sub |-> cs.adv.sub]
        /\ hp.client \in DynamicClients => clients[hp.client] # None
    BY <1>2, <1>3 DEF SessionOK, InductiveInv, EntryInv, EntryOK
  <1>6. handlers' = [handlers EXCEPT ![p] = new]
    BY <1>4 DEF ReadClaims, ReadCsid
  <1>7. Holds(p, hp.code)
    BY <1>1 DEF Holds, Finishing
  <1> HIDE DEF cs
  <1>8. HandlerOK(new) /\ new.code = hp.code
    BY <1>2, <1>4, <1>5 DEF HandlerOK, Finishing
  <1> HIDE DEF new, hp
  <1> QED BY <1>6, <1>7, <1>8, HandlerStep DEF ReadClaims, Finishing

-----------------------------------------------------------------------------
(* Steps that hand out codes or take them back. *)

LEMMA CodeStep ==
    ASSUME InductiveInv, TypeOK', CodesKept, CodeInv', RedirectInv',
           UNCHANGED <<clients, authContext, sessions, slices, nConsents, bindings, tokens, uses>>,
           \A q \in Handlers : HandlerOK(handlers[q])' \/ handlers'[q] = handlers[q]
    PROVE  InductiveInv'
  <1>1. TypeOK
    BY DEF InductiveInv
  <1>2. Evolves
    BY <1>1, CounterType DEF Evolves, DynamicKept, BindingsKept, EntriesKept, SessionsKept
  <1>3. RequestInv' /\ TokenInv'
    BY <1>1, <1>2, RequestInvKept, TokenInvKept DEF InductiveInv
  <1>4. SessionInv' /\ HandlerInv'
    BY <1>1, <1>2, SessionInvKept, HandlerInvKept DEF InductiveInv
  <1>5. EntryInv'
    BY <1>2, EntryInvKept DEF InductiveInv, Evolves
  <1>6. FreshInv' /\ OneSessionPerSub' /\ RegistryInv'
    BY DEF InductiveInv, FreshInv, OneSessionPerSub, Live, RegistryInv
  <1> QED BY <1>3, <1>4, <1>5, <1>6 DEF InductiveInv

\* Nobody holds a code that can still be taken.
LEMMA PendingCodeUnheld ==
    ASSUME InductiveInv, NEW k \in Codes, codeMeta[k] # None \/ sent[k] = None, NEW q \in Handlers
    PROVE  ~Holds(q, k)
  <1>1. ASSUME Holds(q, k) PROVE sent[k] # None /\ codeMeta[k] = None
    <2>1. HandlerOK(handlers[q]) /\ k # 0
      BY DEF InductiveInv, HandlerInv, Codes
    <2> QED BY <1>1, <2>1 DEF Holds, HandlerOK, Finishing, GrantOK
  <1> QED BY <1>1

LEMMA InvTakeCode ==
    ASSUME InductiveInv, TypeOK', NEW p \in Handlers, NEW k \in HeldCodes, TakeCode(p, k)
    PROVE  InductiveInv'
  <1>1. TypeOK /\ k \in Codes /\ sent[k] # None
    BY DEF InductiveInv, HeldCodes
  <1>2. codeMeta'[k] = None /\ \A j \in Codes : j # k => codeMeta'[j] = codeMeta[j]
    BY <1>1 DEF TakeCode, CodesAfterTake, TypeOK
  <1>3. /\ handlers'[p] = [pc |-> "taken", code |-> k, meta |-> codeMeta[k]]
        /\ \A q \in Handlers : q # p => handlers'[q] = handlers[q]
    BY <1>1 DEF TakeCode, TypeOK
  <1>4. /\ codeMeta[k] = [cookie |-> sent[k].cookie, client |-> sent[k].req.client]
        /\ uses[k] = 0 /\ sent' = sent /\ uses' = uses
    BY <1>1 DEF InductiveInv, CodeInv, TakeCode, historyVars
  <1>5. CodesKept
    BY <1>1, <1>2, <1>4 DEF CodesKept
  <1>6. HandlerOK(handlers[p])'
    BY <1>1, <1>2, <1>3, <1>4 DEF HandlerOK, Finishing, GrantOK
  <1>7. CodeInv'
    <2>1. ASSUME NEW j \in Codes, NEW q \in Handlers, NEW r \in Handlers, Holds(q, j)', Holds(r, j)'
          PROVE  q = r
      <3>1. CASE j = k
        <4>1. codeMeta[k] # None
          BY DEF TakeCode
        <4>2. ~Holds(q, k) /\ ~Holds(r, k)
          BY <1>1, <4>1, PendingCodeUnheld
        <4> QED BY <1>3, <2>1, <3>1, <4>2 DEF Holds, Finishing
      <3>2. CASE j # k
        <4>1. Holds(q, j) /\ Holds(r, j)
          BY <1>3, <2>1, <3>2 DEF Holds, Finishing
        <4> QED BY <4>1 DEF InductiveInv, CodeInv
      <3> QED BY <3>1, <3>2
    <2>2. ASSUME NEW j \in Codes
          PROVE  /\ codeMeta'[j] # None =>
                      /\ sent[j] # None /\ uses[j] = 0
                      /\ codeMeta'[j] = [cookie |-> sent[j].cookie, client |-> sent[j].req.client]
                 /\ sent[j] = None => codeMeta'[j] = None /\ uses[j] = 0
                 /\ uses[j] <= 1
      BY <1>2 DEF InductiveInv, CodeInv
    <2> QED BY <1>4, <2>1, <2>2 DEF CodeInv
  <1>8. RedirectInv'
    BY <1>4 DEF InductiveInv, RedirectInv, HeldCodes, TakeCode
  <1> QED BY <1>3, <1>5, <1>6, <1>7, <1>8, CodeStep DEF TakeCode, historyVars

LEMMA InvIssueCode ==
    ASSUME InductiveInv, NEW p \in Handlers, NEW k \in Codes, issueCodeAndRedirect(p, k)
    PROVE  InductiveInv'
  <1> DEFINE hp  == handlers[p]
             out == [req |-> hp.req, cookie |-> hp.sess.cookie,
                     followed |-> hp.req.client \in hp.sess.ids,
                     uri |-> ClientSession(hp.sess, hp.req.client).uri, consent |-> hp.consent]
  <1>1. TypeOK /\ TypeOK'
    BY TypeIssueCode DEF InductiveInv
  <1>2. sent[k] = None /\ codeMeta[k] = None /\ uses[k] = 0
    BY DEF InductiveInv, CodeInv, issueCodeAndRedirect
  <1>3. /\ codeMeta'[k] = [cookie |-> hp.sess.cookie, client |-> hp.req.client]
        /\ \A j \in Codes : j # k => codeMeta'[j] = codeMeta[j]
    BY <1>1 DEF issueCodeAndRedirect, TypeOK
  <1>4. sent'[k] = out /\ \A j \in Codes : j # k => sent'[j] = sent[j]
    BY <1>1 DEF issueCodeAndRedirect, TypeOK
  <1>5. handlers'[p] = Idle /\ \A q \in Handlers : q # p => handlers'[q] = handlers[q]
    BY <1>1 DEF issueCodeAndRedirect, TypeOK
  <1>6. hp \in IssueState /\ SessionOK(hp.sess) /\ RequestOK(hp.req)
    BY <1>1, HandlerTypes DEF issueCodeAndRedirect, InductiveInv, HandlerInv, HandlerOK, Finishing
  <1>7. UNCHANGED <<clients, authContext, sessions, slices, nConsents, bindings, tokens, uses>>
    BY DEF issueCodeAndRedirect
  <1>8. out.followed /\ out.req.client \in DynamicClients =>
            /\ clients[out.req.client] # None
            /\ out.uri \in clients[out.req.client].uris
    <2> SUFFICES ASSUME hp.req.client \in hp.sess.ids, hp.req.client \in DynamicClients
                 PROVE  /\ clients[hp.req.client] # None
                        /\ slices[hp.sess.cookie][hp.sess.arr][hp.req.client].uri \in clients[hp.req.client].uris
      BY DEF ClientSession
    <2>1. hp.sess.cookie \in Consents /\ hp.sess.arr \in SUBSET ClientIDs /\ hp.req.client \in ClientIDs
      BY <1>6 DEF IssueState, session, AuthorizeRequest
    <2> QED BY <1>6, <2>1 DEF SessionOK, InductiveInv, EntryInv, EntryOK
  <1>9. sent'[k] # None
    BY <1>1, TypeIssueCode, NoneAssumption
  <1> HIDE DEF out
  <1>10. CodesKept
    BY <1>2, <1>3, <1>4 DEF CodesKept
  <1>11. CodeInv'
    <2>1. ASSUME NEW j \in Codes, NEW q \in Handlers, NEW r \in Handlers, Holds(q, j)', Holds(r, j)'
          PROVE  q = r
      <3>1. Holds(q, j) /\ Holds(r, j)
        BY <1>5, <2>1 DEF Holds, Finishing, Idle
      <3> QED BY <3>1 DEF InductiveInv, CodeInv
    <2>2. out.cookie = hp.sess.cookie /\ out.req.client = hp.req.client
      BY DEF out
    <2>3. ASSUME NEW j \in Codes
          PROVE  /\ codeMeta'[j] # None =>
                      /\ sent'[j] # None /\ uses[j] = 0
                      /\ codeMeta'[j] = [cookie |-> sent'[j].cookie, client |-> sent'[j].req.client]
                 /\ sent'[j] = None => codeMeta'[j] = None /\ uses[j] = 0
                 /\ uses[j] <= 1
      <3>1. CASE j = k
        BY <1>2, <1>3, <1>4, <1>9, <2>2, <3>1
      <3>2. CASE j # k
        BY <1>3, <1>4, <3>2 DEF InductiveInv, CodeInv
      <3> QED BY <3>1, <3>2
    <2> QED BY <1>7, <2>1, <2>3 DEF CodeInv
  <1>12. RedirectInv'
    BY <1>4, <1>7, <1>8 DEF InductiveInv, RedirectInv, HeldCodes
  <1>13. HandlerOK(handlers[p])'
    BY <1>5 DEF Idle, HandlerOK, Finishing
  <1> QED BY <1>1, <1>5, <1>7, <1>10, <1>11, <1>12, <1>13, CodeStep

-----------------------------------------------------------------------------
(* Authentication of the client.                                            *)

LEMMA FinishingOK ==
    ASSUME InductiveInv, NEW p \in Handlers, handlers[p].pc \in Finishing
    PROVE  /\ handlers[p] \in FinishState
           /\ handlers[p].csid # 0 /\ GrantOK(handlers[p].code, handlers[p].cookie, handlers[p].client)
           /\ bindings[handlers[p].csid] =
                [cookie |-> handlers[p].cookie, client |-> handlers[p].client, sub |-> handlers[p].adv.sub]
           /\ handlers[p].client \in DynamicClients =>
                /\ clients[handlers[p].client] # None
                /\ clients[handlers[p].client].method = "dynamic"
                /\ handlers[p].pc # "resolve"
                /\ (handlers[p].pc = "granted" /\ clients[handlers[p].client].auth = "secret") =>
                     handlers[p].cred = handlers[p].client
  <1>1. handlers[p] \in FinishState
    BY HandlerTypes DEF InductiveInv
  <1>2. HandlerOK(handlers[p])
    BY DEF InductiveInv, HandlerInv
  <1> QED BY <1>1, <1>2 DEF HandlerOK, Finishing, InductiveInv, RegistryInv

\* A handler that goes on to authenticate its client keeps working for the same
\* grant; it is granted tokens of a confidential client only with the secret.
LEMMA FinishingStep ==
    ASSUME InductiveInv, NEW p \in Handlers, handlers[p].pc \in Finishing,
           NEW new, new.pc \in {"resolve", "granted"},
           new.code = handlers[p].code, new.cookie = handlers[p].cookie, new.client = handlers[p].client,
           new.csid = handlers[p].csid, new.adv = handlers[p].adv,
           new.client \in DynamicClients =>
              new.pc = "granted" /\ (clients[new.client].auth = "secret" => new.cred = new.client)
    PROVE  HandlerOK(new) /\ Holds(p, new.code)
  <1>1. new.pc \in Finishing /\ Holds(p, new.code)
    BY DEF Finishing, Holds
  <1>2. /\ new.csid # 0 /\ GrantOK(new.code, new.cookie, new.client)
        /\ bindings[new.csid] = [cookie |-> new.cookie, client |-> new.client, sub |-> new.adv.sub]
        /\ new.client \in DynamicClients => clients[new.client] # None
    BY FinishingOK
  <1> QED BY <1>1, <1>2 DEF HandlerOK, Finishing

LEMMA InvAuthenticateRegistered ==
    ASSUME InductiveInv, TypeOK', NEW p \in Handlers, NEW cred \in ClientIDs, AuthenticateRegistered(p, cred)
    PROVE  InductiveInv'
  <1> DEFINE hp  == handlers[p]
             reg == Registration(hp.client)
             new == [hp EXCEPT !.pc = "granted", !.reg = None, !.cred = cred]
  <1>1. hp.pc \in Finishing
    BY DEF AuthenticateRegistered, Finishing
  <1>2. PICK ok : /\ handlers' = [handlers EXCEPT ![p] = Verdict(hp, ok, cred)]
                  /\ ok = (reg = None \/ reg.method = "automatic" \/ CredentialsVerify(reg, hp.client, cred))
    BY Zenon DEF AuthenticateRegistered
  <1>3. CASE ~ok
    <2>1. handlers' = [handlers EXCEPT ![p] = Idle]
      BY <1>2, <1>3 DEF Verdict
    <2> QED BY <2>1, IdleOK, HandlerStep DEF AuthenticateRegistered, Finishing
  <1>4. CASE ok
    <2>1. handlers' = [handlers EXCEPT ![p] = new]
      BY <1>2, <1>4 DEF Verdict
    <2>2. ASSUME hp.client \in DynamicClients, clients[hp.client].auth = "secret"
          PROVE  cred = hp.client
      <3>1. reg = clients[hp.client] /\ reg # None /\ reg.method = "dynamic"
        BY <1>1, <2>2, FinishingOK, ClientsAssumption DEF Registration, Clients
      <3> QED BY <1>2, <1>4, <2>2, <3>1 DEF CredentialsVerify
    <2>a. hp \in FinishState
      BY <1>1, FinishingOK
    <2>b. /\ new.pc = "granted" /\ new.cred = cred
          /\ new.code = hp.code /\ new.cookie = hp.cookie /\ new.client = hp.client
          /\ new.csid = hp.csid /\ new.adv = hp.adv
      BY <2>a DEF FinishState
    <2> HIDE DEF new
    <2>3. HandlerOK(new) /\ Holds(p, new.code)
      BY <1>1, <2>2, <2>b, FinishingStep
    <2> HIDE DEF hp
    <2> QED BY <2>1, <2>3, HandlerStep DEF AuthenticateRegistered, Finishing
  <1> QED BY <1>3, <1>4

LEMMA InvReadMetadataRegistration ==
    ASSUME InductiveInv, TypeOK', NEW p \in Handlers, ReadMetadataRegistration(p)
    PROVE  InductiveInv'
  <1> DEFINE hp  == handlers[p]
             reg == Registration(hp.client)
             new == [hp EXCEPT !.pc = "resolve", !.reg = reg]
  <1>1. hp.pc \in Finishing /\ reg.method = "metadata"
    BY DEF ReadMetadataRegistration, Finishing
  <1>2. hp \in FinishState /\ hp.client \notin DynamicClients
    BY <1>1, FinishingOK, ClientsAssumption DEF Registration, Clients
  <1>4. handlers' = [handlers EXCEPT ![p] = new]
    BY DEF ReadMetadataRegistration
  <1>a. /\ new.pc = "resolve"
        /\ new.code = hp.code /\ new.cookie = hp.cookie /\ new.client = hp.client
        /\ new.csid = hp.csid /\ new.adv = hp.adv
    BY <1>2 DEF FinishState
  <1> HIDE DEF new
  <1>5. HandlerOK(new) /\ Holds(p, new.code)
    BY <1>1, <1>2, <1>a, FinishingStep
  <1> HIDE DEF hp
  <1> QED BY <1>4, <1>5, HandlerStep DEF ReadMetadataRegistration, Finishing

\* A document is stored for a client that has no dynamic registration.
LEMMA InvResolveMetadata ==
    ASSUME InductiveInv, TypeOK', NEW p \in Handlers, NEW cred \in ClientIDs, ResolveMetadata(p, cred)
    PROVE  InductiveInv'
  <1> DEFINE hp  == handlers[p]
  <1>0. PICK new : new = [hp EXCEPT !.pc = "granted", !.reg = None, !.cred = cred]
    OBVIOUS
  <1>1. hp.pc \in Finishing /\ hp.pc = "resolve" /\ TypeOK
    BY DEF ResolveMetadata, Finishing, InductiveInv
  <1>2. hp \in FinishState /\ hp.client \notin DynamicClients
    BY <1>1, FinishingOK
  <1>3. PICK out \in ResolveOutcomes(hp, cred) :
          /\ clients' = out.registry
          /\ handlers' = [handlers EXCEPT ![p] = Verdict(hp, out.ok, cred)]
    BY DEF ResolveMetadata
  <1>4. \A i \in DynamicClients : clients'[i] = clients[i]
    <2>1. \/ clients' = clients
          \/ \E doc \in Documents : clients' = [clients EXCEPT ![hp.client] = doc]
      BY <1>1, <1>2, <1>3, ResolveRegistry
    <2> QED BY <1>1, <1>2, <2>1 DEF TypeOK, Clients
  <1>5. DynamicKept /\ RegistryInv'
    BY <1>4 DEF DynamicKept, RegistryInv, InductiveInv
  <1>6. EntriesKept /\ EntryInv'
    BY <1>5, EntryInvKept DEF ResolveMetadata, EntriesKept, InductiveInv, historyVars
  <1>7. handlers'[p] \in {new, Idle} /\ \A q \in Handlers : q # p => handlers'[q] = handlers[q]
    BY <1>0, <1>1, <1>3 DEF Verdict, TypeOK
  <1>a. /\ new.pc = "granted"
        /\ new.code = hp.code /\ new.cookie = hp.cookie /\ new.client = hp.client
        /\ new.csid = hp.csid /\ new.adv = hp.adv
    BY <1>0, <1>2 DEF FinishState
  <1>8. HandlerOK(new) /\ Holds(p, new.code)
    BY <1>1, <1>2, <1>a, FinishingStep
  <1>9. HandlerOK(handlers[p])' /\ \A k \in Codes : Holds(p, k)' => Holds(p, k)
    <2>1. CASE handlers'[p] = Idle
      BY <2>1, IdleOK DEF HandlerOK, Holds, Finishing
    <2>2. CASE handlers'[p] = new
      <3>1. new \in HandlerState
        BY <1>0, <1>2 DEF FinishState, Finishing, HandlerState
      <3>2. Evolves
        BY <1>1, <1>5, <1>6, CounterType
           DEF Evolves, BindingsKept, SessionsKept, CodesKept, ResolveMetadata, historyVars
      <3>3. uses' = uses
        BY DEF ResolveMetadata, historyVars
      <3>4. HandlerOK(new)'
        BY <1>1, <1>8, <3>1, <3>2, <3>3, HandlerOKKept
      <3>5. \A k \in Codes : Holds(p, k)' => Holds(p, k)
        BY <1>8, <2>2 DEF Holds
      <3> QED BY <2>2, <3>4, <3>5
    <2> QED BY <1>7, <2>1, <2>2
  <1> QED BY <1>5, <1>6, <1>7, <1>9, QuietStep DEF ResolveMetadata, historyVars

-----------------------------------------------------------------------------
(* The last step of a token request. *)

LEMMA InvIssueTokens ==
    ASSUME InductiveInv, NEW p \in Handlers, IssueTokens(p)
    PROVE  InductiveInv'
  <1> DEFINE hp == handlers[p]
  <1>1. TypeOK /\ TypeOK'
    BY TypeIssueTokens DEF InductiveInv
  <1>2. /\ hp \in FinishState /\ hp.pc = "granted" /\ hp.client \in ClientIDs /\ hp.cookie \in Consents
        /\ hp.code \in Codes \cup {0} /\ hp.csid \in Consents \cup {0}
    BY <1>1, HandlerTypes DEF IssueTokens, FinishState, Finishing
  <1>3. /\ hp.csid # 0 /\ GrantOK(hp.code, hp.cookie, hp.client)
        /\ bindings[hp.csid] = [cookie |-> hp.cookie, client |-> hp.client, sub |-> hp.adv.sub]
        /\ hp.client \in DynamicClients =>
             clients[hp.client] # None /\ (clients[hp.client].auth = "secret" => hp.cred = hp.client)
    BY <1>2, FinishingOK DEF Finishing
  <1>4. /\ slices' = WrittenBack(hp) /\ tokens' = tokens \cup {IssuedTokens(hp)}
        /\ uses' = IF hp.code = 0 THEN uses ELSE [uses EXCEPT ![hp.code] = @ + 1]
    BY DEF IssueTokens
  <1>5. handlers'[p] = Idle /\ \A q \in Handlers : q # p => handlers'[q] = handlers[q]
    BY <1>1 DEF IssueTokens, TypeOK
  <1>6. UNCHANGED <<clients, authContext, codeMeta, sessions, nConsents, sent, bindings>>
    BY DEF IssueTokens
  <1>8. DynamicKept /\ RegistryInv'
    BY <1>6 DEF DynamicKept, RegistryInv, InductiveInv
  <1>9. ASSUME NEW c \in Consents, NEW a \in SUBSET ClientIDs, NEW i \in ClientIDs
        PROVE  /\ slices'[c][a][i].csid = slices[c][a][i].csid
               /\ slices'[c][a][i].uri = slices[c][a][i].uri
               /\ slices[c][a][i].csid # 0 => slices'[c][a][i].adv.sub = slices[c][a][i].adv.sub
    <2>1. EntryOK(c, a, i)
      BY DEF InductiveInv, EntryInv
    <2>2. LET after == WrittenBack(hp)[c][a][i] IN
          \/ after = slices[c][a][i]
          \/ /\ slices[c][a][i].csid = hp.csid /\ after.csid = slices[c][a][i].csid
             /\ after.uri = slices[c][a][i].uri /\ after.adv = hp.adv
      BY <1>1, <1>2, WrittenBackEntries, Zenon
    <2>3. \/ slices'[c][a][i] = slices[c][a][i]
          \/ /\ slices[c][a][i].csid = hp.csid /\ slices'[c][a][i].csid = slices[c][a][i].csid
             /\ slices'[c][a][i].uri = slices[c][a][i].uri /\ slices'[c][a][i].adv = hp.adv
      BY <1>4, <2>2, Zenon
    <2>4. slices[c][a][i].csid # 0 /\ slices[c][a][i].csid = hp.csid => hp.adv.sub = slices[c][a][i].adv.sub
      BY <1>3, <2>1 DEF EntryOK
    <2> QED BY <2>3, <2>4
  <1>10. EntriesKept
    BY <1>9 DEF EntriesKept
  <1>11. EntryInv'
    <2> SUFFICES ASSUME NEW c \in Consents, NEW a \in SUBSET ClientIDs, NEW i \in ClientIDs
                 PROVE  EntryOK(c, a, i)'
      BY DEF EntryInv
    <2>1. EntryOK(c, a, i)
      BY DEF InductiveInv, EntryInv
    <2> QED BY <1>6, <1>9, <2>1 DEF EntryOK, Live
  <1>12. Evolves
    BY <1>1, <1>6, <1>8, <1>10, CounterType DEF Evolves, BindingsKept, SessionsKept, CodesKept
  <1>13. RequestInv' /\ RedirectInv' /\ SessionInv'
    BY <1>1, <1>6, <1>12, RequestInvKept, RedirectInvKept, SessionInvKept DEF InductiveInv
  <1>14. /\ hp.code # 0 => uses[hp.code] = 0 /\ uses'[hp.code] \in {0, 1}
         /\ \A k \in Codes : k # hp.code => uses'[k] = uses[k]
    BY <1>1, <1>2, <1>3, <1>4 DEF TypeOK, GrantOK
  <1>15. \A q \in Handlers, k \in Codes : q # p /\ Holds(q, k) => k # hp.code
    <2>1. \A k \in Codes : hp.code = k => Holds(p, k)
      BY <1>2 DEF Holds, Finishing
    <2> QED BY <2>1 DEF InductiveInv, CodeInv
  <1>16. HandlerInv'
    <2>1. HandlerOK(handlers[p])'
      BY <1>5 DEF Idle, HandlerOK, Finishing
    <2> QED BY <1>1, <1>5, <1>12, <1>14, <1>15, <2>1, HandlerInvKept DEF InductiveInv
  <1>17. CodeInv'
    <2>1. ASSUME NEW k \in Codes, NEW q \in Handlers, NEW r \in Handlers, Holds(q, k)', Holds(r, k)'
          PROVE  q = r
      <3>1. Holds(q, k) /\ Holds(r, k)
        BY <1>5, <2>1 DEF Holds, Finishing, Idle
      <3> QED BY <3>1 DEF InductiveInv, CodeInv
    <2>2. ASSUME NEW k \in Codes
          PROVE  /\ codeMeta[k] # None =>
                      /\ sent[k] # None /\ uses'[k] = 0
                      /\ codeMeta[k] = [cookie |-> sent[k].cookie, client |-> sent[k].req.client]
                 /\ sent[k] = None => codeMeta[k] = None /\ uses'[k] = 0
                 /\ uses'[k] <= 1
      <3>1. CASE k = hp.code
        BY <1>3, <1>14, <3>1 DEF GrantOK, Codes
      <3>2. CASE k # hp.code
        BY <1>14, <3>2 DEF InductiveInv, CodeInv
      <3> QED BY <3>1, <3>2
    <2> QED BY <1>6, <2>1, <2>2 DEF CodeInv
  <1>18. TokenInv'
    <2> SUFFICES ASSUME NEW t \in tokens'
                 PROVE  /\ t.csid # 0 /\ bindings[t.csid] # None
                        /\ bindings[t.csid].client = t.client
                        /\ bindings[t.csid].sub = t.adv.sub
                        /\ t.client \in DynamicClients =>
                             /\ clients[t.client] # None
                             /\ clients[t.client].auth = "secret" => t.cred = t.client
      BY <1>6 DEF TokenInv
    <2>1. CASE t \in tokens
      BY <2>1 DEF InductiveInv, TokenInv
    <2>2. CASE t \notin tokens
      <3>1. t.client = hp.client /\ t.csid = hp.csid /\ t.cred = hp.cred /\ t.adv = hp.adv
        BY <1>4, <2>2 DEF IssuedTokens
      <3>2. bindings[hp.csid] # None
        BY <1>1, <1>2, <1>3, NoneAssumption DEF Binding, AdvertisedSubs, FinishState
      <3> QED BY <1>3, <3>1, <3>2
    <2> QED BY <2>1, <2>2
  <1>19. FreshInv' /\ OneSessionPerSub'
    BY <1>6 DEF InductiveInv, FreshInv, OneSessionPerSub, Live
  <1> QED BY <1>1, <1>8, <1>11, <1>13, <1>16, <1>17, <1>18, <1>19 DEF InductiveInv

-----------------------------------------------------------------------------
(* The commit of an approval. *)

\* The session /approve works on is the only one of its user; it is live, or
\* its cookie is fresh.  No array of that session holds a client session for
\* anybody outside it, so an array append moves to was never used before.
FoundOK(sub, old) ==
    /\ old \in session /\ old.sub = sub /\ old.arr \subseteq old.ids
    /\ \/ old.cookie <= nConsents /\ sessions[old.cookie] = old /\ Live(old.cookie)
       \/ old.cookie = nConsents + 1 /\ old.ids = {} /\ ~Live(old.cookie)
    /\ \A i \in old.ids :
         slices[old.cookie][old.arr][i].csid # 0 /\ slices[old.cookie][old.arr][i].adv.sub = sub
    /\ \A a \in SUBSET ClientIDs, i \in ClientIDs :
         slices[old.cookie][a][i].csid # 0 => a \cup {i} \subseteq old.ids
    /\ \A d \in Consents : Live(d) /\ sessions[d].sub = sub => d = old.cookie

\* FoundOrNewSession only offers such sessions.
LEMMA FoundSession ==
    ASSUME InductiveInv, nConsents + 1 \in Consents, NEW sub \in Subs, NEW old \in FoundOrNewSession(sub)
    PROVE  FoundOK(sub, old)
  <1> USE DEF FoundOK
  <1>1. TypeOK /\ nConsents \in Int
    BY CounterType DEF InductiveInv
  <1>2. CASE SessionsOfSub(sub) # {}
    <2>1. PICK c \in Consents : Live(c) /\ sessions[c].sub = sub /\ old = sessions[c]
      BY <1>2 DEF FoundOrNewSession, SessionsOfSub
    <2>2. old \in session /\ old.cookie = c /\ SessionOK(old)
      BY <1>1, <2>1, LiveType DEF InductiveInv, SessionInv
    <2>3. \A a \in SUBSET ClientIDs, i \in ClientIDs :
            slices[c][a][i].csid # 0 => a \cup {i} \subseteq old.ids
      BY <2>1 DEF InductiveInv, EntryInv, EntryOK
    <2>4. \A d \in Consents : Live(d) /\ sessions[d].sub = sub => d = c
      BY <2>1 DEF InductiveInv, OneSessionPerSub
    <2> QED BY <2>1, <2>2, <2>3, <2>4 DEF SessionOK
  <1>3. CASE SessionsOfSub(sub) = {}
    <2>1. old = [sub |-> sub, cookie |-> nConsents + 1, arr |-> {}, ids |-> {}]
      BY <1>3 DEF FoundOrNewSession
    <2>2. old \in session
      BY <2>1 DEF session
    <2>3. ~Live(nConsents + 1)
      BY <1>1 DEF Live, InductiveInv, FreshInv
    <2>4. \A a \in SUBSET ClientIDs, i \in ClientIDs : slices[nConsents + 1][a][i].csid = 0
      <3> SUFFICES ASSUME NEW a \in SUBSET ClientIDs, NEW i \in ClientIDs
                   PROVE  slices[nConsents + 1][a][i].csid = 0
        OBVIOUS
      <3>1. EntryOK(nConsents + 1, a, i)
        BY DEF InductiveInv, EntryInv
      <3> QED BY <1>1, <3>1 DEF EntryOK
    <2>5. \A d \in Consents : ~(Live(d) /\ sessions[d].sub = sub)
      BY <1>3 DEF SessionsOfSub
    <2> QED BY <2>1, <2>2, <2>3, <2>4, <2>5
  <1> QED BY <1>2, <1>3

\* The two ways upsertClientSession goes: overwrite, or append a client session
\* with a SessionID nobody had.
LEMMA Upserted ==
    ASSUME InductiveInv, nConsents + 1 \in Consents, NEW ctx \in authContextEntry,
           NEW old \in FoundOrNewSession(ctx.sub), NEW sub \in {OfferedSub(ctx)} \cup EditedSubs
    PROVE  LET sess == UpsertedSession(old, ctx.req.client)
               cs   == ConsentedClientSession(old, ctx, sub)
           IN  /\ sess.sub = ctx.sub /\ sess.cookie = old.cookie /\ sess.ids = old.ids \cup {ctx.req.client}
               /\ cs.adv.sub = ctx.sub /\ cs.uri = ctx.req.uri /\ cs.csid # 0
               /\ ctx.req.client \in old.ids =>
                    /\ sess.arr = old.arr
                    /\ cs.csid = slices[old.cookie][old.arr][ctx.req.client].csid
               /\ ctx.req.client \notin old.ids =>
                    sess.arr \in {old.arr, sess.ids} /\ cs.csid = nConsents + 1
  <1> DEFINE sess == UpsertedSession(old, ctx.req.client)
             cs   == ConsentedClientSession(old, ctx, sub)
  <1>1. ctx.sub \in Subs /\ nConsents \in Nat
    BY DEF authContextEntry, InductiveInv, TypeOK
  <1>a. FoundOK(ctx.sub, old)
    BY <1>1, FoundSession
  <1>2. /\ old \in session
        /\ \A i \in old.ids : slices[old.cookie][old.arr][i].csid # 0
    BY <1>a DEF FoundOK
  <1>3. /\ sess.sub = old.sub /\ sess.cookie = old.cookie /\ sess.ids = old.ids \cup {ctx.req.client}
        /\ sess.arr = IF ctx.req.client \notin old.ids /\ AppendReallocates(old)
                      THEN old.ids \cup {ctx.req.client} ELSE old.arr
    BY <1>2 DEF UpsertedSession, session
  <1>4. old.sub = ctx.sub
    BY <1>a DEF FoundOK
  <1>5. cs.adv.sub = ctx.sub /\ cs.uri = ctx.req.uri
    BY DEF ConsentedClientSession, OfferedSub, computeAdvertisedSub
  <1>6. cs.csid = IF ctx.req.client \in old.ids THEN slices[old.cookie][old.arr][ctx.req.client].csid
                  ELSE nConsents + 1
    BY DEF ConsentedClientSession, ClientSession, NewSessionID
  <1> HIDE DEF sess, cs
  <1>7. /\ sess.sub = ctx.sub /\ sess.cookie = old.cookie /\ sess.ids = old.ids \cup {ctx.req.client}
        /\ cs.adv.sub = ctx.sub /\ cs.uri = ctx.req.uri /\ cs.csid # 0
        /\ ctx.req.client \in old.ids =>
             /\ sess.arr = old.arr
             /\ cs.csid = slices[old.cookie][old.arr][ctx.req.client].csid
        /\ ctx.req.client \notin old.ids =>
             sess.arr \in {old.arr, sess.ids} /\ cs.csid = nConsents + 1
    BY <1>1, <1>2, <1>3, <1>4, <1>5, <1>6
  <1> QED BY <1>7 DEF sess, cs

LEMMA InvCommit ==
    ASSUME InductiveInv, TypeOK', NEW p \in Handlers, handlers[p].pc = "approve",
           NEW ctx, ctx = handlers[p].ctx, NEW old \in FoundOrNewSession(ctx.sub),
           NEW sub \in {OfferedSub(ctx)} \cup EditedSubs,
           NEW sess, sess = UpsertedSession(old, ctx.req.client),
           NEW cs, cs = ConsentedClientSession(old, ctx, sub), CommitConsent(p, ctx, old, sub)
    PROVE  InductiveInv'
  <1> DEFINE client == ctx.req.client
             n      == nConsents + 1
  <1>1. TypeOK /\ nConsents \in Nat /\ nConsents < MaxConsents /\ nConsents' = n /\ n \in Consents
    <2>1. TypeOK
      BY DEF InductiveInv
    <2>2. nConsents \in Nat
      BY <2>1, ConstantsAssumption DEF TypeOK
    <2>3. nConsents < MaxConsents /\ nConsents' = n
      BY DEF CommitConsent
    <2> QED BY <2>1, <2>2, <2>3, ApproveCommitTypes
  <1>2. /\ ctx \in authContextEntry /\ ctx.sub \in Subs /\ client \in ClientIDs /\ handlers[p].r \in Requests
        /\ old \in session /\ sess \in session /\ cs \in clientSession
    BY <1>1, ApproveCommitTypes
  <1>3. RequestOK(ctx.req)
    BY DEF InductiveInv, HandlerInv, HandlerOK, Finishing
  <1>4. /\ old.sub = ctx.sub /\ old.arr \subseteq old.ids
        /\ \/ old.cookie <= nConsents /\ sessions[old.cookie] = old /\ Live(old.cookie)
           \/ old.cookie = n /\ old.ids = {} /\ ~Live(old.cookie)
        /\ \A i \in old.ids :
             slices[old.cookie][old.arr][i].csid # 0 /\ slices[old.cookie][old.arr][i].adv.sub = ctx.sub
        /\ \A a \in SUBSET ClientIDs, i \in ClientIDs :
             slices[old.cookie][a][i].csid # 0 => a \cup {i} \subseteq old.ids
        /\ \A d \in Consents : Live(d) /\ sessions[d].sub = ctx.sub => d = old.cookie
    <2>1. nConsents + 1 \in Consents
      BY <1>1
    <2>2. FoundOK(ctx.sub, old)
      BY <1>2, <2>1, FoundSession
    <2> QED BY <2>2 DEF FoundOK
  <1>5. /\ sess.sub = ctx.sub /\ sess.cookie = old.cookie /\ sess.ids = old.ids \cup {client}
        /\ cs.adv.sub = ctx.sub /\ cs.uri = ctx.req.uri /\ cs.csid # 0
        /\ client \in old.ids =>
             sess.arr = old.arr /\ cs.csid = slices[old.cookie][old.arr][client].csid
        /\ client \notin old.ids => sess.arr \in {old.arr, sess.ids} /\ cs.csid = n
    <2>1. nConsents + 1 \in Consents /\ ctx \in authContextEntry
      BY <1>1, <1>2
    <2> QED BY <2>1, Upserted
  <1>6. /\ old.cookie \in Consents /\ old.arr \in SUBSET ClientIDs /\ old.ids \in SUBSET ClientIDs
        /\ sess.arr \in SUBSET ClientIDs /\ sess.ids \in SUBSET ClientIDs /\ sess.arr \subseteq sess.ids
        /\ old.cookie <= n /\ old.cookie \in Nat
    <2>1. /\ old.cookie \in Consents /\ old.arr \in SUBSET ClientIDs /\ old.ids \in SUBSET ClientIDs
          /\ sess.arr \in SUBSET ClientIDs /\ sess.ids \in SUBSET ClientIDs
      BY <1>2 DEF session
    <2>2. sess.arr \subseteq sess.ids
      BY <1>4, <1>5
    <2>3. old.cookie <= n /\ old.cookie \in Nat
      BY <1>1, <1>4, <2>1 DEF Consents
    <2> QED BY <2>1, <2>2, <2>3
  <1>7. sessions'[old.cookie] = sess /\ \A d \in Consents : d # old.cookie => sessions'[d] = sessions[d]
    BY <1>1, <1>6 DEF CommitConsent, TypeOK
  <1>8. \A c \in Consents, a \in SUBSET ClientIDs, i \in ClientIDs :
          /\ c # old.cookie \/ a # sess.arr => slices'[c][a][i] = slices[c][a][i]
          /\ c = old.cookie /\ a = sess.arr /\ i # client => slices'[c][a][i] = slices[c][old.arr][i]
          /\ c = old.cookie /\ a = sess.arr /\ i = client => slices'[c][a][i] = cs
    <2> DEFINE f == [slices[old.cookie][old.arr] EXCEPT ![client] = cs]
    <2>1. slices[old.cookie][old.arr] \in [ClientIDs -> clientSession]
      <3>1. \A c \in Consents : slices[c] \in [SUBSET ClientIDs -> [ClientIDs -> clientSession]]
        BY <1>1 DEF TypeOK
      <3>2. \A c \in Consents, a \in SUBSET ClientIDs : slices[c][a] \in [ClientIDs -> clientSession]
        BY <3>1
      <3> QED BY <1>6, <3>2, Zenon
    <2>2. f[client] = cs /\ \A i \in ClientIDs : i # client => f[i] = slices[old.cookie][old.arr][i]
      BY <1>2, <2>1
    <2>3. slices' = StoreArray(old.cookie, sess.arr, f)
      BY DEF CommitConsent
    <2> HIDE DEF f
    <2>4. /\ slices'[old.cookie][sess.arr] = f
          /\ \A d \in Consents, b \in SUBSET ClientIDs :
                (d # old.cookie \/ b # sess.arr) => slices'[d][b] = slices[d][b]
      BY <1>1, <1>6, <2>3, StoreArrayReads
    <2> QED BY <2>2, <2>4
  <1>9. /\ client \in old.ids => bindings' = bindings
        /\ client \notin old.ids => bindings'[n] = [cookie |-> old.cookie, client |-> client, sub |-> ctx.sub]
        /\ \A m \in Consents : m # n => bindings'[m] = bindings[m]
    BY <1>1, <1>5 DEF CommitConsent, TypeOK
  <1>10. UNCHANGED <<clients, codeMeta, sent, tokens, uses>>
    BY DEF CommitConsent
  <1>11. /\ handlers'[p] = [pc |-> "issue", sess |-> sess, req |-> ctx.req, consent |-> n]
         /\ \A q \in Handlers : q # p => handlers'[q] = handlers[q]
    BY <1>1 DEF CommitConsent, TypeOK
  <1>12. BindingsKept
    BY <1>1, <1>9 DEF BindingsKept, InductiveInv, FreshInv
  <1>13. \A c \in Consents, a \in SUBSET ClientIDs, i \in ClientIDs : EntryOK(c, a, i)
    BY DEF InductiveInv, EntryInv
  <1> HIDE DEF client, n
  <1>14. EntriesKept
    <2> SUFFICES ASSUME NEW c \in Consents, NEW a \in SUBSET ClientIDs, NEW i \in ClientIDs,
                        slices[c][a][i].csid # 0
                 PROVE  /\ slices'[c][a][i].csid = slices[c][a][i].csid
                        /\ slices'[c][a][i].adv.sub = slices[c][a][i].adv.sub
      BY DEF EntriesKept
    <2>1. CASE c # old.cookie \/ a # sess.arr
      BY <1>8, <2>1
    <2>2. CASE c = old.cookie /\ a = sess.arr
      <3>1. a \cup {i} \subseteq old.ids
        BY <1>4, <2>2
      <3>2. a = old.arr
        BY <1>5, <2>2, <3>1
      <3> QED BY <1>4, <1>5, <1>8, <2>2, <3>1, <3>2
    <2> QED BY <2>1, <2>2
  <1>15. EntryInv'
    <2> SUFFICES ASSUME NEW c \in Consents, NEW a \in SUBSET ClientIDs, NEW i \in ClientIDs,
                        slices'[c][a][i].csid # 0
                 PROVE  /\ c <= n
                        /\ Live(c)' => a \cup {i} \subseteq sessions'[c].ids
                        /\ bindings'[slices'[c][a][i].csid]
                             = [cookie |-> c, client |-> i, sub |-> slices'[c][a][i].adv.sub]
                        /\ i \in DynamicClients => clients[i] # None /\ slices'[c][a][i].uri \in clients[i].uris
      BY <1>1, <1>10 DEF EntryInv, EntryOK
    <2>1. ASSUME NEW b \in SUBSET ClientIDs, slices[c][b][i].csid # 0
          PROVE  /\ c <= n
                 /\ bindings'[slices[c][b][i].csid]
                      = [cookie |-> c, client |-> i, sub |-> slices[c][b][i].adv.sub]
                 /\ i \in DynamicClients => clients[i] # None /\ slices[c][b][i].uri \in clients[i].uris
      <3>1. EntryOK(c, b, i)
        BY <1>13
      <3>2. slices[c][b][i].csid \in Consents
        <4>1. slices[c][b][i] \in clientSession
          BY <1>1 DEF TypeOK
        <4> QED BY <2>1, <4>1 DEF clientSession
      <3>3. slices[c][b][i].adv.sub \in Subs
        BY <1>1, <2>1 DEF TypeOK, clientSession, AdvertisedSubs
      <3>4. bindings[slices[c][b][i].csid] # None
        BY <2>1, <3>1, <3>3, NoneAssumption DEF EntryOK, Binding
      <3>5. c <= n
        BY <1>1, <2>1, <3>1 DEF EntryOK, Consents, n
      <3>6. /\ bindings[slices[c][b][i].csid]
                 = [cookie |-> c, client |-> i, sub |-> slices[c][b][i].adv.sub]
            /\ i \in DynamicClients => clients[i] # None /\ slices[c][b][i].uri \in clients[i].uris
        BY <2>1, <3>1 DEF EntryOK
      <3>7. bindings'[slices[c][b][i].csid] = bindings[slices[c][b][i].csid]
        BY <1>12, <3>2, <3>4 DEF BindingsKept
      <3> QED BY <3>5, <3>6, <3>7
    <2>2. CASE c # old.cookie
      <3>1. slices'[c][a][i] = slices[c][a][i]
        BY <1>8, <2>2
      <3>2. Live(c)' => a \cup {i} \subseteq sessions'[c].ids
        <4>1. sessions'[c] = sessions[c]
          BY <1>7, <2>2
        <4>2. EntryOK(c, a, i) /\ slices[c][a][i].csid # 0
          BY <1>13, <3>1
        <4>3. Live(c) => a \cup {i} \subseteq sessions[c].ids
          BY <4>2 DEF EntryOK
        <4> QED BY <4>1, <4>3 DEF Live
      <3> QED BY <2>1, <3>1, <3>2
    <2>3. CASE c = old.cookie /\ a # sess.arr
      <3>1. slices'[c][a][i] = slices[c][a][i]
        BY <1>8, <2>3
      <3>2. a \cup {i} \subseteq sess.ids
        BY <1>4, <1>5, <2>3, <3>1
      <3> QED BY <1>7, <2>1, <2>3, <3>1, <3>2
    <2>4. CASE c = old.cookie /\ a = sess.arr /\ i # client
      <3>1. slices'[c][a][i] = slices[c][old.arr][i]
        BY <1>8, <2>4
      <3>2. i \in old.ids
        <4>1. slices[old.cookie][old.arr][i].csid # 0
          BY <2>4, <3>1
        <4> QED BY <1>4, <1>6, <4>1
      <3>3. a \cup {i} \subseteq sess.ids
        BY <1>5, <1>6, <2>4, <3>2
      <3>4. slices[c][old.arr][i].csid # 0 /\ old.arr \in SUBSET ClientIDs
        BY <1>6, <3>1
      <3> QED BY <1>7, <2>1, <2>4, <3>1, <3>3, <3>4
    <2>5. CASE c = old.cookie /\ a = sess.arr /\ i = client
      <3>1. slices'[c][a][i] = cs
        BY <1>8, <2>5
      <3>2. bindings'[cs.csid] = [cookie |-> c, client |-> client, sub |-> ctx.sub]
        <4>1. CASE client \in old.ids
          <5>1. cs.csid = slices[c][old.arr][i].csid /\ slices[c][old.arr][i].adv.sub = ctx.sub
            BY <1>4, <1>5, <2>5, <4>1
          <5>2. slices[c][old.arr][i].csid # 0 /\ old.arr \in SUBSET ClientIDs
            BY <1>5, <1>6, <5>1
          <5> QED BY <2>1, <2>5, <5>1, <5>2
        <4>2. CASE client \notin old.ids
          BY <1>5, <1>9, <2>5, <4>2
        <4> QED BY <4>1, <4>2
      <3>3. client \in DynamicClients => clients[client] # None /\ cs.uri \in clients[client].uris
        BY <1>3, <1>5 DEF RequestOK, client
      <3>4. a \cup {i} \subseteq sess.ids
        BY <1>5, <1>6, <2>5
      <3> QED BY <1>5, <1>6, <1>7, <2>5, <3>1, <3>2, <3>3, <3>4
    <2> QED BY <2>2, <2>3, <2>4, <2>5
  <1>16. SessionsKept
    BY <1>1, <1>4, <1>5, <1>7 DEF SessionsKept, n, Live
  <1>17. Evolves
    BY <1>1, <1>10, <1>12, <1>14, <1>16 DEF Evolves, DynamicKept, CodesKept, n
  <1>18. SessionOK(sess)'
    <2>1. ASSUME NEW i \in sess.ids
          PROVE  slices'[sess.cookie][sess.arr][i].csid # 0 /\ slices'[sess.cookie][sess.arr][i].adv.sub = sess.sub
      <3>1. CASE i = client
        <4>1. slices'[old.cookie][sess.arr][i] = cs
          BY <1>2, <1>6, <1>8, <3>1
        <4> QED BY <1>5, <4>1
      <3>2. CASE i # client
        <4>1. i \in old.ids /\ i \in ClientIDs
          BY <1>5, <1>6, <3>2
        <4>2. slices'[old.cookie][sess.arr][i] = slices[old.cookie][old.arr][i]
          BY <1>6, <1>8, <3>2, <4>1
        <4>3. slices[old.cookie][old.arr][i].csid # 0 /\ slices[old.cookie][old.arr][i].adv.sub = ctx.sub
          BY <1>4, <4>1
        <4>4. sess.cookie = old.cookie /\ sess.sub = ctx.sub
          BY <1>5
        <4> QED BY <4>2, <4>3, <4>4
      <3> QED BY <3>1, <3>2
    <2>2. sess.cookie <= nConsents' /\ sess.ids \subseteq sessions'[sess.cookie].ids
      BY <1>1, <1>5, <1>6, <1>7
    <2> QED BY <1>6, <2>1, <2>2 DEF SessionOK
  <1>19. SessionInv'
    <2> SUFFICES ASSUME NEW c \in Consents, Live(c)'
                 PROVE  sessions'[c].cookie = c /\ SessionOK(sessions[c])'
      BY DEF SessionInv
    <2>1. CASE c = old.cookie
      BY <1>5, <1>7, <1>18, <2>1
    <2>2. CASE c # old.cookie
      <3>1. Live(c) /\ sessions'[c] = sessions[c]
        BY <1>7, <2>2 DEF Live
      <3>2. sessions[c] \in session /\ sessions[c].cookie = c /\ SessionOK(sessions[c])
        BY <1>1, <3>1, LiveType DEF InductiveInv, SessionInv
      <3> QED BY <1>1, <1>17, <3>1, <3>2, SessionOKKept
    <2> QED BY <2>1, <2>2
  <1>20. OneSessionPerSub'
    <2> SUFFICES ASSUME NEW c \in Consents, NEW d \in Consents, Live(c)', Live(d)',
                        sessions'[c].sub = sessions'[d].sub
                 PROVE  c = d
      BY DEF OneSessionPerSub
    <2>1. ASSUME NEW e \in Consents, e # old.cookie, Live(e)'
          PROVE  Live(e) /\ sessions'[e] = sessions[e] /\ sessions[e].sub # ctx.sub
      BY <1>4, <1>7, <2>1 DEF Live
    <2> QED BY <1>5, <1>7, <2>1 DEF InductiveInv, OneSessionPerSub
  <1>21. FreshInv'
    <2> SUFFICES ASSUME NEW m \in Consents, m > nConsents'
                 PROVE  sessions'[m] = None /\ bindings'[m] = None
      BY DEF FreshInv
    <2>1. m \in Int /\ m > nConsents /\ m # n /\ m # old.cookie
      BY <1>1, <1>6 DEF Consents, n
    <2> QED BY <1>7, <1>9, <2>1 DEF InductiveInv, FreshInv
  <1>22. HandlerInv'
    <2>1. HandlerOK(handlers[p])'
      <3>1. RequestOK(ctx.req)'
        BY <1>3, <1>10 DEF RequestOK
      <3> QED BY <1>11, <1>18, <3>1 DEF HandlerOK, Finishing
    <2> QED BY <1>1, <1>10, <1>11, <1>17, <2>1, HandlerInvKept DEF InductiveInv
  <1>23. CodeInv'
    <2>1. \A q \in Handlers, k \in Codes : Holds(q, k)' => Holds(q, k)
      BY <1>11 DEF Holds, Finishing
    <2> QED BY <1>10, <2>1, CodeInvKept DEF InductiveInv
  <1>24. RequestInv' /\ RedirectInv' /\ TokenInv' /\ RegistryInv'
    <2>1. \A r \in Requests : authContext'[r] \in {authContext[r], None}
      BY <1>1 DEF CommitConsent, TypeOK
    <2>2. RequestInv'
      BY <1>17, <2>1, RequestInvKept DEF InductiveInv
    <2>3. RedirectInv' /\ TokenInv'
      BY <1>1, <1>10, <1>17, RedirectInvKept, TokenInvKept DEF InductiveInv
    <2> QED BY <1>10, <2>2, <2>3 DEF RegistryInv, InductiveInv
  <1> QED BY <1>15, <1>19, <1>20, <1>21, <1>22, <1>23, <1>24 DEF InductiveInv

LEMMA InvApproveCommit ==
    ASSUME InductiveInv, NEW p \in Handlers, ApproveCommit(p)
    PROVE  InductiveInv'
  <1>1. PICK ctx : ctx = handlers[p].ctx
    OBVIOUS
  <1>2. PICK old \in FoundOrNewSession(ctx.sub), sub \in {OfferedSub(ctx)} \cup EditedSubs :
          CommitConsent(p, ctx, old, sub)
    BY <1>1 DEF ApproveCommit
  <1>3. PICK sess : sess = UpsertedSession(old, ctx.req.client)
    OBVIOUS
  <1>4. PICK cs : cs = ConsentedClientSession(old, ctx, sub)
    OBVIOUS
  <1>5. TypeOK'
    BY TypeApproveCommit DEF InductiveInv
  <1>6. handlers[p].pc = "approve"
    BY DEF ApproveCommit
  <1> QED BY <1>1, <1>2, <1>3, <1>4, <1>5, <1>6, InvCommit

-----------------------------------------------------------------------------
(* The theorems. *)

LEMMA InvInit == Init => InductiveInv
  <1> SUFFICES ASSUME Init PROVE InductiveInv OBVIOUS
  <1>1. TypeOK
    BY TypeInit
  <1>2. RegistryInv /\ FreshInv /\ RequestInv /\ SessionInv /\ OneSessionPerSub
    BY DEF Init, RegistryInv, FreshInv, RequestInv, SessionInv, OneSessionPerSub, Live, Clients
  <1>3. EntryInv
    BY DEF Init, EntryInv, EntryOK, NoClientSession
  <1>4. CodeInv /\ RedirectInv /\ HandlerInv /\ TokenInv
    BY DEF Init, CodeInv, Holds, Idle, RedirectInv, HeldCodes, HandlerInv, HandlerOK, Finishing, TokenInv
  <1> QED BY <1>1, <1>2, <1>3, <1>4 DEF InductiveInv

LEMMA InvNext == InductiveInv /\ [Next]_vars => InductiveInv'
  <1> SUFFICES ASSUME InductiveInv, [Next]_vars PROVE InductiveInv' OBVIOUS
  <1>0. TypeOK'
    BY TypeNext DEF InductiveInv
  <1>1. CASE Registering
    BY <1>1, InvRegistering
  <1>2. CASE Authorizing
    BY <1>2, InvAuthorizing
  <1>3. CASE \E r \in Requests, user \in Users : login(r, user)
    BY <1>3, InvLogin
  <1>4. CASE Approving
    BY <1>4, InvApproveRead, InvApproveCommit, InvIssueCode DEF Approving
  <1>5. CASE Exchanging
    BY <1>0, <1>5, InvTakeCode, InvSnapshotSession, InvVerifyPKCE, InvRefreshGrant,
       InvReadAdvertisedSub, InvReadClaims, InvAuthenticateRegistered, InvReadMetadataRegistration,
       InvResolveMetadata, InvIssueTokens DEF Exchanging
  <1>6. CASE \E c \in Consents : EndSession(c)
    BY <1>0, <1>6, InvEndSession
  <1>7. CASE UNCHANGED vars
    <2>1. DynamicKept /\ RegistryInv' /\ EntriesKept
      BY <1>7 DEF vars, serverVars, DynamicKept, RegistryInv, EntriesKept, InductiveInv
    <2>2. EntryInv'
      BY <1>7, <2>1, EntryInvKept DEF vars, serverVars, historyVars, InductiveInv
    <2> QED BY <1>0, <1>7, <2>1, <2>2, QuietStep DEF vars, serverVars, historyVars
  <1> QED BY <1>1, <1>2, <1>3, <1>4, <1>5, <1>6, <1>7 DEF Next

\* InductiveInv is an invariant: it holds initially and every step keeps it.
THEOREM Invariance == Spec => []InductiveInv
  BY InvInit, InvNext, PTL DEF Spec

\* However exchanges of one code overlap, in however many handlers, token
\* answers with tokens at most once per code.
THEOREM SingleUse == Spec => []CodeRedeemedOnce
  <1>1. InductiveInv => CodeRedeemedOnce
    BY DEF InductiveInv, CodeInv, CodeRedeemedOnce
  <1> QED BY <1>1, Invariance, PTL

\* approve never gives a user a second session.
THEOREM OneSession == Spec => []OneSessionPerSub
  <1>1. InductiveInv => OneSessionPerSub
    BY DEF InductiveInv
  <1> QED BY <1>1, Invariance, PTL

\* Tokens are for the client, user and browser session their grant is for, with
\* any number of exchanges, approvals and logouts in between and whatever users
\* write in their consent forms.
THEOREM TokenBinding == Spec => []TokensBoundToTheirGrant
  <1>1. InductiveInv => TokensBoundToTheirGrant
    <2> SUFFICES ASSUME InductiveInv PROVE TokensBoundToTheirGrant OBVIOUS
    <2>1. ASSUME NEW t \in tokens
          PROVE  /\ t.csid \in Consents /\ bindings[t.csid] # None
                 /\ bindings[t.csid].client = t.client /\ bindings[t.csid].sub = t.adv.sub
      <3>1. t \in Token
        BY DEF InductiveInv, TypeOK
      <3> QED BY <3>1 DEF InductiveInv, TokenInv, Token
    <2>2. ASSUME NEW p \in Handlers, handlers[p].pc = "finish", handlers[p].code # 0
          PROVE  /\ handlers[p].client = sent[handlers[p].code].req.client
                 /\ bindings[handlers[p].csid].cookie = sent[handlers[p].code].cookie
      <3>1. HandlerOK(handlers[p])
        BY DEF InductiveInv, HandlerInv
      <3>2. /\ GrantOK(handlers[p].code, handlers[p].cookie, handlers[p].client)
            /\ bindings[handlers[p].csid].cookie = handlers[p].cookie
        BY <2>2, <3>1 DEF HandlerOK, Finishing
      <3> QED BY <2>2, <3>2 DEF GrantOK
    <2> QED BY <2>1, <2>2 DEF TokensBoundToTheirGrant
  <1> QED BY <1>1, Invariance, PTL

\* A session that advertises a subject is a session of the user it names.
LEMMA AdvertisedUser ==
    ASSUME InductiveInv, NEW adv, NEW c \in SessionsAdvertising(adv)
    PROVE  sessions[c].sub = adv.sub
  <1>1. PICK i \in sessions[c].ids : ClientSession(sessions[c], i).adv = adv
    BY DEF SessionsAdvertising
  <1>2. c \in Consents /\ Live(c)
    BY DEF SessionsAdvertising
  <1>3. SessionOK(sessions[c])
    BY <1>2 DEF InductiveInv, SessionInv
  <1>4. slices[sessions[c].cookie][sessions[c].arr][i].adv = adv
    BY <1>1 DEF ClientSession
  <1>5. slices[sessions[c].cookie][sessions[c].arr][i].adv.sub = sessions[c].sub
    BY <1>3 DEF SessionOK
  <1> QED BY <1>4, <1>5

\* An id_token_hint leads to nobody's session but that of the user it names, and
\* a refresh token names the user who consented.
THEOREM HintIsUnambiguous == Spec => []HintLeadsToTheUserItNames
  <1>1. InductiveInv => HintLeadsToTheUserItNames
    <2> SUFFICES ASSUME InductiveInv, NEW t \in tokens
                 PROVE  /\ \A c \in SessionsAdvertising(t.adv) : sessions[c].sub = bindings[t.csid].sub
                        /\ \A c \in SessionsAdvertising(t.sub) : sessions[c].sub = t.sub.sub
      BY DEF HintLeadsToTheUserItNames
    <2>1. bindings[t.csid].sub = t.adv.sub
      BY DEF InductiveInv, TokenInv
    <2> QED BY <2>1, AdvertisedUser
  <1> QED BY <1>1, Invariance, PTL

\* Codes of a client that registered itself only go where it registered.
THEOREM RedirectsAreRegistered == Spec => []CodesOnlyToRegisteredURIs
  <1>1. InductiveInv => CodesOnlyToRegisteredURIs
    BY DEF InductiveInv, RedirectInv, CodesOnlyToRegisteredURIs
  <1> QED BY <1>1, Invariance, PTL

\* Nobody gets a confidential client's tokens without its secret.
THEOREM SecretsAreRequired == Spec => []TokensNeedTheClientsSecret
  <1>1. InductiveInv => TokensNeedTheClientsSecret
    BY DEF InductiveInv, TokenInv, TokensNeedTheClientsSecret
  <1> QED BY <1>1, Invariance, PTL
=============================================================================
