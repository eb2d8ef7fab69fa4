--------------------------- MODULE ClientIDMetadata ---------------------------
(***************************************************************************)
(* The cache of client ID metadata documents and of the key sets resolved   *)
(* for them: src/idp-auth-server/clientid_metadata.go and clientKeySet in   *)
(* private_key_jwt.go, for one client identifier URL (entries of different  *)
(* clients never meet).                                                     *)
(*                                                                          *)
(* The client publishes version after version of its document, each with    *)
(* keys of its own.  server.mu is never held across a fetch, so a request   *)
(* is a sequence of steps: look at the cache, wait for the answer, store    *)
(* it.  Time passes only while requests wait for the network: Tick.         *)
(* Instants are kept as the time left until them, which needs no horizon.   *)
(***************************************************************************)
EXTENDS Integers

CONSTANTS
    MaxVersion,     \* bound: versions the client publishes
    PublicVersions, \* versions that declare token_endpoint_auth_method "none"
    KeySources,     \* where documents may keep their keys: "jwks", "jwks_uri"
    MaxAges,        \* what Cache-Control: max-age may say, 0 standing for nothing usable
    MinTTL, MaxTTL, DefaultTTL,
    Timeout,        \* of one fetch
    Handlers,       \* slots for requests served concurrently
    None

Versions == 1 .. MaxVersion
MaxLife  == IF DefaultTTL > MaxTTL THEN DefaultTTL ELSE MaxTTL
Uses     == {"authorize", "token"}

(***************************************************************************)
(* How long after a version is superseded its keys can still authenticate   *)
(* the client: the answer is on its way for Timeout, the document lives for *)
(* MaxLife, and inline keys read from it at the last moment may be stored   *)
(* onto the entry of a successor and live as long again.                    *)
(***************************************************************************)
DocumentDelay == Timeout + MaxLife
InlineDelay   == DocumentDelay + MaxLife
AgeCap        == InlineDelay + 1

clientIDMetadataEntry == [reg : Versions, keys : Versions \cup {0}, left : 0 .. MaxLife]

\* A request between two of its steps.
Idle        == [pc |-> "idle"]
Request     == [pc : {"request"}, use : Uses, left : 0 .. Timeout]
Response    == [pc : {"response"}, use : Uses, left : 0 .. Timeout, reg : Versions, ttl : 0 .. MaxLife]
KeysNeeded  == [pc : {"keys"}, reg : Versions]
JwksRequest == [pc : {"jwksRequest"}, left : 0 .. Timeout]
JwksReply   == [pc : {"jwksResponse"}, left : 0 .. Timeout, keys : Versions]
Verify      == [pc : {"verify"}, keys : Versions]
HandlerState == {Idle} \cup Request \cup Response \cup KeysNeeded \cup JwksRequest \cup JwksReply \cup Verify

ASSUME TimesAssumption ==
    /\ MaxVersion \in Nat \ {0} /\ Timeout \in Nat \ {0}
    /\ MinTTL \in Nat \ {0} /\ MaxTTL \in Nat /\ MinTTL <= MaxTTL /\ DefaultTTL \in Nat \ {0}
    /\ MaxAges \subseteq Nat
    /\ KeySources \subseteq {"jwks", "jwks_uri"}
ASSUME EntryAssumption == None \notin clientIDMetadataEntry

VARIABLES
    cache,       \* server.clientIDMetadata[clientID]
    registered,  \* the version in server.clients[clientID], 0 if there is none
    handlers,    \* requests in progress
    source,      \* where this client's documents keep their keys
    published,   \* the version the client's host serves
    age,         \* for how long each version has been superseded
    accepted     \* history: the highest age at which each version's keys were accepted

serverVars == <<cache, registered, handlers>>
vars == <<serverVars, source, published, age, accepted>>

Init ==
    /\ cache = None
    /\ registered = 0
    /\ handlers = [p \in Handlers |-> Idle]
    /\ source \in KeySources
    /\ published = 1
    /\ age = [v \in Versions |-> 0]
    /\ accepted = [v \in Versions |-> 0]

-----------------------------------------------------------------------------
(* The client's host, and time. *)

Publish ==
    /\ published < MaxVersion
    /\ published' = published + 1
    /\ UNCHANGED <<serverVars, source, age, accepted>>

Waiting(hp) == hp.pc \in {"request", "response", "jwksRequest", "jwksResponse"}

\* No fetch outlives its context, and everything but a fetch takes no time.
Tick ==
    /\ \A p \in Handlers : handlers[p] = Idle \/ (Waiting(handlers[p]) /\ handlers[p].left > 0)
    /\ handlers' = [p \in Handlers |->
            IF handlers[p] = Idle THEN Idle ELSE [handlers[p] EXCEPT !.left = @ - 1]]
    /\ cache' = IF cache = None \/ cache.left = 0 THEN cache ELSE [cache EXCEPT !.left = @ - 1]
    /\ age' = [v \in Versions |-> IF v < published /\ age[v] < AgeCap THEN age[v] + 1 ELSE age[v]]
    /\ UNCHANGED <<registered, source, published, accepted>>

-----------------------------------------------------------------------------
(* resolveClientIDMetadata. *)

\* time.Now().Before(entry.expiresAt)
LiveEntry == cache # None /\ cache.left > 0

\* What a request does once it has registration v: /authorize is done with the
\* cache; authenticateClient wants keys unless the client is public.
Resolved(use, v) ==
    IF use = "token" /\ v \notin PublicVersions THEN [pc |-> "keys", reg |-> v] ELSE Idle

\* The first critical section.  authenticateClient resolves only a client it has
\* a registration of.
resolveClientIDMetadata(p, use) ==
    /\ handlers[p] = Idle
    /\ use = "token" => registered # 0
    /\ handlers' = [handlers EXCEPT ![p] =
            IF LiveEntry THEN Resolved(use, cache.reg)
            ELSE [pc |-> "request", use |-> use, left |-> Timeout]]
    /\ UNCHANGED <<cache, registered, source, published, age, accepted>>

\* Mutant: max-age is trusted however long it is.
clientIDMetadataTTLFrom_NoMax(maxAge) ==
    IF maxAge = 0 THEN DefaultTTL ELSE IF maxAge < MinTTL THEN MinTTL ELSE maxAge

\* The clamp.  A max-age so large that seconds * time.Second wraps is brought
\* into the same range.
clientIDMetadataTTLFrom(maxAge) ==
    IF maxAge = 0 THEN DefaultTTL
    ELSE IF maxAge < MinTTL THEN MinTTL ELSE IF maxAge > MaxTTL THEN MaxTTL ELSE maxAge

\* The client's host answers a fetch with what it serves at that moment, and
\* fetchClientIDMetadata takes the lifetime from its header.
Answer(p, maxAge) ==
    /\ handlers[p].pc = "request"
    /\ handlers' = [handlers EXCEPT ![p] =
            [pc |-> "response", use |-> handlers[p].use, left |-> handlers[p].left,
             reg |-> published, ttl |-> clientIDMetadataTTLFrom(maxAge)]]
    /\ UNCHANGED <<cache, registered, source, published, age, accepted>>

\* Mutant: a refresh keeps the keys of the entry it replaces.
StoredEntry_KeepsKeys(reg, ttl) ==
    [reg |-> reg, keys |-> IF cache = None THEN 0 ELSE cache.keys, left |-> ttl]

StoredEntry(reg, ttl) == [reg |-> reg, keys |-> 0, left |-> ttl]

\* Mutant: a client that is known already keeps its registration.
StoredRegistration_FirstWins(reg) == IF registered = 0 THEN reg ELSE registered

StoredRegistration(reg) == reg

\* The second critical section: the document fetched replaces whatever is there.
StoreDocument(p) ==
    LET hp == handlers[p] IN
    /\ hp.pc = "response"
    /\ cache' = StoredEntry(hp.reg, hp.ttl)
    /\ registered' = StoredRegistration(hp.reg)
    /\ handlers' = [handlers EXCEPT ![p] = Resolved(hp.use, hp.reg)]
    /\ UNCHANGED <<source, published, age, accepted>>

\* Mutant: a failed fetch is tried again, for ever.
FetchFails_Retries(p) ==
    /\ Waiting(handlers[p])
    /\ handlers' = [handlers EXCEPT ![p] =
            IF handlers[p].pc \in {"request", "response"}
            THEN [pc |-> "request", use |-> handlers[p].use, left |-> Timeout]
            ELSE [pc |-> "jwksRequest", left |-> Timeout]]
    /\ UNCHANGED <<cache, registered, source, published, age, accepted>>

\* fetchGuardedJSON or the validation of its result fails, the context's timeout
\* included.  Nothing is cached; the request is refused, or a public client is
\* let through on the registration the server has.
FetchFails(p) ==
    /\ Waiting(handlers[p])
    /\ handlers' = [handlers EXCEPT ![p] = Idle]
    /\ UNCHANGED <<cache, registered, source, published, age, accepted>>

-----------------------------------------------------------------------------
(* clientKeySet and the verification of an assertion. *)

StoredKeys(keys) == IF LiveEntry THEN [cache EXCEPT !.keys = keys] ELSE cache

\* The first critical section: the entry's keys if there are any.  Inline keys
\* are those of the registration the request got, not of the entry.
clientKeySet(p) ==
    LET hp == handlers[p] IN
    /\ hp.pc = "keys"
    /\ handlers' = [handlers EXCEPT ![p] =
            IF LiveEntry /\ cache.keys # 0 THEN [pc |-> "verify", keys |-> cache.keys]
            ELSE IF source = "jwks" THEN [pc |-> "jwksResponse", left |-> 0, keys |-> hp.reg]
            ELSE [pc |-> "jwksRequest", left |-> Timeout]]
    /\ UNCHANGED <<cache, registered, source, published, age, accepted>>

\* The host answers with the keys it serves now.  The jwks_uri is that of the
\* registration the request got; the client is taken to use one for all versions
\* of its document, as one that rotates its keys behind a jwks_uri does.
AnswerKeys(p) ==
    /\ handlers[p].pc = "jwksRequest"
    /\ handlers' = [handlers EXCEPT ![p] =
            [pc |-> "jwksResponse", left |-> handlers[p].left, keys |-> published]]
    /\ UNCHANGED <<cache, registered, source, published, age, accepted>>

\* The second critical section: the keys go onto whatever entry is live by now.
StoreKeys(p) ==
    LET hp == handlers[p] IN
    /\ hp.pc = "jwksResponse"
    /\ cache' = StoredKeys(hp.keys)
    /\ handlers' = [handlers EXCEPT ![p] = [pc |-> "verify", keys |-> hp.keys]]
    /\ UNCHANGED <<registered, source, published, age, accepted>>

\* The assertion is signed with the keys of version v.
verifyPrivateKeyJWT(p, v) ==
    LET hp == handlers[p] IN
    /\ hp.pc = "verify"
    /\ accepted' = IF v = hp.keys /\ age[v] > accepted[v]
                   THEN [accepted EXCEPT ![v] = age[v]] ELSE accepted
    /\ handlers' = [handlers EXCEPT ![p] = Idle]
    /\ UNCHANGED <<cache, registered, source, published, age>>

-----------------------------------------------------------------------------
\* The steps a request takes by itself; the host need not answer.
Proceed(p) ==
    \/ StoreDocument(p)
    \/ FetchFails(p)
    \/ clientKeySet(p)
    \/ StoreKeys(p)
    \/ \E v \in Versions : verifyPrivateKeyJWT(p, v)

Next ==
    \/ Publish
    \/ Tick
    \/ \E p \in Handlers :
        \/ \E use \in Uses : resolveClientIDMetadata(p, use)
        \/ \E maxAge \in MaxAges : Answer(p, maxAge)
        \/ AnswerKeys(p)
        \/ Proceed(p)

Spec == Init /\ [][Next]_vars

\* Goroutines are scheduled, and a fetch ends at the latest with its timeout.
FairSpec == Spec /\ \A p \in Handlers : WF_vars(Proceed(p))

-----------------------------------------------------------------------------
(* The inductive invariant. *)

\* How old keys may be when they are used, and when they reach the cache.
UseDelay   == IF source = "jwks" THEN InlineDelay ELSE DocumentDelay
StoreDelay == IF source = "jwks" THEN DocumentDelay ELSE Timeout

\* Only a version that was superseded ages.
NewestInv == \A v \in Versions : v >= published => age[v] = 0

\* What a request holds is not older than the time it waited for it allows.
RequestAgesInv ==
    \A p \in Handlers : LET hp == handlers[p] IN
        /\ hp.pc = "response" => age[hp.reg] + hp.left <= Timeout
        /\ hp.pc = "keys" => age[hp.reg] <= DocumentDelay
        /\ hp.pc = "jwksResponse" =>
            /\ age[hp.keys] + hp.left <= StoreDelay
            /\ source = "jwks" => hp.left = 0
        /\ hp.pc = "verify" => age[hp.keys] <= UseDelay

\* What an entry holds will not get too old while the entry lives.
EntryAgesInv ==
    LiveEntry =>
        /\ age[cache.reg] + cache.left <= DocumentDelay
        /\ cache.keys # 0 => age[cache.keys] + cache.left <= UseDelay

-----------------------------------------------------------------------------
(* Properties. *)

\* Every variable holds values of the type the code declares for it, and no
\* entry lives longer than the clamped lifetime (clientid_metadata.go:207-225).
TypeOK ==
    /\ cache \in clientIDMetadataEntry \cup {None}
    /\ registered \in Versions \cup {0}
    /\ handlers \in [Handlers -> HandlerState]
    /\ source \in KeySources
    /\ published \in Versions
    /\ age \in [Versions -> 0 .. AgeCap]
    /\ accepted \in [Versions -> 0 .. AgeCap]

\* Keys the client has withdrawn authenticate nobody once the delay the caches
\* can cause is over, however fetches overlap (authenticateClient re-resolves
\* for this, main.go:1201-1207).
WithdrawnKeysDie ==
    \A v \in Versions : accepted[v] <= UseDelay

\* What resolveClientIDMetadata serves from the cache is what s.clients holds,
\* so a request sees one registration whichever of the two it looks at
\* (clientid_metadata.go:126-140).
CacheAgreesWithRegistry == cache # None => registered = cache.reg

\* A request never hangs on the client's host (clientid_metadata.go:232-238).
EveryRequestEnds == \A p \in Handlers : handlers[p].pc # "idle" ~> handlers[p].pc = "idle"

\* README.md:147 "the client's JWK set is dropped along with its document": an
\* entry never holds keys older than its document.
KeysBelongToDocument == cache # None /\ cache.keys # 0 => cache.keys >= cache.reg
=============================================================================
