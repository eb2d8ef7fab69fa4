------------------------ MODULE ClientIDMetadataProofs ------------------------
(***************************************************************************)
(* Proofs about ClientIDMetadata, for any number of requests at once, of    *)
(* versions, and every choice of lifetimes and timeout.                     *)
(***************************************************************************)
EXTENDS ClientIDMetadata, TLAPS

-----------------------------------------------------------------------------
(* Types. *)

LEMMA Constants ==
    /\ MaxVersion \in Nat /\ MaxVersion > 0 /\ Timeout \in Nat /\ Timeout > 0
    /\ MinTTL \in Nat /\ MaxTTL \in Nat /\ MinTTL <= MaxTTL /\ DefaultTTL \in Nat
    /\ MaxLife \in Nat /\ DocumentDelay \in Nat /\ InlineDelay \in Nat /\ AgeCap \in Nat
    /\ DefaultTTL <= MaxLife /\ MaxTTL <= MaxLife
    /\ DocumentDelay = Timeout + MaxLife /\ InlineDelay = Timeout + MaxLife + MaxLife
    /\ AgeCap = InlineDelay + 1
    /\ 1 \in Versions /\ Versions \subseteq Nat /\ 0 \notin Versions /\ 0 \in 0 .. AgeCap
  <1>1. MaxLife \in Nat /\ DefaultTTL <= MaxLife /\ MaxTTL <= MaxLife
    BY TimesAssumption DEF MaxLife
  <1>2. 1 \in Versions /\ Versions \subseteq Nat /\ 0 \notin Versions
    BY TimesAssumption DEF Versions
  <1> QED BY TimesAssumption, <1>1, <1>2 DEF DocumentDelay, InlineDelay, AgeCap

\* What a request holds at each of its steps.
LEMMA HandlerFacts ==
    ASSUME NEW hp \in HandlerState
    PROVE  /\ hp.pc \in {"idle", "request", "response", "keys", "jwksRequest", "jwksResponse", "verify"}
           /\ hp.pc = "idle" <=> hp = Idle
           /\ Waiting(hp) => hp.left \in 0 .. Timeout
           /\ hp.pc = "request" => hp \in Request /\ hp.use \in Uses
           /\ hp.pc = "response" => hp \in Response /\ hp.use \in Uses /\ hp.reg \in Versions /\ hp.ttl \in 0 .. MaxLife
           /\ hp.pc = "keys" => hp \in KeysNeeded /\ hp.reg \in Versions
           /\ hp.pc = "jwksRequest" => hp \in JwksRequest
           /\ hp.pc = "jwksResponse" => hp \in JwksReply /\ hp.keys \in Versions
           /\ hp.pc = "verify" => hp \in Verify /\ hp.keys \in Versions
  BY DEF HandlerState, Idle, Request, Response, KeysNeeded, JwksRequest, JwksReply, Verify, Waiting

LEMMA ResolvedType ==
    ASSUME NEW use \in Uses, NEW v \in Versions
    PROVE  /\ Resolved(use, v) \in HandlerState
           /\ Resolved(use, v) = Idle \/ Resolved(use, v) = [pc |-> "keys", reg |-> v]
  BY DEF Resolved, HandlerState, KeysNeeded

LEMMA TTLType == ASSUME NEW maxAge \in MaxAges PROVE clientIDMetadataTTLFrom(maxAge) \in 0 .. MaxLife
  BY Constants, TimesAssumption DEF clientIDMetadataTTLFrom

LEMMA EntryFacts ==
    ASSUME TypeOK, cache # None
    PROVE  cache \in clientIDMetadataEntry /\ cache.reg \in Versions /\ cache.keys \in Versions \cup {0} /\ cache.left \in 0 .. MaxLife
  BY DEF TypeOK, clientIDMetadataEntry

LEMMA StoredKeysType ==
    ASSUME TypeOK, NEW k \in Versions
    PROVE  /\ StoredKeys(k) \in clientIDMetadataEntry \cup {None}
           /\ LiveEntry => /\ StoredKeys(k) # None /\ StoredKeys(k).keys = k
                           /\ StoredKeys(k).reg = cache.reg /\ StoredKeys(k).left = cache.left
           /\ ~LiveEntry => StoredKeys(k) = cache
  <1>1. CASE LiveEntry
    <2>1. cache # None
      BY <1>1 DEF LiveEntry
    <2>2. cache \in clientIDMetadataEntry
      BY <2>1, EntryFacts
    <2>3. StoredKeys(k) = [cache EXCEPT !.keys = k]
      BY <1>1 DEF StoredKeys
    <2>4. [cache EXCEPT !.keys = k] \in clientIDMetadataEntry
      BY <2>2 DEF clientIDMetadataEntry
    <2> QED BY <1>1, <2>2, <2>3, <2>4, EntryAssumption DEF clientIDMetadataEntry
  <1>2. CASE ~LiveEntry
    BY <1>2 DEF StoredKeys, TypeOK
  <1> QED BY <1>1, <1>2

LEMMA TypeInit == Init => TypeOK
  BY Constants DEF Init, TypeOK, HandlerState

\* A tick: requests and the entry lose one unit of time, versions gain at most one.
LEMMA Ticking ==
    ASSUME TypeOK, Tick
    PROVE  /\ \A p \in Handlers : handlers[p] = Idle => handlers'[p] = Idle
           /\ \A p \in Handlers : handlers[p] # Idle =>
                /\ Waiting(handlers[p]) /\ handlers[p].left > 0
                /\ handlers'[p] = [handlers[p] EXCEPT !.left = handlers[p].left - 1]
                /\ handlers'[p] \in HandlerState
           /\ handlers' \in [Handlers -> HandlerState]
           /\ cache' \in clientIDMetadataEntry \cup {None}
           /\ cache' = cache \/ (/\ LiveEntry /\ cache' # None /\ cache'.left = cache.left - 1
                                 /\ cache'.reg = cache.reg /\ cache'.keys = cache.keys)
           /\ cache' = cache => ~LiveEntry
           /\ age' \in [Versions -> 0 .. AgeCap]
           /\ \A v \in Versions : age'[v] <= age[v] + 1 /\ (v >= published => age'[v] = age[v])
           /\ UNCHANGED <<registered, source, published, accepted>>
  <1>1. ASSUME NEW p \in Handlers, handlers[p] # Idle
        PROVE  /\ Waiting(handlers[p]) /\ handlers[p].left > 0
               /\ handlers'[p] = [handlers[p] EXCEPT !.left = handlers[p].left - 1]
               /\ handlers'[p] \in HandlerState
    <2>1. Waiting(handlers[p]) /\ handlers[p].left > 0 /\ handlers[p] \in HandlerState
      BY <1>1 DEF Tick, TypeOK
    <2>2. handlers'[p] = [handlers[p] EXCEPT !.left = handlers[p].left - 1]
      BY <1>1 DEF Tick
    <2>3. handlers[p].left - 1 \in 0 .. Timeout
      BY <2>1, HandlerFacts, Constants
    <2>4. handlers[p] \in Request \cup Response \cup JwksRequest \cup JwksReply
      BY <2>1, HandlerFacts DEF Waiting
    <2>5. handlers'[p] \in Request \cup Response \cup JwksRequest \cup JwksReply
      BY <2>2, <2>3, <2>4 DEF Request, Response, JwksRequest, JwksReply
    <2> QED BY <2>1, <2>2, <2>5 DEF HandlerState
  <1>2. \A p \in Handlers : handlers[p] = Idle => handlers'[p] = Idle
    BY DEF Tick
  <1>3. handlers' \in [Handlers -> HandlerState]
    <2>1. \A p \in Handlers : handlers'[p] \in HandlerState
      BY <1>1, <1>2 DEF HandlerState
    <2>2. handlers' = [p \in Handlers |-> handlers'[p]]
      BY DEF Tick
    <2> QED BY <2>1, <2>2
  <1>6. /\ age' \in [Versions -> 0 .. AgeCap]
        /\ \A v \in Versions : age'[v] <= age[v] + 1 /\ (v >= published => age'[v] = age[v])
        /\ UNCHANGED <<registered, source, published, accepted>>
    <2>1. ASSUME NEW v \in Versions
          PROVE  age'[v] \in 0 .. AgeCap /\ age'[v] <= age[v] + 1 /\ (v >= published => age'[v] = age[v])
      <3>1. age[v] \in 0 .. AgeCap /\ age'[v] = IF v < published /\ age[v] < AgeCap THEN age[v] + 1 ELSE age[v]
        BY DEF Tick, TypeOK
      <3>2. v \in Nat /\ published \in Nat
        BY DEF TypeOK, Versions
      <3> QED BY <3>1, <3>2, Constants
    <2>2. age' = [v \in Versions |-> age'[v]]
      BY DEF Tick
    <2> QED BY <2>1, <2>2 DEF Tick
  <1>4. CASE LiveEntry
    <2>1. cache # None /\ cache.left > 0 /\ cache' = [cache EXCEPT !.left = cache.left - 1]
      BY <1>4, EntryFacts DEF LiveEntry, Tick
    <2>2. cache \in clientIDMetadataEntry /\ cache.left \in 0 .. MaxLife
      BY <2>1, EntryFacts
    <2>3. cache.left - 1 \in 0 .. MaxLife /\ cache.left - 1 # cache.left
      BY <2>1, <2>2, Constants
    <2>4. /\ cache' \in clientIDMetadataEntry /\ cache'.left = cache.left - 1
          /\ cache'.reg = cache.reg /\ cache'.keys = cache.keys
      BY <2>1, <2>2, <2>3 DEF clientIDMetadataEntry
    <2> QED BY <1>1, <1>2, <1>3, <1>4, <2>3, <2>4, <1>6, EntryAssumption
  <1>5. CASE ~LiveEntry
    <2>1. cache' = cache
      BY <1>5, EntryFacts DEF LiveEntry, Tick
    <2> QED BY <1>1, <1>2, <1>3, <1>5, <1>6, <2>1 DEF TypeOK
  <1> QED BY <1>4, <1>5

\* What a request may hold, given the ages of the versions.
AgesOk(hp, ag) ==
    /\ hp.pc = "response" => ag[hp.reg] + hp.left <= Timeout
    /\ hp.pc = "keys" => ag[hp.reg] <= DocumentDelay
    /\ hp.pc = "jwksResponse" => ag[hp.keys] + hp.left <= StoreDelay /\ (source = "jwks" => hp.left = 0)
    /\ hp.pc = "verify" => ag[hp.keys] <= UseDelay

LEMMA Delays ==
    /\ StoreDelay \in Nat /\ UseDelay \in Nat
    /\ source = "jwks" => StoreDelay = DocumentDelay /\ UseDelay = InlineDelay
    /\ source # "jwks" => StoreDelay = Timeout /\ UseDelay = DocumentDelay
    /\ StoreDelay + MaxLife = UseDelay /\ StoreDelay <= UseDelay
  BY Constants DEF StoreDelay, UseDelay

\* Inline keys are not fetched.
JwksInv == \A p \in Handlers : handlers[p].pc = "jwksRequest" => source # "jwks"

AgesInv == NewestInv /\ RequestAgesInv /\ EntryAgesInv /\ WithdrawnKeysDie

LEMMA AgeFacts ==
    ASSUME TypeOK, AgesInv
    PROVE  /\ \A v \in Versions : age[v] \in 0 .. AgeCap /\ age[v] \in Nat
           /\ age[published] = 0 /\ published \in Versions
           /\ \A p \in Handlers : AgesOk(handlers[p], age) /\ handlers[p] \in HandlerState
           /\ LiveEntry => /\ cache \in clientIDMetadataEntry /\ cache.reg \in Versions /\ cache.left \in 1 .. MaxLife
                           /\ age[cache.reg] + cache.left <= DocumentDelay
                           /\ cache.keys \in Versions \cup {0}
                           /\ cache.keys # 0 => cache.keys \in Versions /\ age[cache.keys] + cache.left <= UseDelay
  <1>1. \A v \in Versions : age[v] \in 0 .. AgeCap /\ age[v] \in Nat
    BY Constants DEF TypeOK
  <1>2. published \in Versions /\ age[published] = 0
    <2>1. published \in Versions /\ published \in Nat
      BY DEF TypeOK, Versions
    <2> QED BY <2>1 DEF AgesInv, NewestInv
  <1>3. \A p \in Handlers : AgesOk(handlers[p], age) /\ handlers[p] \in HandlerState
    BY DEF AgesInv, RequestAgesInv, AgesOk, TypeOK
  <1>4. ASSUME LiveEntry
        PROVE  /\ cache \in clientIDMetadataEntry /\ cache.reg \in Versions /\ cache.left \in 1 .. MaxLife
               /\ cache.keys \in Versions \cup {0}
               /\ age[cache.reg] + cache.left <= DocumentDelay
               /\ cache.keys # 0 => cache.keys \in Versions /\ age[cache.keys] + cache.left <= UseDelay
    <2>1. cache # None /\ cache.left > 0
      BY <1>4 DEF LiveEntry
    <2>2. cache \in clientIDMetadataEntry /\ cache.reg \in Versions /\ cache.keys \in Versions \cup {0} /\ cache.left \in 0 .. MaxLife
      BY <2>1, EntryFacts
    <2>3. cache.left \in 1 .. MaxLife
      BY <2>1, <2>2, Constants
    <2> QED BY <1>4, <2>2, <2>3 DEF AgesInv, EntryAgesInv
  <1> QED BY <1>1, <1>2, <1>3, <1>4

\* A step of one request that leaves the cache, the clock and the history alone.
LEMMA RequestMoves ==
    ASSUME TypeOK, AgesInv, NEW p \in Handlers, NEW q \in HandlerState, AgesOk(q, age),
           handlers' = [handlers EXCEPT ![p] = q], UNCHANGED <<cache, registered, source, published, age, accepted>>
    PROVE  TypeOK' /\ AgesInv'
  <1>1. handlers' \in [Handlers -> HandlerState] /\ \A o \in Handlers : handlers'[o] = IF o = p THEN q ELSE handlers[o]
    BY DEF TypeOK
  <1>2. TypeOK'
    BY <1>1 DEF TypeOK
  <1>3. RequestAgesInv'
    <2>1. \A o \in Handlers : AgesOk(handlers'[o], age)
      BY <1>1, AgeFacts
    <2> QED BY <2>1 DEF RequestAgesInv, AgesOk, StoreDelay, UseDelay
  <1>4. NewestInv' /\ EntryAgesInv' /\ WithdrawnKeysDie'
    BY DEF AgesInv, NewestInv, EntryAgesInv, WithdrawnKeysDie, UseDelay, LiveEntry
  <1> QED BY <1>2, <1>3, <1>4 DEF AgesInv

LEMMA IdleOk == Idle \in HandlerState /\ \A ag : AgesOk(Idle, ag)
  BY DEF HandlerState, Idle, AgesOk

LEMMA ResolveStep ==
    ASSUME TypeOK, AgesInv, NEW p \in Handlers, NEW use \in Uses, resolveClientIDMetadata(p, use)
    PROVE  TypeOK' /\ AgesInv'
  <1> DEFINE q == IF LiveEntry THEN Resolved(use, cache.reg) ELSE [pc |-> "request", use |-> use, left |-> Timeout]
  <1>1. q \in HandlerState /\ AgesOk(q, age)
    <2>1. CASE LiveEntry
      <3>1. cache.reg \in Versions /\ age[cache.reg] \in Nat /\ cache.left \in 1 .. MaxLife /\ age[cache.reg] + cache.left <= DocumentDelay
        BY <2>1, AgeFacts
      <3>2. age[cache.reg] <= DocumentDelay
        BY <3>1, Constants
      <3>3. q \in HandlerState /\ (q = Idle \/ q = [pc |-> "keys", reg |-> cache.reg])
        BY <2>1, <3>1, ResolvedType
      <3> QED BY <3>2, <3>3, IdleOk DEF AgesOk
    <2>2. CASE ~LiveEntry
      BY <2>2, Constants DEF HandlerState, Request, AgesOk
    <2> QED BY <2>1, <2>2
  <1>2. handlers' = [handlers EXCEPT ![p] = q] /\ UNCHANGED <<cache, registered, source, published, age, accepted>>
    BY DEF resolveClientIDMetadata
  <1> HIDE DEF q
  <1> QED BY <1>1, <1>2, RequestMoves

LEMMA AnswerStep ==
    ASSUME TypeOK, AgesInv, NEW p \in Handlers, NEW maxAge \in MaxAges, Answer(p, maxAge)
    PROVE  TypeOK' /\ AgesInv'
  <1> DEFINE q == [pc |-> "response", use |-> handlers[p].use, left |-> handlers[p].left,
                   reg |-> published, ttl |-> clientIDMetadataTTLFrom(maxAge)]
  <1>1. handlers[p] \in Request /\ handlers[p].use \in Uses /\ handlers[p].left \in 0 .. Timeout
    BY HandlerFacts DEF Answer, TypeOK, Waiting
  <1>2. q \in HandlerState
    BY <1>1, TTLType, AgeFacts DEF HandlerState, Response
  <1>3. AgesOk(q, age)
    BY <1>1, AgeFacts, Constants DEF AgesOk
  <1>4. handlers' = [handlers EXCEPT ![p] = q] /\ UNCHANGED <<cache, registered, source, published, age, accepted>>
    BY DEF Answer
  <1> HIDE DEF q
  <1> QED BY <1>2, <1>3, <1>4, RequestMoves

LEMMA FailStep ==
    ASSUME TypeOK, AgesInv, NEW p \in Handlers, FetchFails(p)
    PROVE  TypeOK' /\ AgesInv'
  BY IdleOk, RequestMoves DEF FetchFails

LEMMA KeySetStep ==
    ASSUME TypeOK, AgesInv, NEW p \in Handlers, clientKeySet(p)
    PROVE  TypeOK' /\ AgesInv'
  <1> DEFINE q == IF LiveEntry /\ cache.keys # 0 THEN [pc |-> "verify", keys |-> cache.keys]
                  ELSE IF source = "jwks" THEN [pc |-> "jwksResponse", left |-> 0, keys |-> handlers[p].reg]
                  ELSE [pc |-> "jwksRequest", left |-> Timeout]
  <1>1. handlers[p].reg \in Versions /\ age[handlers[p].reg] <= DocumentDelay /\ age[handlers[p].reg] \in Nat
    <2>1. handlers[p].pc = "keys" /\ handlers[p] \in HandlerState /\ AgesOk(handlers[p], age)
      BY AgeFacts DEF clientKeySet
    <2>2. handlers[p].reg \in Versions
      BY <2>1, HandlerFacts
    <2> QED BY <2>1, <2>2, AgeFacts DEF AgesOk
  <1>2. q \in HandlerState /\ AgesOk(q, age)
    <2>1. CASE LiveEntry /\ cache.keys # 0
      <3>1. cache.keys \in Versions /\ age[cache.keys] \in Nat /\ cache.left \in 1 .. MaxLife /\ age[cache.keys] + cache.left <= UseDelay
        BY <2>1, AgeFacts
      <3>2. age[cache.keys] <= UseDelay
        BY <3>1, Constants, Delays
      <3> QED BY <2>1, <3>1, <3>2 DEF HandlerState, Verify, AgesOk
    <2>2. CASE ~(LiveEntry /\ cache.keys # 0) /\ source = "jwks"
      <3>1. q = [pc |-> "jwksResponse", left |-> 0, keys |-> handlers[p].reg]
        BY <2>2
      <3>2. q \in JwksReply
        BY <1>1, <3>1, Constants DEF JwksReply
      <3>3. age[handlers[p].reg] + 0 <= StoreDelay
        BY <1>1, <2>2, Delays, Constants
      <3> QED BY <3>1, <3>2, <3>3 DEF HandlerState, AgesOk
    <2>3. CASE ~(LiveEntry /\ cache.keys # 0) /\ source # "jwks"
      BY <2>3, Constants DEF HandlerState, JwksRequest, AgesOk
    <2> QED BY <2>1, <2>2, <2>3
  <1>3. handlers' = [handlers EXCEPT ![p] = q] /\ UNCHANGED <<cache, registered, source, published, age, accepted>>
    BY DEF clientKeySet
  <1> HIDE DEF q
  <1> QED BY <1>2, <1>3, RequestMoves

LEMMA AnswerKeysStep ==
    ASSUME TypeOK, AgesInv, JwksInv, NEW p \in Handlers, AnswerKeys(p)
    PROVE  TypeOK' /\ AgesInv'
  <1> DEFINE q == [pc |-> "jwksResponse", left |-> handlers[p].left, keys |-> published]
  <1>1. handlers[p].left \in 0 .. Timeout
    BY HandlerFacts DEF AnswerKeys, TypeOK, Waiting
  <1>2. source # "jwks"
    BY DEF AnswerKeys, JwksInv
  <1>3. q \in HandlerState
    BY <1>1, AgeFacts DEF HandlerState, JwksReply
  <1>4. AgesOk(q, age)
    BY <1>1, <1>2, AgeFacts, Constants, Delays DEF AgesOk
  <1>5. handlers' = [handlers EXCEPT ![p] = q] /\ UNCHANGED <<cache, registered, source, published, age, accepted>>
    BY DEF AnswerKeys
  <1> HIDE DEF q
  <1> QED BY <1>3, <1>4, <1>5, RequestMoves

LEMMA PublishStep ==
    ASSUME TypeOK, AgesInv, Publish
    PROVE  TypeOK' /\ AgesInv'
  <1>1. published \in Nat /\ published >= 1 /\ published < MaxVersion /\ published' = published + 1
    BY Constants DEF Publish, TypeOK, Versions
  <1>2. published' \in Versions
    BY <1>1, Constants DEF Versions
  <1>3. TypeOK'
    BY <1>2 DEF TypeOK, Publish, serverVars
  <1>4. NewestInv'
    <2>1. SUFFICES ASSUME NEW v \in Versions, v >= published' PROVE age[v] = 0
      BY DEF NewestInv, Publish
    <2>2. v \in Nat /\ v >= published
      BY <1>1, <2>1, Constants
    <2> QED BY <2>2 DEF AgesInv, NewestInv
  <1>5. RequestAgesInv' /\ EntryAgesInv' /\ WithdrawnKeysDie'
    BY DEF AgesInv, RequestAgesInv, EntryAgesInv, WithdrawnKeysDie, UseDelay, StoreDelay, LiveEntry, Publish, serverVars
  <1> QED BY <1>3, <1>4, <1>5 DEF AgesInv

LEMMA TickStep ==
    ASSUME TypeOK, AgesInv, Tick
    PROVE  TypeOK' /\ AgesInv'
  <1>1. TypeOK'
    BY Ticking DEF TypeOK
  <1>2. NewestInv'
    BY Ticking DEF AgesInv, NewestInv
  <1>3. WithdrawnKeysDie'
    BY Ticking DEF AgesInv, WithdrawnKeysDie, UseDelay
  <1>4. RequestAgesInv'
    <2>1. ASSUME NEW p \in Handlers PROVE AgesOk(handlers'[p], age')
      <3>1. CASE handlers[p] = Idle
        BY <3>1, Ticking, IdleOk
      <3>2. CASE handlers[p] # Idle
        <4>1. /\ Waiting(handlers[p]) /\ handlers[p].left > 0 /\ handlers[p] \in HandlerState
              /\ handlers'[p] = [handlers[p] EXCEPT !.left = handlers[p].left - 1]
          BY <3>2, Ticking, AgeFacts
        <4>2. handlers[p].left \in 0 .. Timeout /\ AgesOk(handlers[p], age)
          BY <4>1, HandlerFacts, AgeFacts
        <4>3. CASE handlers[p].pc = "response"
          <5>1. handlers[p].reg \in Versions /\ handlers[p] \in Response
            BY <4>1, <4>3, HandlerFacts
          <5>2. handlers'[p].pc = "response" /\ handlers'[p].reg = handlers[p].reg /\ handlers'[p].left = handlers[p].left - 1
            BY <4>1, <4>3, <5>1 DEF Response
          <5>3. age[handlers[p].reg] \in Nat /\ age'[handlers[p].reg] \in Nat /\ age'[handlers[p].reg] <= age[handlers[p].reg] + 1
            BY <5>1, Ticking, AgeFacts, Constants
          <5>4. age[handlers[p].reg] + handlers[p].left <= Timeout
            BY <4>2, <4>3 DEF AgesOk
          <5>5. age'[handlers[p].reg] + (handlers[p].left - 1) <= Timeout
            BY <4>2, <5>3, <5>4, Constants
          <5> QED BY <5>2, <5>5 DEF AgesOk
        <4>4. CASE handlers[p].pc = "jwksResponse"
          <5>1. handlers[p].keys \in Versions /\ handlers[p] \in JwksReply
            BY <4>1, <4>4, HandlerFacts
          <5>2. handlers'[p].pc = "jwksResponse" /\ handlers'[p].keys = handlers[p].keys /\ handlers'[p].left = handlers[p].left - 1
            BY <4>1, <4>4, <5>1 DEF JwksReply
          <5>3. age[handlers[p].keys] \in Nat /\ age'[handlers[p].keys] \in Nat /\ age'[handlers[p].keys] <= age[handlers[p].keys] + 1
            BY <5>1, Ticking, AgeFacts, Constants
          <5>4. age[handlers[p].keys] + handlers[p].left <= StoreDelay /\ source # "jwks"
            BY <4>1, <4>2, <4>4 DEF AgesOk
          <5>5. age'[handlers[p].keys] + (handlers[p].left - 1) <= StoreDelay
            BY <4>2, <5>3, <5>4, Constants, Delays
          <5> QED BY <5>2, <5>4, <5>5 DEF AgesOk
        <4>5. CASE handlers[p].pc = "request" \/ handlers[p].pc = "jwksRequest"
          <5>1. handlers[p] \in Request \cup JwksRequest
            BY <4>1, <4>5, HandlerFacts
          <5>2. handlers'[p].pc = handlers[p].pc
            BY <4>1, <5>1 DEF Request, JwksRequest
          <5> QED BY <4>5, <5>2 DEF AgesOk
        <4> QED BY <4>1, <4>3, <4>4, <4>5 DEF Waiting
      <3> QED BY <3>1, <3>2
    <2>2. source' = source
      BY Ticking
    <2> QED BY <2>1, <2>2 DEF RequestAgesInv, AgesOk, StoreDelay, UseDelay
  <1>5. EntryAgesInv'
    <2>1. CASE cache' = cache
      BY <2>1, Ticking DEF EntryAgesInv, LiveEntry
    <2>2. CASE cache' # cache
      <3>1. LiveEntry /\ cache'.left = cache.left - 1 /\ cache'.reg = cache.reg /\ cache'.keys = cache.keys /\ source' = source
        BY <2>2, Ticking
      <3>2. /\ cache.reg \in Versions /\ cache.left \in 1 .. MaxLife
            /\ age[cache.reg] \in Nat /\ age'[cache.reg] \in Nat /\ age'[cache.reg] <= age[cache.reg] + 1
            /\ age[cache.reg] + cache.left <= DocumentDelay
        BY <3>1, AgeFacts, Ticking, Constants
      <3>3. age'[cache.reg] + (cache.left - 1) <= DocumentDelay
        BY <3>2, Constants
      <3>4. ASSUME cache.keys # 0 PROVE age'[cache.keys] + (cache.left - 1) <= UseDelay
        <4>1. /\ cache.keys \in Versions /\ age[cache.keys] \in Nat /\ age'[cache.keys] \in Nat
              /\ age'[cache.keys] <= age[cache.keys] + 1 /\ age[cache.keys] + cache.left <= UseDelay
          BY <3>1, <3>4, AgeFacts, Ticking, Constants
        <4> QED BY <3>2, <4>1, Constants, Delays
      <3> QED BY <3>1, <3>3, <3>4 DEF EntryAgesInv, UseDelay
    <2> QED BY <2>1, <2>2
  <1> QED BY <1>1, <1>2, <1>3, <1>4, <1>5 DEF AgesInv

LEMMA StoreDocumentStep ==
    ASSUME TypeOK, AgesInv, NEW p \in Handlers, StoreDocument(p)
    PROVE  TypeOK' /\ AgesInv'
  <1>1. handlers[p].pc = "response" /\ handlers[p] \in HandlerState /\ AgesOk(handlers[p], age)
    BY AgeFacts DEF StoreDocument
  <1>2. /\ handlers[p].use \in Uses /\ handlers[p].reg \in Versions /\ handlers[p].ttl \in 0 .. MaxLife
        /\ handlers[p].left \in 0 .. Timeout
    BY <1>1, HandlerFacts DEF Waiting
  <1>3. age[handlers[p].reg] \in Nat /\ age[handlers[p].reg] <= Timeout
    <2>1. age[handlers[p].reg] \in Nat /\ age[handlers[p].reg] + handlers[p].left <= Timeout
      BY <1>1, <1>2, AgeFacts DEF AgesOk
    <2> QED BY <1>2, <2>1, Constants
  <1>4. PICK q \in HandlerState : q = Resolved(handlers[p].use, handlers[p].reg) /\ (q = Idle \/ q = [pc |-> "keys", reg |-> handlers[p].reg])
    BY <1>2, ResolvedType
  <1>5. AgesOk(q, age)
    <2>1. age[handlers[p].reg] <= DocumentDelay
      BY <1>3, Constants
    <2> QED BY <1>4, <2>1, IdleOk DEF AgesOk
  <1>6. /\ cache' = [reg |-> handlers[p].reg, keys |-> 0, left |-> handlers[p].ttl]
        /\ registered' = handlers[p].reg /\ handlers' = [handlers EXCEPT ![p] = q]
        /\ UNCHANGED <<source, published, age, accepted>>
    BY <1>4 DEF StoreDocument, StoredEntry, StoredRegistration
  <1>7. handlers' \in [Handlers -> HandlerState] /\ \A o \in Handlers : handlers'[o] = IF o = p THEN q ELSE handlers[o]
    BY <1>6 DEF TypeOK
  <1>8. cache' \in clientIDMetadataEntry
    BY <1>2, <1>6 DEF clientIDMetadataEntry
  <1>9. TypeOK'
    BY <1>2, <1>6, <1>7, <1>8 DEF TypeOK
  <1>10. RequestAgesInv'
    <2>1. \A o \in Handlers : AgesOk(handlers'[o], age)
      BY <1>5, <1>7, AgeFacts
    <2> QED BY <1>6, <2>1 DEF RequestAgesInv, AgesOk, StoreDelay, UseDelay
  <1>11. EntryAgesInv'
    <2>1. cache'.reg = handlers[p].reg /\ cache'.keys = 0 /\ cache'.left = handlers[p].ttl
      BY <1>6
    <2>2. age[handlers[p].reg] + handlers[p].ttl <= DocumentDelay
      BY <1>2, <1>3, Constants
    <2> QED BY <1>6, <2>1, <2>2 DEF EntryAgesInv
  <1>12. NewestInv' /\ WithdrawnKeysDie'
    BY <1>6 DEF AgesInv, NewestInv, WithdrawnKeysDie, UseDelay
  <1> QED BY <1>9, <1>10, <1>11, <1>12 DEF AgesInv

LEMMA StoreKeysStep ==
    ASSUME TypeOK, AgesInv, NEW p \in Handlers, StoreKeys(p)
    PROVE  TypeOK' /\ AgesInv'
  <1>1. handlers[p].pc = "jwksResponse" /\ handlers[p] \in HandlerState /\ AgesOk(handlers[p], age)
    BY AgeFacts DEF StoreKeys
  <1>2. PICK k \in Versions : k = handlers[p].keys
    BY <1>1, HandlerFacts
  <1>3. handlers[p].left \in 0 .. Timeout
    BY <1>1, HandlerFacts DEF Waiting
  <1>4. age[k] \in Nat /\ age[k] <= StoreDelay /\ age[k] <= UseDelay
    <2>1. age[k] \in Nat /\ age[k] + handlers[p].left <= StoreDelay
      BY <1>1, <1>2, AgeFacts DEF AgesOk
    <2> QED BY <1>3, <2>1, Constants, Delays
  <1> DEFINE q == [pc |-> "verify", keys |-> k]
  <1>5. q \in HandlerState /\ AgesOk(q, age)
    BY <1>4 DEF HandlerState, Verify, AgesOk
  <1>6. /\ cache' = StoredKeys(k) /\ handlers' = [handlers EXCEPT ![p] = q]
        /\ UNCHANGED <<registered, source, published, age, accepted>>
    BY <1>2 DEF StoreKeys
  <1> HIDE DEF q
  <1>7. handlers' \in [Handlers -> HandlerState] /\ \A o \in Handlers : handlers'[o] = IF o = p THEN q ELSE handlers[o]
    BY <1>5, <1>6 DEF TypeOK
  <1>8. TypeOK'
    <2>1. cache' \in clientIDMetadataEntry \cup {None}
      BY <1>6, StoredKeysType
    <2> QED BY <1>6, <1>7, <2>1 DEF TypeOK
  <1>9. RequestAgesInv'
    <2>1. \A o \in Handlers : AgesOk(handlers'[o], age)
      BY <1>5, <1>7, AgeFacts
    <2> QED BY <1>6, <2>1 DEF RequestAgesInv, AgesOk, StoreDelay, UseDelay
  <1>10. EntryAgesInv'
    <2>1. CASE LiveEntry
      <3>1. cache'.keys = k /\ cache'.reg = cache.reg /\ cache'.left = cache.left
        BY <1>6, <2>1, StoredKeysType
      <3>2. cache.left \in 1 .. MaxLife /\ age[cache.reg] + cache.left <= DocumentDelay
        BY <2>1, AgeFacts
      <3>3. age[k] + cache.left <= UseDelay
        BY <1>4, <3>2, Constants, Delays
      <3> QED BY <1>6, <3>1, <3>2, <3>3 DEF EntryAgesInv, UseDelay
    <2>2. CASE ~LiveEntry
      <3>1. cache' = cache
        BY <1>6, <2>2, StoredKeysType
      <3> QED BY <2>2, <3>1 DEF EntryAgesInv, LiveEntry
    <2> QED BY <2>1, <2>2
  <1>11. NewestInv' /\ WithdrawnKeysDie'
    BY <1>6 DEF AgesInv, NewestInv, WithdrawnKeysDie, UseDelay
  <1> QED BY <1>8, <1>9, <1>10, <1>11 DEF AgesInv

LEMMA VerifyStep ==
    ASSUME TypeOK, AgesInv, NEW p \in Handlers, NEW v \in Versions, verifyPrivateKeyJWT(p, v)
    PROVE  TypeOK' /\ AgesInv'
  <1>1. handlers[p].pc = "verify" /\ AgesOk(handlers[p], age) /\ age[v] \in 0 .. AgeCap
    BY AgeFacts DEF verifyPrivateKeyJWT
  <1>2. accepted' \in [Versions -> 0 .. AgeCap]
    BY <1>1 DEF verifyPrivateKeyJWT, TypeOK
  <1>3. ASSUME NEW w \in Versions PROVE accepted'[w] <= UseDelay
    <2>1. accepted[w] <= UseDelay
      BY DEF AgesInv, WithdrawnKeysDie
    <2>2. accepted'[w] = accepted[w] \/ (w = v /\ v = handlers[p].keys /\ accepted'[w] = age[v])
      BY DEF verifyPrivateKeyJWT, TypeOK
    <2> QED BY <1>1, <2>1, <2>2 DEF AgesOk
  <1>4. handlers' = [handlers EXCEPT ![p] = Idle] /\ UNCHANGED <<cache, registered, source, published, age>>
    BY DEF verifyPrivateKeyJWT
  <1>5. handlers' \in [Handlers -> HandlerState] /\ \A o \in Handlers : handlers'[o] = IF o = p THEN Idle ELSE handlers[o]
    BY <1>4, IdleOk DEF TypeOK
  <1>6. TypeOK'
    BY <1>2, <1>4, <1>5 DEF TypeOK
  <1>7. RequestAgesInv'
    <2>1. \A o \in Handlers : AgesOk(handlers'[o], age)
      BY <1>5, AgeFacts, IdleOk
    <2> QED BY <1>4, <2>1 DEF RequestAgesInv, AgesOk, StoreDelay, UseDelay
  <1>8. NewestInv' /\ EntryAgesInv'
    BY <1>4 DEF AgesInv, NewestInv, EntryAgesInv, UseDelay, LiveEntry
  <1>9. WithdrawnKeysDie'
    BY <1>3, <1>4 DEF WithdrawnKeysDie, UseDelay
  <1> QED BY <1>6, <1>7, <1>8, <1>9 DEF AgesInv

\* Only clientKeySet starts a fetch of keys, and not for inline ones.
LEMMA JwksStep ==
    ASSUME TypeOK, JwksInv, Next
    PROVE  JwksInv'
  <1>1. source' = source
    BY DEF Next, Publish, Tick, resolveClientIDMetadata, Answer, AnswerKeys, Proceed, StoreDocument,
           FetchFails, clientKeySet, StoreKeys, verifyPrivateKeyJWT
  <1>2. ASSUME NEW o \in Handlers, handlers'[o].pc = "jwksRequest", source = "jwks" PROVE FALSE
    <2>1. handlers[o].pc # "jwksRequest" /\ handlers[o] \in HandlerState
      BY <1>2 DEF JwksInv, TypeOK
    <2>2. CASE Publish
      BY <1>2, <2>1, <2>2 DEF Publish, serverVars
    <2>3. CASE Tick
      <3>1. handlers[o] # Idle
        BY <1>2, <2>3, Ticking DEF Idle
      <3>2. handlers'[o] = [handlers[o] EXCEPT !.left = handlers[o].left - 1] /\ Waiting(handlers[o])
        BY <2>3, <3>1, Ticking
      <3>3. handlers[o] \in Request \cup Response \cup JwksReply
        BY <2>1, <3>2, HandlerFacts DEF Waiting
      <3> QED BY <1>2, <2>1, <3>2, <3>3 DEF Request, Response, JwksReply
    <2>4. handlers \in [Handlers -> HandlerState]
      BY DEF TypeOK
    <2>5. ASSUME NEW p \in Handlers, NEW use \in Uses, resolveClientIDMetadata(p, use) PROVE FALSE
      <3>1. \A u, w : Resolved(u, w).pc # "jwksRequest"
        BY DEF Resolved, Idle
      <3> QED BY <1>2, <2>1, <2>4, <2>5, <3>1 DEF resolveClientIDMetadata
    <2>6. ASSUME NEW p \in Handlers, NEW maxAge \in MaxAges, Answer(p, maxAge) PROVE FALSE
      BY <1>2, <2>1, <2>4, <2>6 DEF Answer
    <2>7. ASSUME NEW p \in Handlers, AnswerKeys(p) PROVE FALSE
      BY <1>2, <2>1, <2>4, <2>7 DEF AnswerKeys
    <2>8. ASSUME NEW p \in Handlers, StoreDocument(p) PROVE FALSE
      <3>1. \A u, w : Resolved(u, w).pc # "jwksRequest"
        BY DEF Resolved, Idle
      <3> QED BY <1>2, <2>1, <2>4, <2>8, <3>1 DEF StoreDocument
    <2>9. ASSUME NEW p \in Handlers, FetchFails(p) PROVE FALSE
      BY <1>2, <2>1, <2>4, <2>9 DEF FetchFails, Idle
    <2>10. ASSUME NEW p \in Handlers, clientKeySet(p) PROVE FALSE
      BY <1>2, <2>1, <2>4, <2>10 DEF clientKeySet
    <2>11. ASSUME NEW p \in Handlers, StoreKeys(p) PROVE FALSE
      BY <1>2, <2>1, <2>4, <2>11 DEF StoreKeys
    <2>12. ASSUME NEW p \in Handlers, NEW v \in Versions, verifyPrivateKeyJWT(p, v) PROVE FALSE
      BY <1>2, <2>1, <2>4, <2>12 DEF verifyPrivateKeyJWT, Idle
    <2> QED BY <2>2, <2>3, <2>5, <2>6, <2>7, <2>8, <2>9, <2>10, <2>11, <2>12 DEF Next, Proceed
  <1> QED BY <1>1, <1>2 DEF JwksInv

\* Registration and entry are written together; keys and time leave the entry's registration alone.
LEMMA AgreeStep ==
    ASSUME TypeOK, CacheAgreesWithRegistry, Next
    PROVE  CacheAgreesWithRegistry'
  <1>1. CASE Tick
    BY <1>1, Ticking DEF CacheAgreesWithRegistry, LiveEntry
  <1>2. ASSUME NEW p \in Handlers, StoreDocument(p) PROVE CacheAgreesWithRegistry'
    BY <1>2 DEF StoreDocument, StoredEntry, StoredRegistration, CacheAgreesWithRegistry
  <1>3. ASSUME NEW p \in Handlers, StoreKeys(p) PROVE CacheAgreesWithRegistry'
    <2>1. handlers[p].keys \in Versions /\ cache' = StoredKeys(handlers[p].keys) /\ registered' = registered
      BY <1>3, HandlerFacts DEF StoreKeys, TypeOK
    <2> QED BY <2>1, StoredKeysType DEF CacheAgreesWithRegistry, LiveEntry
  <1>4. CASE UNCHANGED <<cache, registered>>
    BY <1>4 DEF CacheAgreesWithRegistry
  <1> QED BY <1>1, <1>2, <1>3, <1>4 DEF Next, Publish, serverVars, resolveClientIDMetadata, Answer, AnswerKeys,
        Proceed, FetchFails, clientKeySet, verifyPrivateKeyJWT

-----------------------------------------------------------------------------
(* The theorems. *)

IInv == TypeOK /\ AgesInv /\ JwksInv /\ CacheAgreesWithRegistry

LEMMA Invariance == Spec => []IInv
  <1>1. Init => IInv
    <2> SUFFICES ASSUME Init PROVE IInv
      OBVIOUS
    <2>1. TypeOK
      BY TypeInit
    <2>2. \A p \in Handlers : handlers[p] = Idle
      BY DEF Init
    <2>3. RequestAgesInv /\ JwksInv
      BY <2>2 DEF RequestAgesInv, JwksInv, Idle
    <2>4. NewestInv /\ EntryAgesInv /\ CacheAgreesWithRegistry
      BY DEF Init, NewestInv, EntryAgesInv, LiveEntry, CacheAgreesWithRegistry
    <2>5. WithdrawnKeysDie
      BY Delays DEF Init, WithdrawnKeysDie
    <2> QED BY <2>1, <2>3, <2>4, <2>5 DEF IInv, AgesInv
  <1>2. IInv /\ [Next]_vars => IInv'
    <2> SUFFICES ASSUME IInv, [Next]_vars PROVE IInv'
      OBVIOUS
    <2> USE DEF IInv
    <2>1. CASE Next
      <3>1. TypeOK' /\ AgesInv'
        BY <2>1, PublishStep, TickStep, ResolveStep, AnswerStep, AnswerKeysStep, StoreDocumentStep, FailStep,
           KeySetStep, StoreKeysStep, VerifyStep DEF Next, Proceed
      <3> QED BY <2>1, <3>1, JwksStep, AgreeStep
    <2>2. CASE UNCHANGED vars
      BY <2>2 DEF vars, serverVars, TypeOK, AgesInv, NewestInv, RequestAgesInv, EntryAgesInv, WithdrawnKeysDie,
         UseDelay, StoreDelay, LiveEntry, JwksInv, CacheAgreesWithRegistry
    <2> QED BY <2>1, <2>2
  <1> QED BY <1>1, <1>2, PTL DEF Spec

\* Requests, cache and registry stay in the code's types, and no entry outlives
\* the clamped lifetime, whatever max-age a document is served with.
THEOREM TypeCorrect == Spec => []TypeOK
  BY Invariance, PTL DEF IInv

\* Keys a client has withdrawn are accepted for at most Timeout plus one cache
\* lifetime, or two lifetimes when documents hold the keys themselves, whatever
\* fetches and critical sections of any number of requests interleave.
THEOREM WithdrawnDie == Spec => []WithdrawnKeysDie
  BY Invariance, PTL DEF IInv, AgesInv

\* The cache and the client registry never disagree on the version of a document.
THEOREM CacheAgrees == Spec => []CacheAgreesWithRegistry
  BY Invariance, PTL DEF IInv
=============================================================================
