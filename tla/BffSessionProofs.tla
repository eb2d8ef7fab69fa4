--------------------------- MODULE BffSessionProofs ---------------------------
(***************************************************************************)
(* Proofs about BffSession, for any number of requests at once, of tokens,  *)
(* logins and restarts, every lifetime and all three stores.                *)
(***************************************************************************)
EXTENDS BffSession, TLAPS

-----------------------------------------------------------------------------
(* Types. *)

LEMMA Constants ==
    /\ TokenLife \in Nat /\ SessionTTL \in Nat /\ MaxTokens \in Nat /\ MaxLogins \in Nat
    /\ TokenLife \in Lives /\ Unbounded \in Lives /\ 0 \in Lives /\ SessionTTL \in TTLs /\ -1 \in TTLs
    /\ 0 \notin Tokens /\ 0 \notin Logins /\ -1 \notin Tokens /\ -1 \notin Logins
    /\ Tokens \subseteq Nat /\ Logins \subseteq Nat
  BY BoundsAssumption DEF Lives, TTLs, Tokens, Logins, Unbounded

LEMMA LaterType ==
    /\ \A n \in Lives : Later(n) \in Lives
    /\ \A n \in TTLs : Later(n) \in TTLs /\ (n < 0 => Later(n) < 0)
  BY BoundsAssumption DEF Later, Lives, TTLs

\* The records of requests: which fields the code's steps change.
LEMMA ArrivedType ==
    ASSUME NEW pc \in {"guard", "checkPost", "checkLogout", "load", "create", "answer"},
           NEW cookie \in Tokens \cup {0}, NEW csrf \in Logins \cup {0}
    PROVE  /\ Arrived(pc, cookie, csrf) \in RequestState
           /\ Arrived(pc, cookie, csrf).pc = pc /\ Arrived(pc, cookie, csrf).cookie = cookie
           /\ Arrived(pc, cookie, csrf).csrf = csrf /\ Arrived(pc, cookie, csrf).cur = 0
           /\ Arrived(pc, cookie, csrf).set = Keep
  BY Constants DEF Arrived, RequestState, Keep

LEMMA AnsweredType ==
    ASSUME NEW q \in RequestState, NEW set \in Tokens \cup {Keep, Clear}, NEW setCsrf \in Logins \cup {Keep, Clear}
    PROVE  /\ Answered(q, set, setCsrf) \in RequestState
           /\ Answered(q, set, setCsrf).pc = "answer" /\ Answered(q, set, setCsrf).cookie = q.cookie
           /\ Answered(q, set, setCsrf).csrf = 0 /\ Answered(q, set, setCsrf).cur = 0
           /\ Answered(q, set, setCsrf).set = set
  <1>1. q.cookie \in Tokens \cup {0}
    BY DEF RequestState
  <1>2. /\ Arrived("answer", q.cookie, 0) \in RequestState
        /\ Arrived("answer", q.cookie, 0).pc = "answer" /\ Arrived("answer", q.cookie, 0).cookie = q.cookie
        /\ Arrived("answer", q.cookie, 0).csrf = 0 /\ Arrived("answer", q.cookie, 0).cur = 0
    BY <1>1, ArrivedType
  <1> QED BY <1>2 DEF Answered, RequestState

LEMMA FinishedType ==
    ASSUME NEW q \in RequestState
    PROVE  \/ Finished(q) = Idle /\ q.set = Keep
           \/ /\ Finished(q) \in RequestState
              /\ Finished(q).pc = "answer" /\ Finished(q).cookie = q.cookie
              /\ Finished(q).csrf = 0 /\ Finished(q).cur = 0
              /\ Finished(q).set = q.set /\ q.set # Keep
  <1>1. q.set \in Tokens \cup {Keep, Clear} /\ Keep \in Logins \cup {Keep, Clear}
    BY DEF RequestState
  <1> QED BY <1>1, AnsweredType DEF Finished

LEMMA IdleFacts == Idle.pc = "idle" /\ Idle \notin RequestState /\ (\A q \in RequestState : q.pc # "idle" /\ q # Idle)
  BY DEF Idle, RequestState

ItemsType == [Tokens -> Session \cup {None}]

LEMMA ItemsTypes ==
    ASSUME items \in ItemsType, NEW t \in Tokens \cup {0}
    PROVE  /\ ItemsAfterDelete(t) \in ItemsType /\ ItemsAfterLoad(t) \in ItemsType
           /\ \A u \in Tokens : ItemsAfterDelete(t)[u] = items[u] \/ (ItemsAfterDelete(t)[u] = None /\ u = t)
           /\ \A u \in Tokens : ItemsAfterLoad(t)[u] = items[u] \/ (ItemsAfterLoad(t)[u] = None /\ u = t)
           /\ Loads(t) => ItemsAfterLoad(t) = items
  <1>1. /\ ItemsAfterDelete(t) \in ItemsType
        /\ \A u \in Tokens : ItemsAfterDelete(t)[u] = items[u] \/ (ItemsAfterDelete(t)[u] = None /\ u = t)
    BY DEF ItemsAfterDelete, ItemsType
  <1>2. ItemsAfterLoad(t) = items \/ ItemsAfterLoad(t) = ItemsAfterDelete(t)
    BY DEF ItemsAfterLoad
  <1>3. Loads(t) => ItemsAfterLoad(t) = items
    BY DEF ItemsAfterLoad, Loads, ServerSide
  <1> QED BY <1>1, <1>2, <1>3

-----------------------------------------------------------------------------
(* What a step of a handler other than a Save does. *)

Working == {"refresh", "rotate", "save", "forward", "destroy"}

\* Nothing is added to the store, and only the request's own session leaves it.
StoreShrinks(r) ==
    /\ owner' = owner /\ nTokens' = nTokens /\ nLogins' = nLogins
    /\ store' = store /\ jar' = jar
    /\ ended' = ended \/ (ended' = ended \cup {req[r].cur} /\ req[r].pc = "logout")
    /\ items' \in ItemsType
    /\ \A t \in Tokens : items'[t] = items[t] \/ (items'[t] = None /\ t = req[r].cookie)

\* The request ends, or answers, or goes on with the session it has or loads one.
RequestGoesOn(r) ==
    /\ \A s \in Requests : s # r => req'[s] = req[s]
    /\ \/ req'[r] = Idle
       \/ /\ req'[r] \in RequestState /\ req'[r].pc # "create" /\ req'[r].cookie = req[r].cookie
          /\ req'[r].set \in {req[r].set, Keep, Clear}
          /\ req'[r].pc = "load" => Loads(req[r].cookie) /\ req[r].csrf = owner[req[r].cookie] /\ req'[r].csrf = req[r].csrf
          /\ req'[r].pc \in Working =>
                /\ req'[r].csrf = req[r].csrf
                /\ \/ req[r].pc \in Working /\ req'[r].cur = req[r].cur
                   \/ req[r].pc = "load" /\ Loads(req[r].cookie) /\ req'[r].cur = owner[req[r].cookie]
          /\ req'[r].pc = "logout" => req'[r].cur = owner[req[r].cookie] /\ Loads(req[r].cookie)
          /\ \/ req'[r].cur \in {0, req[r].cur}
             \/ Loads(req[r].cookie) /\ req'[r].cur = owner[req[r].cookie] /\ items' = items

\* A request that takes the browser's session away replaces its cookie, or is
\* excused.
StrandsNobody(r) ==
    /\ excused' \in BOOLEAN
    /\ excused => excused'
    /\ req[r].cookie = jar.session /\ ~excused' =>
        /\ items' # items => req'[r] # Idle /\ req'[r].cookie = req[r].cookie /\ Replacing(req'[r])
        /\ Replacing(req[r]) => req'[r] # Idle /\ req'[r].cookie = req[r].cookie /\ Replacing(req'[r])

Shrinks(r) == StoreShrinks(r) /\ RequestGoesOn(r) /\ StrandsNobody(r)

LEMMA Unchanging ==
    ASSUME TypeOK, NEW r \in Requests, req[r] \in RequestState, UNCHANGED <<storeVars, otherVars>>
    PROVE  StoreShrinks(r) /\ items' = items /\ excused' = excused
  <1>1. items \in ItemsType
    BY DEF TypeOK, ItemsType
  <1>2. /\ owner' = owner /\ items' = items /\ nTokens' = nTokens /\ nLogins' = nLogins
        /\ store' = store /\ jar' = jar /\ ended' = ended /\ excused' = excused
    BY DEF storeVars, otherVars
  <1> QED BY <1>1, <1>2 DEF StoreShrinks

\* Only the request's own session can have left the store.
LEMMA Looking ==
    ASSUME TypeOK, NEW r \in Requests, req[r] \in RequestState, Get(r)
    PROVE  /\ StoreShrinks(r)
           /\ excused => excused'
           /\ excused' \in BOOLEAN
           /\ items' # items /\ req[r].cookie = jar.session => excused'
           /\ Loads(req[r].cookie) => items' = items
  <1>1. req[r].cookie \in Tokens \cup {0} /\ items \in ItemsType
    BY DEF RequestState, TypeOK, ItemsType
  <1>2. items' = ItemsAfterLoad(req[r].cookie)
    BY DEF Get
  <1>3. /\ items' \in ItemsType
        /\ Loads(req[r].cookie) => items' = items
        /\ \A t \in Tokens : items'[t] = items[t] \/ (items'[t] = None /\ t = req[r].cookie)
    BY <1>1, <1>2, ItemsTypes
  <1>4. StoreShrinks(r)
    BY <1>3 DEF Get, StoreShrinks
  <1>5. excused' = (excused \/ (items' # items /\ req[r].cookie = jar.session))
    BY DEF Get
  <1> QED BY <1>3, <1>4, <1>5

LEMMA AtWork == ASSUME TypeOK, NEW r \in Requests, req[r].pc # "idle" PROVE req[r] \in RequestState
  BY IdleFacts DEF TypeOK

LEMMA GoingTo ==
    ASSUME TypeOK, NEW r \in Requests, NEW q, Goto(r, q)
    PROVE  req'[r] = q /\ \A s \in Requests : s # r => req'[s] = req[s]
  BY DEF TypeOK, Goto

LEMMA Finishing ==
    ASSUME TypeOK, NEW r \in Requests, req[r] \in RequestState, Goto(r, Finished(req[r]))
    PROVE  /\ RequestGoesOn(r)
           /\ Replacing(req[r]) /\ req[r].pc # "save" =>
                req'[r] # Idle /\ req'[r].cookie = req[r].cookie /\ Replacing(req'[r])
  <1>1. req'[r] = Finished(req[r]) /\ \A s \in Requests : s # r => req'[s] = req[s]
    BY GoingTo
  <1>2. CASE req'[r] = Idle /\ req[r].set = Keep
    BY <1>1, <1>2 DEF RequestGoesOn, Replacing
  <1>3. CASE /\ req'[r] \in RequestState
             /\ req'[r].pc = "answer" /\ req'[r].cookie = req[r].cookie
             /\ req'[r].csrf = 0 /\ req'[r].cur = 0
             /\ req'[r].set = req[r].set /\ req[r].set # Keep
    <2>1. RequestGoesOn(r)
      BY <1>1, <1>3 DEF RequestGoesOn, Working
    <2>2. req'[r] # Idle
      BY <1>3, IdleFacts
    <2> QED BY <1>3, <2>1, <2>2 DEF Replacing
  <1> QED BY <1>1, <1>2, <1>3, FinishedType

LEMMA GetFailsShrinks == ASSUME TypeOK, NEW r \in Requests, GetFails(r) PROVE Shrinks(r)
  <1>1. req[r] \in RequestState /\ req[r].pc # "save"
    BY AtWork DEF GetFails
  <1>2. StoreShrinks(r) /\ items' = items /\ excused' = excused
    BY <1>1, Unchanging DEF GetFails
  <1>3. /\ RequestGoesOn(r)
        /\ Replacing(req[r]) => req'[r] # Idle /\ req'[r].cookie = req[r].cookie /\ Replacing(req'[r])
    BY <1>1, Finishing DEF GetFails
  <1>4. StrandsNobody(r)
    BY <1>2, <1>3 DEF StrandsNobody, TypeOK
  <1> QED BY <1>2, <1>3, <1>4 DEF Shrinks

\* What follows from Looking and a request that ends or goes on.
LEMMA LookingShrinks ==
    ASSUME TypeOK, NEW r \in Requests, req[r] \in RequestState, Get(r), RequestGoesOn(r),
           Replacing(req[r]) => req'[r] # Idle /\ req'[r].cookie = req[r].cookie /\ Replacing(req'[r])
    PROVE  Shrinks(r)
  <1>1. /\ StoreShrinks(r) /\ excused' \in BOOLEAN
        /\ excused => excused'
        /\ items' # items /\ req[r].cookie = jar.session => excused'
    BY Looking
  <1>2. StrandsNobody(r)
    BY <1>1 DEF StrandsNobody
  <1> QED BY <1>1, <1>2 DEF Shrinks

LEMMA AuthGuardShrinks == ASSUME TypeOK, NEW r \in Requests, AuthGuard(r) PROVE Shrinks(r)
  <1>1. req[r] \in RequestState /\ req[r].pc # "save"
    BY AtWork DEF AuthGuard
  <1>2. /\ RequestGoesOn(r)
        /\ Replacing(req[r]) => req'[r] # Idle /\ req'[r].cookie = req[r].cookie /\ Replacing(req'[r])
    BY <1>1, Finishing DEF AuthGuard
  <1> QED BY <1>1, <1>2, LookingShrinks DEF AuthGuard

LEMMA CSRFShrinks == ASSUME TypeOK, NEW r \in Requests, CSRFMiddleware(r) PROVE Shrinks(r)
  <1>1. req[r] \in RequestState /\ req[r].pc \in {"checkPost", "checkLogout"} /\ Get(r)
    BY AtWork DEF CSRFMiddleware
  <1>2. CASE Loads(req[r].cookie) /\ req[r].csrf = owner[req[r].cookie]
    <2> DEFINE q == [req[r] EXCEPT !.pc = IF req[r].pc = "checkPost" THEN "load" ELSE "logout", !.cur = req[r].csrf]
    <2>1. Goto(r, q)
      BY <1>2 DEF CSRFMiddleware
    <2>2. /\ q \in RequestState /\ q.pc \in {"load", "logout"} /\ q.cookie = req[r].cookie /\ q.set = req[r].set
          /\ q.csrf = req[r].csrf /\ q.cur = req[r].csrf
      BY <1>1 DEF RequestState
    <2> HIDE DEF q
    <2>3. req'[r] = q /\ \A s \in Requests : s # r => req'[s] = req[s]
      BY <2>1, GoingTo
    <2>4. items' = items
      BY <1>1, <1>2, Looking
    <2>5. RequestGoesOn(r)
      BY <1>2, <2>2, <2>3, <2>4 DEF RequestGoesOn, Working
    <2>6. Replacing(req[r]) => req'[r] # Idle /\ req'[r].cookie = req[r].cookie /\ Replacing(req'[r])
      BY <1>1, <2>2, <2>3, IdleFacts DEF Replacing
    <2> QED BY <1>1, <2>5, <2>6, LookingShrinks
  <1>3. CASE ~(Loads(req[r].cookie) /\ req[r].csrf = owner[req[r].cookie])
    <2>1. Goto(r, Finished(req[r]))
      BY <1>3 DEF CSRFMiddleware
    <2>2. /\ RequestGoesOn(r)
          /\ Replacing(req[r]) => req'[r] # Idle /\ req'[r].cookie = req[r].cookie /\ Replacing(req'[r])
      BY <1>1, <2>1, Finishing
    <2> QED BY <1>1, <2>2, LookingShrinks
  <1> QED BY <1>2, <1>3

LEMMA ForwarderShrinks == ASSUME TypeOK, NEW r \in Requests, TokenForwarder(r) PROVE Shrinks(r)
  <1>1. req[r] \in RequestState /\ req[r].pc = "load" /\ Get(r)
    BY AtWork DEF TokenForwarder
  <1>2. CASE Loads(req[r].cookie)
    <2> DEFINE t == req[r].cookie
               dead == Refreshable(t) /\ TokenExpired(t)
               pc == IF Refreshable(t) /\ (TokenExpired(t) \/ TokenNearExpiry(t)) THEN "refresh" ELSE "forward"
               q == [req[r] EXCEPT !.pc = pc, !.cur = owner[t], !.dead = dead]
    <2>1. Goto(r, q)
      BY <1>2 DEF TokenForwarder
    <2>2. t \in Tokens /\ owner[t] \in Logins \cup {0}
      BY <1>2 DEF Loads, TypeOK
    <2>a. dead \in BOOLEAN /\ pc \in {"refresh", "forward"}
      OBVIOUS
    <2> HIDE DEF pc, dead
    <2>3. /\ q \in RequestState /\ q.pc \in {"refresh", "forward"} /\ q.cookie = req[r].cookie /\ q.set = req[r].set
          /\ q.csrf = req[r].csrf /\ q.cur = owner[req[r].cookie]
      BY <1>1, <2>2, <2>a DEF RequestState
    <2> HIDE DEF q
    <2>4. req'[r] = q /\ \A s \in Requests : s # r => req'[s] = req[s]
      BY <2>1, GoingTo
    <2>5. items' = items
      BY <1>1, <1>2, Looking
    <2>6. RequestGoesOn(r)
      BY <1>1, <1>2, <2>3, <2>4, <2>5 DEF RequestGoesOn, Working
    <2>7. Replacing(req[r]) => req'[r] # Idle /\ req'[r].cookie = req[r].cookie /\ Replacing(req'[r])
      BY <1>1, <2>3, <2>4, IdleFacts DEF Replacing
    <2> QED BY <1>1, <2>6, <2>7, LookingShrinks
  <1>3. CASE ~Loads(req[r].cookie)
    <2>1. Goto(r, Finished(req[r]))
      BY <1>3 DEF TokenForwarder
    <2>2. /\ RequestGoesOn(r)
          /\ Replacing(req[r]) => req'[r] # Idle /\ req'[r].cookie = req[r].cookie /\ Replacing(req'[r])
      BY <1>1, <2>1, Finishing
    <2> QED BY <1>1, <2>2, LookingShrinks
  <1> QED BY <1>2, <1>3

\* A request that keeps its session and only moves on.
SameSession(p, q) ==
    /\ q \in RequestState /\ q.pc \in Working /\ q.cookie = p.cookie /\ q.csrf = p.csrf
    /\ q.cur = p.cur /\ q.set = p.set

LEMMA MovingOn ==
    ASSUME TypeOK, NEW r \in Requests, req[r] \in RequestState, req[r].pc \in Working,
           NEW q, SameSession(req[r], q), Goto(r, q)
    PROVE  RequestGoesOn(r) /\ req'[r] = q /\ req'[r] # Idle
  <1>1. req'[r] = q /\ \A s \in Requests : s # r => req'[s] = req[s]
    BY GoingTo
  <1>2. req'[r] # Idle
    BY <1>1, IdleFacts DEF SameSession
  <1> QED BY <1>1, <1>2 DEF RequestGoesOn, SameSession, Working

LEMMA RefreshShrinks ==
    ASSUME TypeOK, NEW r \in Requests, RefreshSucceeds(r) \/ RefreshFails(r) PROVE Shrinks(r)
  <1>1. req[r] \in RequestState /\ req[r].pc = "refresh"
    BY AtWork DEF RefreshSucceeds, RefreshFails
  <1>2. StoreShrinks(r) /\ items' = items /\ excused' = excused
    <2>1. CASE RefreshSucceeds(r)
      BY <1>1, <2>1, Unchanging DEF RefreshSucceeds
    <2>2. CASE RefreshFails(r)
      BY <2>2 DEF RefreshFails, StoreShrinks, storeVars, TypeOK, ItemsType
    <2> QED BY <2>1, <2>2
  <1>3. PICK q : SameSession(req[r], q) /\ Goto(r, q)
    <2>1. CASE RefreshSucceeds(r)
      <3>1. PICK life \in Lives : Goto(r, [req[r] EXCEPT !.pc = "rotate", !.fresh = life])
        BY <2>1, Constants DEF RefreshSucceeds
      <3>2. SameSession(req[r], [req[r] EXCEPT !.pc = "rotate", !.fresh = life])
        BY <1>1 DEF SameSession, RequestState, Working
      <3> QED BY <3>1, <3>2
    <2>2. CASE RefreshFails(r)
      <3>1. SameSession(req[r], AfterRefreshError(req[r]))
        BY <1>1, Constants DEF SameSession, AfterRefreshError, RequestState, Working
      <3> QED BY <2>2, <3>1 DEF RefreshFails
    <2> QED BY <2>1, <2>2
  <1>4. RequestGoesOn(r) /\ req'[r] = q /\ req'[r] # Idle
    BY <1>1, <1>3, MovingOn DEF Working
  <1>5. StrandsNobody(r)
    BY <1>1, <1>2, <1>3, <1>4, IdleFacts DEF StrandsNobody, TypeOK, Replacing, SameSession
  <1> QED BY <1>2, <1>4, <1>5 DEF Shrinks

LEMMA RotateDeleteShrinks == ASSUME TypeOK, NEW r \in Requests, RotateDelete(r) PROVE Shrinks(r)
  <1>1. req[r] \in RequestState /\ req[r].pc = "rotate" /\ req[r].cookie \in Tokens \cup {0} /\ items \in ItemsType
    BY AtWork DEF RotateDelete, RequestState, TypeOK, ItemsType
  <1>2. items' = items \/ items' = ItemsAfterDelete(req[r].cookie)
    BY DEF RotateDelete
  <1>3. items' \in ItemsType /\ \A t \in Tokens : items'[t] = items[t] \/ (items'[t] = None /\ t = req[r].cookie)
    BY <1>1, <1>2, ItemsTypes
  <1>4. StoreShrinks(r) /\ excused' = excused
    BY <1>3 DEF RotateDelete, StoreShrinks, otherVars
  <1>5. SameSession(req[r], [req[r] EXCEPT !.pc = "save"]) /\ [req[r] EXCEPT !.pc = "save"].pc = "save"
    BY <1>1 DEF SameSession, RequestState, Working
  <1>6. RequestGoesOn(r) /\ req'[r] = [req[r] EXCEPT !.pc = "save"] /\ req'[r] # Idle
    BY <1>1, <1>5, MovingOn DEF RotateDelete, Working
  <1>7. req'[r].pc = "save" /\ req'[r].cookie = req[r].cookie
    BY <1>5, <1>6 DEF SameSession
  <1>8. items' # items => req[r].cookie # 0
    BY <1>1, <1>2, Constants DEF ItemsAfterDelete
  <1>9. StrandsNobody(r)
    BY <1>4, <1>6, <1>7, <1>8 DEF StrandsNobody, TypeOK, Replacing
  <1> QED BY <1>4, <1>6, <1>9 DEF Shrinks

LEMMA SaveFailsShrinks == ASSUME TypeOK, NEW r \in Requests, RotateSaveFails(r) PROVE Shrinks(r)
  <1>1. req[r] \in RequestState /\ req[r].pc = "save" /\ items \in ItemsType
    BY AtWork DEF RotateSaveFails, TypeOK, ItemsType
  <1>2. StoreShrinks(r) /\ items' = items
    BY <1>1 DEF RotateSaveFails, StoreShrinks, storeVars
  <1>3. SameSession(req[r], AfterRefreshError(req[r]))
    BY <1>1, Constants DEF SameSession, AfterRefreshError, RequestState, Working
  <1>4. RequestGoesOn(r)
    BY <1>1, <1>3, MovingOn DEF RotateSaveFails, Working
  <1>5. excused' = (excused \/ (Replacing(req[r]) /\ req[r].cookie = jar.session))
    BY DEF RotateSaveFails, ReplacingCookie
  <1>6. StrandsNobody(r)
    BY <1>2, <1>5 DEF StrandsNobody
  <1> QED BY <1>2, <1>4, <1>6 DEF Shrinks

LEMMA EndsShrink == ASSUME TypeOK, NEW r \in Requests, APIProxy(r) \/ CallbackFails(r) PROVE Shrinks(r)
  <1>1. req[r] \in RequestState /\ req[r].pc # "save" /\ Goto(r, Finished(req[r]))
    BY AtWork DEF APIProxy, CallbackFails
  <1>2. StoreShrinks(r) /\ items' = items /\ excused' = excused
    BY <1>1, Unchanging DEF APIProxy, CallbackFails
  <1>3. /\ RequestGoesOn(r)
        /\ Replacing(req[r]) => req'[r] # Idle /\ req'[r].cookie = req[r].cookie /\ Replacing(req'[r])
    BY <1>1, Finishing
  <1>4. StrandsNobody(r)
    BY <1>2, <1>3 DEF StrandsNobody, TypeOK
  <1> QED BY <1>2, <1>3, <1>4 DEF Shrinks

LEMMA DestroyShrinks ==
    ASSUME TypeOK, NEW r \in Requests, req[r] \in RequestState, req[r].pc \in {"destroy", "logout"},
           (\E c \in {Keep, Clear} : Destroy(r, c)) \/ DestroyFails(r),
           UNCHANGED <<owner, nTokens, store, nLogins, jar>>,
           ended' = ended \/ (ended' = ended \cup {req[r].cur} /\ req[r].pc = "logout")
    PROVE  Shrinks(r)
  <1>1. req[r].cookie \in Tokens \cup {0} /\ items \in ItemsType
    BY DEF RequestState, TypeOK, ItemsType
  <1>2. items' = items \/ items' = ItemsAfterDelete(req[r].cookie)
    BY DEF Destroy, DestroyFails
  <1>3. items' \in ItemsType /\ \A t \in Tokens : items'[t] = items[t] \/ (items'[t] = None /\ t = req[r].cookie)
    BY <1>1, <1>2, ItemsTypes
  <1>4. StoreShrinks(r)
    BY <1>3 DEF StoreShrinks
  <1>5. CASE DestroyFails(r)
    <2>1. /\ RequestGoesOn(r)
          /\ Replacing(req[r]) => req'[r] # Idle /\ req'[r].cookie = req[r].cookie /\ Replacing(req'[r])
      BY <1>5, Finishing DEF DestroyFails
    <2>2. excused' = (excused \/ (items' # items /\ req[r].cookie = jar.session))
      BY <1>5 DEF DestroyFails
    <2>3. StrandsNobody(r)
      BY <2>1, <2>2 DEF StrandsNobody
    <2> QED BY <1>4, <2>1, <2>3 DEF Shrinks
  <1>6. ASSUME NEW c \in {Keep, Clear}, Destroy(r, c) PROVE Shrinks(r)
    <2>1. Goto(r, Answered(req[r], Clear, c)) /\ excused' = excused
      BY <1>6 DEF Destroy, ClearedCookie
    <2>2. /\ req'[r] \in RequestState /\ req'[r].pc = "answer" /\ req'[r].cookie = req[r].cookie
          /\ req'[r].csrf = 0 /\ req'[r].cur = 0 /\ req'[r].set = Clear
          /\ \A s \in Requests : s # r => req'[s] = req[s]
      <3>1. req'[r] = Answered(req[r], Clear, c) /\ \A s \in Requests : s # r => req'[s] = req[s]
        BY <2>1, GoingTo
      <3>2. Clear \in Tokens \cup {Keep, Clear} /\ c \in Logins \cup {Keep, Clear}
        OBVIOUS
      <3> QED BY <3>1, <3>2, AnsweredType
    <2>3. req'[r] # Idle /\ Clear # Keep
      BY <2>2, IdleFacts DEF Clear, Keep
    <2>4. RequestGoesOn(r)
      BY <2>2 DEF RequestGoesOn, Working
    <2>5. items' # items => req[r].cookie # 0
      BY <1>1, <1>2, Constants DEF ItemsAfterDelete
    <2>6. StrandsNobody(r)
      BY <2>1, <2>2, <2>3, <2>5 DEF StrandsNobody, Replacing, TypeOK
    <2> QED BY <1>4, <2>4, <2>6 DEF Shrinks
  <1> QED BY <1>5, <1>6

LEMMA ProceedShrinks ==
    ASSUME TypeOK, NEW r \in Requests, Proceed(r), ~RotateSave(r), ~Callback(r) PROVE Shrinks(r)
  <1>1. CASE DestroyExpired(r)
    <2>1. req[r] \in RequestState /\ req[r].pc = "destroy"
      BY <1>1, AtWork DEF DestroyExpired
    <2> QED BY <1>1, <2>1, DestroyShrinks DEF DestroyExpired
  <1>2. CASE Logout(r)
    <2>1. req[r] \in RequestState /\ req[r].pc = "logout"
      BY <1>2, AtWork DEF Logout
    <2> QED BY <1>2, <2>1, DestroyShrinks DEF Logout
  <1> QED BY <1>1, <1>2, GetFailsShrinks, AuthGuardShrinks, CSRFShrinks, ForwarderShrinks, RefreshShrinks,
             RotateDeleteShrinks, SaveFailsShrinks, EndsShrink DEF Proceed

-----------------------------------------------------------------------------
(* What a Save does. *)

Saves(r, l) ==
    /\ l \in Logins \cup {0}
    /\ nTokens + 1 \in Tokens /\ nTokens' = nTokens + 1
    /\ owner' \in [Tokens -> Logins \cup {0}] /\ items' \in ItemsType
    /\ owner'[nTokens + 1] = l
    /\ items'[nTokens + 1] \in Session /\ items'[nTokens + 1].ttl = SavedTTL
    /\ \A t \in Tokens : t # nTokens + 1 => owner'[t] = owner[t] /\ items'[t] = items[t]
    /\ store' = store /\ jar' = jar /\ excused' = excused /\ ended' = ended
    /\ \A s \in Requests : s # r => req'[s] = req[s]
    /\ req[r] \in RequestState /\ req'[r] \in RequestState
    /\ req'[r].cookie = req[r].cookie /\ req'[r].set = nTokens + 1

LEMMA SaveAdds ==
    ASSUME TypeOK, NEW l \in Logins \cup {0}, NEW life \in Lives, Save(l, life)
    PROVE  /\ nTokens + 1 \in Tokens /\ nTokens' = nTokens + 1
           /\ owner' \in [Tokens -> Logins \cup {0}] /\ items' \in ItemsType
           /\ owner'[nTokens + 1] = l
           /\ items'[nTokens + 1] \in Session /\ items'[nTokens + 1].ttl = SavedTTL
           /\ \A t \in Tokens : t # nTokens + 1 => owner'[t] = owner[t] /\ items'[t] = items[t]
  <1> DEFINE n == nTokens + 1
             new == [life |-> life, ttl |-> SavedTTL]
  <1>1. new \in Session /\ new.ttl = SavedTTL
    BY Constants DEF Session, SavedTTL
  <1>2. n \in Tokens /\ owner' = [owner EXCEPT ![n] = l] /\ items' = [items EXCEPT ![n] = new] /\ nTokens' = n
    BY DEF Save, NewToken
  <1>3. owner \in [Tokens -> Logins \cup {0}] /\ items \in ItemsType
    BY DEF TypeOK, ItemsType
  <1> HIDE DEF n, new
  <1>4. /\ owner' \in [Tokens -> Logins \cup {0}] /\ items' \in ItemsType
        /\ owner'[n] = l /\ items'[n] = new
        /\ \A t \in Tokens : t # n => owner'[t] = owner[t] /\ items'[t] = items[t]
    BY <1>1, <1>2, <1>3 DEF ItemsType
  <1> QED BY <1>1, <1>2, <1>4 DEF n

LEMMA RotateSaves ==
    ASSUME TypeOK, NEW r \in Requests, RotateSave(r)
    PROVE  /\ Saves(r, req[r].cur) /\ nLogins' = nLogins
           /\ req[r].pc = "save" /\ req'[r].pc = "forward"
           /\ req'[r].cur = req[r].cur /\ req'[r].csrf = req[r].csrf
  <1>1. req[r] \in RequestState /\ req[r].pc = "save" /\ req[r].cur \in Logins \cup {0} /\ req[r].fresh \in Lives
    BY AtWork DEF RotateSave, RequestState
  <1>2. Save(req[r].cur, req[r].fresh) /\ NewToken = nTokens + 1
    BY DEF RotateSave, NewToken
  <1>3. /\ nTokens + 1 \in Tokens /\ nTokens' = nTokens + 1
        /\ owner' \in [Tokens -> Logins \cup {0}] /\ items' \in ItemsType
        /\ owner'[nTokens + 1] = req[r].cur
        /\ items'[nTokens + 1] \in Session /\ items'[nTokens + 1].ttl = SavedTTL
        /\ \A t \in Tokens : t # nTokens + 1 => owner'[t] = owner[t] /\ items'[t] = items[t]
    BY <1>1, <1>2, SaveAdds
  <1>4. /\ req'[r] = [req[r] EXCEPT !.pc = "forward", !.set = nTokens + 1, !.fresh = 0, !.dead = FALSE]
        /\ \A s \in Requests : s # r => req'[s] = req[s]
    BY GoingTo DEF RotateSave, NewToken
  <1>5. /\ req'[r] \in RequestState /\ req'[r].pc = "forward" /\ req'[r].cookie = req[r].cookie
        /\ req'[r].set = nTokens + 1 /\ req'[r].cur = req[r].cur /\ req'[r].csrf = req[r].csrf
    BY <1>1, <1>3, <1>4, Constants DEF RequestState
  <1>6. store' = store /\ nLogins' = nLogins /\ jar' = jar /\ excused' = excused /\ ended' = ended
    BY DEF RotateSave, otherVars
  <1> QED BY <1>1, <1>3, <1>4, <1>5, <1>6 DEF Saves

LEMMA CallbackSaves ==
    ASSUME TypeOK, NEW r \in Requests, Callback(r)
    PROVE  /\ Saves(r, nLogins + 1) /\ nLogins + 1 \in Logins /\ nLogins' = nLogins + 1
           /\ req[r].pc = "create" /\ req'[r].pc = "answer"
           /\ req'[r].cur = 0 /\ req'[r].csrf = 0
  <1>1. req[r] \in RequestState /\ req[r].pc = "create" /\ nLogins + 1 \in Logins
    BY AtWork DEF Callback
  <1>2. PICK life \in Lives : Save(nLogins + 1, life)
    BY Constants DEF Callback
  <1>3. /\ nTokens + 1 \in Tokens /\ nTokens' = nTokens + 1
        /\ owner' \in [Tokens -> Logins \cup {0}] /\ items' \in ItemsType
        /\ owner'[nTokens + 1] = nLogins + 1
        /\ items'[nTokens + 1] \in Session /\ items'[nTokens + 1].ttl = SavedTTL
        /\ \A t \in Tokens : t # nTokens + 1 => owner'[t] = owner[t] /\ items'[t] = items[t]
    BY <1>1, <1>2, SaveAdds
  <1>4. /\ req'[r] = Answered(req[r], nTokens + 1, nLogins + 1)
        /\ \A s \in Requests : s # r => req'[s] = req[s]
    BY GoingTo DEF Callback, NewToken
  <1>5. /\ req'[r] \in RequestState /\ req'[r].pc = "answer" /\ req'[r].cookie = req[r].cookie
        /\ req'[r].set = nTokens + 1 /\ req'[r].cur = 0 /\ req'[r].csrf = 0
    BY <1>1, <1>3, <1>4, AnsweredType
  <1>6. store' = store /\ nLogins' = nLogins + 1 /\ jar' = jar /\ excused' = excused /\ ended' = ended
    BY DEF Callback
  <1> QED BY <1>1, <1>3, <1>4, <1>5, <1>6 DEF Saves

-----------------------------------------------------------------------------
(* What the browser and the clock do. *)

LEMMA Sending ==
    ASSUME TypeOK, NEW r \in Requests, NEW kind \in RequestKinds, Send(r, kind)
    PROVE  /\ req[r] = Idle /\ \A s \in Requests : s # r => req'[s] = req[s]
           /\ req'[r] \in RequestState /\ req'[r].cookie \in {jar.session, 0}
           /\ req'[r].cur = 0 /\ req'[r].set = Keep
           /\ req'[r].pc \in {"guard", "checkPost", "checkLogout", "load", "create"}
           /\ req'[r].pc = "load" => req'[r].csrf = 0
           /\ UNCHANGED <<storeVars, otherVars>>
  <1>1. jar.session \in Tokens \cup {0} /\ jar.csrf \in Logins \cup {0}
    BY DEF TypeOK, Jar
  <1>2. req'[r] = Route(kind, jar.session, jar.csrf) /\ \A s \in Requests : s # r => req'[s] = req[s]
    BY DEF Send, TypeOK
  <1>3. \E pc \in {"guard", "checkPost", "checkLogout", "load", "create"},
           cookie \in {jar.session, 0}, csrf \in Logins \cup {0} :
             Route(kind, jar.session, jar.csrf) = Arrived(pc, cookie, csrf) /\ (pc = "load" => csrf = 0)
    BY <1>1 DEF Route, RequestKinds
  <1>4. PICK pc \in {"guard", "checkPost", "checkLogout", "load", "create"},
             cookie \in {jar.session, 0}, csrf \in Logins \cup {0} :
             Route(kind, jar.session, jar.csrf) = Arrived(pc, cookie, csrf) /\ (pc = "load" => csrf = 0)
    BY <1>3
  <1>5. /\ Arrived(pc, cookie, csrf) \in RequestState
        /\ Arrived(pc, cookie, csrf).pc = pc /\ Arrived(pc, cookie, csrf).cookie = cookie
        /\ Arrived(pc, cookie, csrf).csrf = csrf /\ Arrived(pc, cookie, csrf).cur = 0
        /\ Arrived(pc, cookie, csrf).set = Keep
    BY <1>1, ArrivedType
  <1> QED BY <1>2, <1>4, <1>5 DEF Send

\* A tick changes no request but for the age of a token.
LEMMA TickingRequests ==
    ASSUME TypeOK, NEW r \in Requests, Tick
    PROVE  /\ req[r] = Idle => req'[r] = Idle
           /\ req[r] # Idle => /\ req[r] \in RequestState /\ req'[r] \in RequestState
                               /\ req'[r].pc = req[r].pc /\ req'[r].cookie = req[r].cookie
                               /\ req'[r].csrf = req[r].csrf /\ req'[r].cur = req[r].cur
                               /\ req'[r].set = req[r].set
  <1>1. req'[r] = IF req[r] = Idle THEN Idle ELSE [req[r] EXCEPT !.fresh = Later(req[r].fresh)]
    BY DEF Tick
  <1>2. req[r] \in RequestState \cup {Idle}
    BY DEF TypeOK
  <1>3. CASE req[r] # Idle
    <2>1. req[r].fresh \in Lives
      BY <1>2, <1>3 DEF RequestState
    <2>2. Later(req[r].fresh) \in Lives
      BY <2>1, LaterType
    <2> QED BY <1>1, <1>2, <1>3, <2>2 DEF RequestState
  <1> QED BY <1>1, <1>3

LEMMA TickingItems ==
    ASSUME TypeOK, Tick
    PROVE  /\ items' \in ItemsType
           /\ \A t \in Tokens : items'[t] = None <=> items[t] = None
           /\ \A t \in Tokens : Expired(t) => Expired(t)'
           /\ owner' = owner /\ store' = store
           /\ nTokens' = nTokens /\ nLogins' = nLogins /\ ended' = ended
  <1>0. items' = [t \in Tokens |-> IF items[t] = None THEN None
                                   ELSE [items[t] EXCEPT !.life = Later(items[t].life), !.ttl = Later(items[t].ttl)]]
    BY DEF Tick
  <1>1. ASSUME NEW t \in Tokens
        PROVE  /\ items'[t] \in Session \cup {None}
               /\ items'[t] = None <=> items[t] = None
               /\ items[t] # None => items'[t].ttl = Later(items[t].ttl) /\ items[t].ttl \in TTLs
    <2>1. items'[t] = IF items[t] = None THEN None
                      ELSE [items[t] EXCEPT !.life = Later(items[t].life), !.ttl = Later(items[t].ttl)]
      BY <1>0
    <2>2. items[t] \in Session \cup {None}
      BY DEF TypeOK
    <2>3. CASE items[t] # None
      <3>1. items[t] \in Session /\ items[t].life \in Lives /\ items[t].ttl \in TTLs
        BY <2>2, <2>3 DEF Session
      <3>2. Later(items[t].life) \in Lives /\ Later(items[t].ttl) \in TTLs
        BY <3>1, LaterType
      <3>3. items'[t] \in Session /\ items'[t].ttl = Later(items[t].ttl)
        BY <2>1, <2>3, <3>1, <3>2 DEF Session
      <3> QED BY <2>3, <3>1, <3>3, NoneAssumption
    <2> QED BY <2>1, <2>3
  <1>2. items' \in ItemsType
    BY <1>0, <1>1 DEF ItemsType
  <1>3. \A t \in Tokens : Expired(t) => Expired(t)'
    BY <1>1, LaterType DEF Expired
  <1> QED BY <1>1, <1>2, <1>3 DEF Tick

LEMMA Delivering ==
    ASSUME TypeOK, NEW r \in Requests, Deliver(r)
    PROVE  /\ req[r] \in RequestState /\ req[r].pc = "answer"
           /\ req'[r] = Idle /\ \A s \in Requests : s # r => req'[s] = req[s]
           /\ jar' \in Jar
           /\ jar'.session = IF req[r].set = Keep THEN jar.session ELSE req[r].set
           /\ excused' = (excused /\ req[r].set = Keep)
           /\ UNCHANGED <<storeVars, store, nLogins, ended>>
  <1>1. req[r] \in RequestState /\ req[r].pc = "answer"
    BY AtWork DEF Deliver
  <1>2. /\ req[r].set \in Tokens \cup {Keep, Clear} /\ req[r].setCsrf \in Logins \cup {Keep, Clear}
        /\ jar.session \in Tokens \cup {0} /\ jar.csrf \in Logins \cup {0}
        /\ jar.left \in 0 .. SessionTTL /\ jar.csrfLeft \in 0 .. SessionTTL
    BY <1>1 DEF RequestState, TypeOK, Jar
  <1>3. /\ CookieAfter(jar.session, req[r].set) \in Tokens \cup {0}
        /\ CookieAfter(jar.csrf, req[r].setCsrf) \in Logins \cup {0}
        /\ LeftAfter(jar.left, req[r].set) \in 0 .. SessionTTL
        /\ LeftAfter(jar.csrfLeft, req[r].setCsrf) \in 0 .. SessionTTL
    BY <1>2, Constants DEF CookieAfter, LeftAfter, Clear
  <1>4. jar' = [session  |-> CookieAfter(jar.session, req[r].set),
                left     |-> LeftAfter(jar.left, req[r].set),
                csrf     |-> CookieAfter(jar.csrf, req[r].setCsrf),
                csrfLeft |-> LeftAfter(jar.csrfLeft, req[r].setCsrf)]
    BY DEF Deliver
  <1>5. jar' \in Jar /\ jar'.session = CookieAfter(jar.session, req[r].set)
    BY <1>3, <1>4 DEF Jar
  <1>6. req'[r] = Idle /\ \A s \in Requests : s # r => req'[s] = req[s]
    BY DEF Deliver, TypeOK
  <1> QED BY <1>1, <1>5, <1>6 DEF Deliver, CookieAfter

-----------------------------------------------------------------------------
(* What is remembered of the login being disturbed. *)

\* A handler forgets no disturbance, and notes every one that it causes.
Notes(r) ==
    /\ disturbed' \in BOOLEAN
    /\ disturbed => disturbed'
    /\ excused' => excused \/ disturbed'
    /\ Clearing(req'[r]) => Clearing(req[r]) \/ disturbed'

LEMMA IdleDoesNotClear == ~Clearing(Idle)
  BY IdleFacts DEF Clearing

LEMMA FinishedClears ==
    ASSUME TypeOK, NEW r \in Requests, req[r] \in RequestState, Goto(r, Finished(req[r]))
    PROVE  Clearing(req'[r]) => Clearing(req[r])
  <1>1. req'[r] = Finished(req[r]) /\ req[r].pc # "idle"
    BY GoingTo, IdleFacts
  <1>2. CASE Finished(req[r]) = Idle
    BY <1>1, <1>2, IdleDoesNotClear
  <1>3. CASE Finished(req[r]).pc = "answer" /\ Finished(req[r]).set = req[r].set
    BY <1>1, <1>3 DEF Clearing
  <1> QED BY <1>2, <1>3, FinishedType

LEMMA LookingNotes ==
    ASSUME TypeOK, NEW r \in Requests, Get(r), Clearing(req'[r]) => Clearing(req[r])
    PROVE  Notes(r)
  <1>1. disturbed' = (disturbed \/ excused')
    BY DEF Get
  <1> QED BY <1>1 DEF Notes

LEMMA MovesNote ==
    ASSUME TypeOK, NEW r \in Requests, req[r] \in RequestState, NEW q, Goto(r, q),
           q.pc # "destroy", q.set = req[r].set, UNCHANGED <<excused, disturbed>>
    PROVE  Notes(r)
  <1>1. req'[r] = q
    BY GoingTo
  <1>2. Clearing(req'[r]) => Clearing(req[r])
    BY <1>1, IdleFacts DEF Clearing
  <1> QED BY <1>2 DEF Notes, TypeOK

LEMMA CSRFNotes == ASSUME TypeOK, NEW r \in Requests, CSRFMiddleware(r) PROVE Notes(r)
  <1>1. req[r] \in RequestState /\ req[r].pc \in {"checkPost", "checkLogout"} /\ Get(r)
    BY AtWork DEF CSRFMiddleware
  <1>2. CASE Loads(req[r].cookie) /\ req[r].csrf = owner[req[r].cookie]
    <2> DEFINE q == [req[r] EXCEPT !.pc = IF req[r].pc = "checkPost" THEN "load" ELSE "logout", !.cur = req[r].csrf]
    <2>1. Goto(r, q)
      BY <1>2 DEF CSRFMiddleware
    <2>2. q.pc # "destroy" /\ q.set = req[r].set
      BY <1>1 DEF RequestState
    <2> HIDE DEF q
    <2>3. Clearing(req'[r]) => Clearing(req[r])
      BY <1>1, <2>1, <2>2, GoingTo, IdleFacts DEF Clearing
    <2> QED BY <1>1, <2>3, LookingNotes
  <1>3. CASE ~(Loads(req[r].cookie) /\ req[r].csrf = owner[req[r].cookie])
    <2>1. Goto(r, Finished(req[r]))
      BY <1>3 DEF CSRFMiddleware
    <2> QED BY <1>1, <2>1, FinishedClears, LookingNotes
  <1> QED BY <1>2, <1>3

LEMMA ForwarderNotes == ASSUME TypeOK, NEW r \in Requests, TokenForwarder(r) PROVE Notes(r)
  <1>1. req[r] \in RequestState /\ req[r].pc = "load" /\ Get(r)
    BY AtWork DEF TokenForwarder
  <1>2. CASE Loads(req[r].cookie)
    <2> DEFINE t == req[r].cookie
               dead == Refreshable(t) /\ TokenExpired(t)
               pc == IF Refreshable(t) /\ (TokenExpired(t) \/ TokenNearExpiry(t)) THEN "refresh" ELSE "forward"
               q == [req[r] EXCEPT !.pc = pc, !.cur = owner[t], !.dead = dead]
    <2>1. Goto(r, q)
      BY <1>2 DEF TokenForwarder
    <2>2. pc # "destroy"
      OBVIOUS
    <2> HIDE DEF pc, dead
    <2>3. q.pc # "destroy" /\ q.set = req[r].set
      BY <1>1, <2>2 DEF RequestState
    <2> HIDE DEF q
    <2>4. Clearing(req'[r]) => Clearing(req[r])
      BY <1>1, <2>1, <2>3, GoingTo, IdleFacts DEF Clearing
    <2> QED BY <1>1, <2>4, LookingNotes
  <1>3. CASE ~Loads(req[r].cookie)
    <2>1. Goto(r, Finished(req[r]))
      BY <1>3 DEF TokenForwarder
    <2> QED BY <1>1, <2>1, FinishedClears, LookingNotes
  <1> QED BY <1>2, <1>3

\* A refresh that fails gives up on a session only when its access token had
\* expired, and that is a disturbance.
LEMMA RefreshErrorNotes ==
    ASSUME TypeOK, NEW r \in Requests, req[r] \in RequestState, Goto(r, AfterRefreshError(req[r])),
           req[r].dead => disturbed'
    PROVE  Clearing(req'[r]) => Clearing(req[r]) \/ disturbed'
  <1>1. req'[r] = AfterRefreshError(req[r])
    BY GoingTo
  <1>2. /\ AfterRefreshError(req[r]).pc = (IF req[r].dead THEN "destroy" ELSE "forward")
        /\ AfterRefreshError(req[r]).set = req[r].set
    BY DEF AfterRefreshError, RequestState
  <1> QED BY <1>1, <1>2, IdleFacts DEF Clearing

LEMMA ProceedNotes == ASSUME TypeOK, NEW r \in Requests, Proceed(r) PROVE Notes(r)
  <1>1. CASE GetFails(r) \/ APIProxy(r) \/ CallbackFails(r)
    <2>1. req[r] \in RequestState /\ Goto(r, Finished(req[r])) /\ UNCHANGED <<excused, disturbed>>
      BY <1>1, AtWork DEF GetFails, APIProxy, CallbackFails, otherVars
    <2> QED BY <2>1, FinishedClears DEF Notes, TypeOK
  <1>2. CASE AuthGuard(r)
    <2>1. req[r] \in RequestState
      BY <1>2, AtWork DEF AuthGuard
    <2> QED BY <1>2, <2>1, FinishedClears, LookingNotes DEF AuthGuard
  <1>3. CASE RefreshSucceeds(r)
    <2>1. req[r] \in RequestState /\ UNCHANGED <<excused, disturbed>>
      BY <1>3, AtWork DEF RefreshSucceeds, otherVars
    <2>2. PICK life \in Lives : Goto(r, [req[r] EXCEPT !.pc = "rotate", !.fresh = life])
      BY <1>3, Constants DEF RefreshSucceeds
    <2>3. /\ [req[r] EXCEPT !.pc = "rotate", !.fresh = life].pc # "destroy"
          /\ [req[r] EXCEPT !.pc = "rotate", !.fresh = life].set = req[r].set
      BY <2>1 DEF RequestState
    <2> QED BY <2>1, <2>2, <2>3, MovesNote
  <1>4. CASE RefreshFails(r)
    <2>1. req[r] \in RequestState /\ req[r].dead \in BOOLEAN
      BY <1>4, AtWork DEF RefreshFails, RequestState
    <2>2. disturbed' = (disturbed \/ req[r].dead) /\ excused' = excused /\ Goto(r, AfterRefreshError(req[r]))
      BY <1>4 DEF RefreshFails
    <2> QED BY <2>1, <2>2, RefreshErrorNotes DEF Notes
  <1>5. CASE RotateDelete(r)
    <2>1. req[r] \in RequestState /\ Goto(r, [req[r] EXCEPT !.pc = "save"]) /\ UNCHANGED <<excused, disturbed>>
      BY <1>5, AtWork DEF RotateDelete, otherVars
    <2>2. [req[r] EXCEPT !.pc = "save"].pc # "destroy" /\ [req[r] EXCEPT !.pc = "save"].set = req[r].set
      BY <2>1 DEF RequestState
    <2> QED BY <2>1, <2>2, MovesNote
  <1>6. CASE RotateSave(r) \/ Callback(r)
    <2>1. PICK l : Saves(r, l)
      BY <1>6, RotateSaves, CallbackSaves
    <2>2. req'[r].set # Clear /\ req'[r].pc # "destroy"
      BY <1>6, <2>1, RotateSaves, CallbackSaves, Constants DEF Saves, Clear
    <2>3. UNCHANGED <<excused, disturbed>>
      BY <1>6 DEF RotateSave, Callback, otherVars
    <2> QED BY <2>2, <2>3 DEF Notes, Clearing, TypeOK
  <1>7. CASE RotateSaveFails(r)
    <2>1. req[r] \in RequestState /\ req[r].dead \in BOOLEAN
      BY <1>7, AtWork DEF RotateSaveFails, RequestState
    <2>2. disturbed' = (disturbed \/ excused' \/ req[r].dead) /\ Goto(r, AfterRefreshError(req[r]))
      BY <1>7 DEF RotateSaveFails
    <2> QED BY <2>1, <2>2, RefreshErrorNotes DEF Notes
  <1>8. CASE DestroyExpired(r)
    <2>1. req[r].pc = "destroy" /\ disturbed' = (disturbed \/ excused')
      BY <1>8 DEF DestroyExpired
    <2> QED BY <2>1 DEF Notes, Clearing
  <1>9. CASE Logout(r)
    BY <1>9 DEF Logout, Notes
  <1> QED BY <1>1, <1>2, <1>3, <1>4, <1>5, <1>6, <1>7, <1>8, <1>9, CSRFNotes, ForwarderNotes DEF Proceed

LEMMA DisturbedType == ASSUME TypeOK, [Next]_vars PROVE disturbed' \in BOOLEAN
  <1>1. CASE Tick \/ Restart
    BY <1>1 DEF Tick, Restart
  <1>2. ASSUME NEW r \in Requests, NEW kind \in RequestKinds, Send(r, kind) PROVE disturbed' \in BOOLEAN
    BY <1>2 DEF Send, otherVars, TypeOK
  <1>3. ASSUME NEW r \in Requests, Proceed(r) PROVE disturbed' \in BOOLEAN
    BY <1>3, ProceedNotes DEF Notes
  <1>4. ASSUME NEW r \in Requests, Deliver(r) \/ Lose(r) PROVE disturbed' \in BOOLEAN
    BY <1>4 DEF Deliver, Lose, TypeOK
  <1>5. CASE UNCHANGED vars
    BY <1>5 DEF vars, otherVars, TypeOK
  <1> QED BY <1>1, <1>2, <1>3, <1>4, <1>5 DEF Next

-----------------------------------------------------------------------------
(* Types. *)

LEMMA ReqType ==
    ASSUME TypeOK, NEW r \in Requests,
           \A s \in Requests : s # r => req'[s] = req[s],
           req'[r] \in RequestState \cup {Idle},
           \E q : req' = [req EXCEPT ![r] = q]
    PROVE  req' \in [Requests -> RequestState \cup {Idle}]
  BY DEF TypeOK

LEMMA ProceedGoes == ASSUME NEW r \in Requests, Proceed(r) PROVE \E q : req' = [req EXCEPT ![r] = q]
  BY DEF Proceed, Goto, GetFails, CSRFMiddleware, AuthGuard, TokenForwarder, RefreshSucceeds, RefreshFails,
         RotateDelete, RotateSave, RotateSaveFails, APIProxy, DestroyExpired, Destroy, DestroyFails, Logout,
         Callback, CallbackFails

LEMMA TypeInit == Init => TypeOK
  <1> SUFFICES ASSUME Init PROVE TypeOK OBVIOUS
  <1>1. jar \in Jar
    BY Constants DEF Init, Jar
  <1>2. nTokens \in 0 .. MaxTokens /\ nLogins \in 0 .. MaxLogins
    BY BoundsAssumption DEF Init
  <1>3. excused \in BOOLEAN /\ disturbed \in BOOLEAN
    BY DEF Init
  <1>4. owner \in [Tokens -> Logins \cup {0}] /\ items \in [Tokens -> Session \cup {None}]
    BY DEF Init
  <1>5. store \in StoreKinds /\ ended \subseteq Logins /\ req \in [Requests -> RequestState \cup {Idle}]
    BY DEF Init
  <1> QED BY <1>1, <1>2, <1>3, <1>4, <1>5 DEF TypeOK

LEMMA TypeNext == ASSUME TypeOK, CurrentInv, [Next]_vars PROVE TypeOK'
  <1>0. disturbed' \in BOOLEAN
    BY DisturbedType
  <1>1. CASE Tick
    <2>1. req' \in [Requests -> RequestState \cup {Idle}]
      <3>1. \A r \in Requests : req'[r] \in RequestState \cup {Idle}
        BY <1>1, TickingRequests
      <3>2. req' = [r \in Requests |-> req'[r]]
        BY <1>1 DEF Tick
      <3> QED BY <3>1, <3>2
    <2>2. jar' \in Jar
      <3>1. /\ jar.session \in Tokens \cup {0} /\ jar.csrf \in Logins \cup {0}
            /\ jar.left \in 0 .. SessionTTL /\ jar.csrfLeft \in 0 .. SessionTTL
        BY DEF TypeOK, Jar
      <3>2. /\ (IF jar.left <= 1 THEN 0 ELSE jar.left - 1) \in 0 .. SessionTTL
            /\ (IF jar.csrfLeft <= 1 THEN 0 ELSE jar.csrfLeft - 1) \in 0 .. SessionTTL
        BY <3>1, Constants
      <3> QED BY <1>1, <3>1, <3>2 DEF Tick, Jar
    <2>3. /\ items' \in ItemsType /\ owner' = owner /\ store' = store
          /\ nTokens' = nTokens /\ nLogins' = nLogins /\ ended' = ended
      BY <1>1, TickingItems
    <2>4. excused' \in BOOLEAN
      BY <1>1 DEF Tick, TypeOK
    <2> QED BY <1>0, <2>1, <2>2, <2>3, <2>4 DEF TypeOK, ItemsType
  <1>2. CASE Restart
    <2>1. items' \in ItemsType
      BY <1>2, BoundsAssumption DEF Restart, TypeOK, ItemsType
    <2>2. excused' \in BOOLEAN /\ req' \in [Requests -> RequestState \cup {Idle}]
      BY <1>2 DEF Restart, TypeOK
    <2> QED BY <1>0, <1>2, <2>1, <2>2 DEF Restart, TypeOK, ItemsType
  <1>3. ASSUME NEW r \in Requests, NEW kind \in RequestKinds, Send(r, kind) PROVE TypeOK'
    <2>1. req' \in [Requests -> RequestState \cup {Idle}]
      BY <1>3, Sending DEF Send, TypeOK
    <2> QED BY <1>3, <2>1 DEF Send, TypeOK, storeVars, otherVars
  <1>4. ASSUME NEW r \in Requests, Proceed(r), ~RotateSave(r), ~Callback(r) PROVE TypeOK'
    <2>1. StoreShrinks(r) /\ RequestGoesOn(r) /\ StrandsNobody(r)
      BY <1>4, ProceedShrinks DEF Shrinks
    <2>2. req' \in [Requests -> RequestState \cup {Idle}]
      BY <1>4, <2>1, ProceedGoes, ReqType DEF RequestGoesOn
    <2>3. ended' \subseteq Logins
      <3>1. req[r].pc = "logout" => req[r].cur \in Logins
        BY AtWork DEF CurrentInv, RequestState
      <3> QED BY <2>1, <3>1 DEF StoreShrinks, TypeOK
    <2> QED BY <1>0, <2>1, <2>2, <2>3 DEF TypeOK, StoreShrinks, StrandsNobody, ItemsType
  <1>5. ASSUME NEW r \in Requests, RotateSave(r) \/ Callback(r) PROVE TypeOK'
    <2>1. PICK l : Saves(r, l)
      BY <1>5, RotateSaves, CallbackSaves
    <2>2. req' \in [Requests -> RequestState \cup {Idle}]
      BY <1>5, <2>1, ProceedGoes, ReqType DEF Saves, Proceed
    <2>3. nLogins' \in 0 .. MaxLogins
      BY <1>5, RotateSaves, CallbackSaves, Constants DEF TypeOK, Logins
    <2>4. nTokens' \in 0 .. MaxTokens
      BY <2>1, Constants DEF Saves, Tokens
    <2> QED BY <1>0, <2>1, <2>2, <2>3, <2>4 DEF TypeOK, Saves, ItemsType
  <1>6. ASSUME NEW r \in Requests, Deliver(r) PROVE TypeOK'
    <2>1. /\ jar' \in Jar /\ excused' \in BOOLEAN
          /\ UNCHANGED <<storeVars, store, nLogins, ended>>
      BY <1>6, Delivering
    <2>2. req' \in [Requests -> RequestState \cup {Idle}]
      BY <1>6 DEF Deliver, TypeOK
    <2> QED BY <1>0, <2>1, <2>2 DEF TypeOK, storeVars
  <1>7. ASSUME NEW r \in Requests, Lose(r) PROVE TypeOK'
    <2>1. req' \in [Requests -> RequestState \cup {Idle}] /\ excused' \in BOOLEAN
      BY <1>7 DEF Lose, TypeOK
    <2> QED BY <1>0, <1>7, <2>1 DEF Lose, TypeOK, storeVars
  <1>8. CASE UNCHANGED vars
    BY <1>8 DEF vars, storeVars, otherVars, TypeOK
  <1> QED BY <1>1, <1>2, <1>3, <1>4, <1>5, <1>6, <1>7, <1>8 DEF Next

-----------------------------------------------------------------------------
(* The parts of the inductive invariant. *)

LEMMA TokensNext == ASSUME TypeOK, CurrentInv, TokensInv, [Next]_vars PROVE TokensInv'
  <1>0. nTokens \in Nat /\ nLogins \in Nat /\ owner \in [Tokens -> Logins \cup {0}] /\ Tokens \subseteq Nat /\ Logins \subseteq Nat
    BY Constants DEF TypeOK
  <1>a. ASSUME owner' = owner, nTokens' = nTokens, nLogins' = nLogins,
               \A t \in Tokens : items[t] = None => items'[t] = None
        PROVE  TokensInv'
    BY <1>a DEF TokensInv
  <1>1. CASE Tick
    BY <1>1, <1>a, TickingItems
  <1>2. CASE Restart
    BY <1>2, <1>a DEF Restart
  <1>3. ASSUME NEW r \in Requests, NEW kind \in RequestKinds, Send(r, kind) PROVE TokensInv'
    BY <1>3, <1>a DEF Send, storeVars, otherVars
  <1>4. ASSUME NEW r \in Requests, Proceed(r), ~RotateSave(r), ~Callback(r) PROVE TokensInv'
    BY <1>4, <1>a, ProceedShrinks DEF Shrinks, StoreShrinks
  <1>5. ASSUME NEW r \in Requests, RotateSave(r) \/ Callback(r) PROVE TokensInv'
    <2>1. PICK l : Saves(r, l) /\ l # 0 /\ l <= nLogins' /\ nLogins' \in Nat /\ nLogins <= nLogins'
      <3>1. CASE RotateSave(r)
        <4>1. Saves(r, req[r].cur) /\ nLogins' = nLogins /\ req[r].pc = "save" /\ req[r].cur # 0
          BY <3>1, RotateSaves DEF CurrentInv
        <4>2. req[r].cur <= nLogins
          BY <1>0, <4>1 DEF CurrentInv
        <4> QED BY <1>0, <4>1, <4>2
      <3>2. CASE Callback(r)
        BY <1>0, <3>2, CallbackSaves, Constants
      <3> QED BY <1>5, <3>1, <3>2
    <2>2. ASSUME NEW t \in Tokens
          PROVE  IF t <= nTokens' THEN owner'[t] # 0 /\ owner'[t] <= nLogins'
                                  ELSE owner'[t] = 0 /\ items'[t] = None
      <3>1. CASE t = nTokens + 1
        BY <1>0, <2>1, <3>1 DEF Saves
      <3>2. CASE t # nTokens + 1
        <4>a. t \in Nat /\ owner[t] \in Nat
          <5>1. owner[t] \in Logins \cup {0}
            BY <1>0
          <5>2. \A n \in Logins \cup {0} : n \in Nat
            BY DEF Logins
          <5>3. t \in Nat
            BY DEF Tokens
          <5> QED BY <5>1, <5>2, <5>3
        <4>1. owner'[t] = owner[t] /\ items'[t] = items[t] /\ nTokens' = nTokens + 1 /\ t \in Nat /\ owner[t] \in Nat
          BY <2>1, <3>2, <4>a DEF Saves
        <4>2. t <= nTokens' <=> t <= nTokens
          BY <1>0, <3>2, <4>1
        <4> QED BY <1>0, <2>1, <4>1, <4>2 DEF TokensInv
      <3> QED BY <3>1, <3>2
    <2> QED BY <2>2 DEF TokensInv
  <1>6. ASSUME NEW r \in Requests, Deliver(r) PROVE TokensInv'
    BY <1>6, <1>a DEF Deliver, storeVars
  <1>7. ASSUME NEW r \in Requests, Lose(r) PROVE TokensInv'
    BY <1>7, <1>a DEF Lose, storeVars
  <1>8. CASE UNCHANGED vars
    BY <1>8, <1>a DEF vars, storeVars, otherVars
  <1> QED BY <1>1, <1>2, <1>3, <1>4, <1>5, <1>6, <1>7, <1>8 DEF Next

\* A token that loads was made for a login.
LEMMA LoadedOwner ==
    ASSUME TypeOK, TokensInv, NEW t, Loads(t)
    PROVE  t \in Tokens /\ t <= nTokens /\ owner[t] # 0 /\ owner[t] <= nLogins
  BY DEF Loads, TokensInv

CurrentOk(q, n) ==
    /\ q.pc \in {"refresh", "rotate", "save", "forward", "destroy", "logout"} => q.cur # 0 /\ q.cur <= n
    /\ q.pc = "create" => q.cur = 0

LEMMA CurrentNext == ASSUME TypeOK, TokensInv, CurrentInv, [Next]_vars PROVE CurrentInv'
  <1>0. /\ \A r \in Requests : CurrentOk(req[r], nLogins)
        /\ \A n : CurrentOk(Idle, n)
        /\ nLogins \in Nat
    BY IdleFacts DEF CurrentInv, CurrentOk, TypeOK
  <1>a. ASSUME \A r \in Requests : CurrentOk(req'[r], nLogins') PROVE CurrentInv'
    BY <1>a DEF CurrentInv, CurrentOk
  <1>1. CASE Tick
    BY <1>0, <1>1, <1>a, TickingRequests, TickingItems DEF CurrentOk
  <1>2. CASE Restart
    BY <1>0, <1>2, <1>a DEF Restart
  <1>3. ASSUME NEW r \in Requests, NEW kind \in RequestKinds, Send(r, kind) PROVE CurrentInv'
    <2>1. CurrentOk(req'[r], nLogins)
      BY <1>3, Sending DEF CurrentOk
    <2>2. nLogins' = nLogins
      BY <1>3 DEF Send, otherVars
    <2> QED BY <1>0, <1>3, <1>a, <2>1, <2>2, Sending
  <1>4. ASSUME NEW r \in Requests, Proceed(r), ~RotateSave(r), ~Callback(r) PROVE CurrentInv'
    <2>1. RequestGoesOn(r) /\ nLogins' = nLogins
      BY <1>4, ProceedShrinks DEF Shrinks, StoreShrinks
    <2>2. CurrentOk(req'[r], nLogins)
      <3>1. Loads(req[r].cookie) => owner[req[r].cookie] # 0 /\ owner[req[r].cookie] <= nLogins
        BY LoadedOwner
      <3> QED BY <1>0, <2>1, <3>1 DEF RequestGoesOn, Working, CurrentOk
    <2> QED BY <1>0, <1>a, <2>1, <2>2 DEF RequestGoesOn
  <1>5. ASSUME NEW r \in Requests, RotateSave(r) PROVE CurrentInv'
    <2>1. /\ nLogins' = nLogins /\ req[r].pc = "save" /\ req'[r].pc = "forward" /\ req'[r].cur = req[r].cur
          /\ \A s \in Requests : s # r => req'[s] = req[s]
      BY <1>5, RotateSaves DEF Saves
    <2>2. CurrentOk(req'[r], nLogins)
      BY <1>0, <2>1 DEF CurrentOk
    <2> QED BY <1>0, <1>a, <2>1, <2>2
  <1>6. ASSUME NEW r \in Requests, Callback(r) PROVE CurrentInv'
    <2>1. /\ nLogins' = nLogins + 1 /\ req'[r].pc = "answer"
          /\ \A s \in Requests : s # r => req'[s] = req[s]
      BY <1>6, CallbackSaves DEF Saves
    <2>2. ASSUME NEW s \in Requests, s # r PROVE CurrentOk(req'[s], nLogins')
      <3>1. req'[s] = req[s] /\ CurrentOk(req[s], nLogins)
        BY <1>0, <2>1, <2>2
      <3>2. CASE req[s] = Idle
        BY <1>0, <3>1, <3>2
      <3>3. CASE req[s] \in RequestState
        <4>1. req[s].cur \in Logins \cup {0}
          BY <3>3 DEF RequestState
        <4>2. req[s].cur \in Nat
          BY <4>1 DEF Logins
        <4> QED BY <1>0, <2>1, <3>1, <4>2 DEF CurrentOk
      <3> QED BY <3>2, <3>3 DEF TypeOK
    <2> QED BY <1>a, <2>1, <2>2 DEF CurrentOk
  <1>7. ASSUME NEW r \in Requests, Deliver(r) \/ Lose(r) PROVE CurrentInv'
    <2>1. /\ \A s \in Requests : req'[s] \in {req[s], Idle}
          /\ nLogins' = nLogins
      BY <1>7 DEF Deliver, Lose, TypeOK
    <2> QED BY <1>0, <1>a, <2>1
  <1>8. CASE UNCHANGED vars
    BY <1>8, <1>0, <1>a DEF vars, otherVars
  <1> QED BY <1>1, <1>2, <1>3, <1>4, <1>5, <1>6, <1>7, <1>8 DEF Next

CheckedOk(q, own) ==
    /\ q.pc = "load" /\ q.csrf # 0 => q.cookie \in Tokens /\ own[q.cookie] = q.csrf
    /\ q.pc \in Working /\ q.csrf # 0 => q.cur = q.csrf

LEMMA CheckedNext == ASSUME TypeOK, TokensInv, CheckedInv, [Next]_vars PROVE CheckedInv'
  <1>0. /\ \A r \in Requests : CheckedOk(req[r], owner)
        /\ \A own : CheckedOk(Idle, own)
    BY IdleFacts DEF CheckedInv, CheckedOk, Working
  <1>a. ASSUME \A r \in Requests : CheckedOk(req'[r], owner') PROVE CheckedInv'
    BY <1>a DEF CheckedInv, CheckedOk, Working
  <1>1. CASE Tick
    BY <1>0, <1>1, <1>a, TickingRequests, TickingItems DEF CheckedOk
  <1>2. CASE Restart
    BY <1>0, <1>2, <1>a DEF Restart
  <1>3. ASSUME NEW r \in Requests, NEW kind \in RequestKinds, Send(r, kind) PROVE CheckedInv'
    <2>1. CheckedOk(req'[r], owner)
      BY <1>3, Sending DEF CheckedOk, Working
    <2>2. owner' = owner
      BY <1>3 DEF Send, storeVars
    <2> QED BY <1>0, <1>3, <1>a, <2>1, <2>2, Sending
  <1>4. ASSUME NEW r \in Requests, Proceed(r), ~RotateSave(r), ~Callback(r) PROVE CheckedInv'
    <2>1. RequestGoesOn(r) /\ owner' = owner
      BY <1>4, ProceedShrinks DEF Shrinks, StoreShrinks
    <2>2. CheckedOk(req'[r], owner)
      <3>1. Loads(req[r].cookie) => req[r].cookie \in Tokens
        BY DEF Loads
      <3>2. CASE req'[r] = Idle
        BY <1>0, <3>2
      <3>3. CASE req'[r].pc = "load" /\ req'[r] # Idle
        BY <2>1, <3>1, <3>3 DEF RequestGoesOn, CheckedOk, Working
      <3>4. CASE req'[r].pc \in Working /\ req'[r] # Idle
        <4>1. CheckedOk(req[r], owner)
          BY <1>0
        <4> QED BY <2>1, <3>4, <4>1 DEF RequestGoesOn, CheckedOk, Working
      <3> QED BY <3>2, <3>3, <3>4 DEF CheckedOk
    <2> QED BY <1>0, <1>a, <2>1, <2>2 DEF RequestGoesOn
  <1>5. ASSUME NEW r \in Requests, RotateSave(r) \/ Callback(r) PROVE CheckedInv'
    <2>1. PICK l : Saves(r, l)
      BY <1>5, RotateSaves, CallbackSaves
    <2>2. CheckedOk(req'[r], owner')
      <3>1. CheckedOk(req[r], owner)
        BY <1>0
      <3>2. CASE RotateSave(r)
        BY <3>1, <3>2, RotateSaves DEF CheckedOk, Working
      <3>3. CASE Callback(r)
        BY <3>3, CallbackSaves DEF CheckedOk, Working
      <3> QED BY <1>5, <3>2, <3>3
    <2>3. ASSUME NEW s \in Requests, s # r PROVE CheckedOk(req'[s], owner')
      <3>1. req'[s] = req[s] /\ CheckedOk(req[s], owner)
        BY <1>0, <2>1, <2>3 DEF Saves
      <3>2. owner[nTokens + 1] = 0 /\ nTokens + 1 \in Tokens
        <4>1. nTokens \in Nat /\ nTokens + 1 \in Tokens
          BY <2>1 DEF Saves, TypeOK
        <4>2. ~(nTokens + 1 <= nTokens)
          BY <4>1
        <4> QED BY <4>1, <4>2 DEF TokensInv
      <3>3. \A t \in Tokens : owner[t] # 0 => owner'[t] = owner[t]
        BY <2>1, <3>2 DEF Saves
      <3> QED BY <3>1, <3>3 DEF CheckedOk
    <2> QED BY <1>a, <2>2, <2>3
  <1>6. ASSUME NEW r \in Requests, Deliver(r) \/ Lose(r) PROVE CheckedInv'
    <2>1. /\ \A s \in Requests : req'[s] \in {req[s], Idle}
          /\ owner' = owner
      BY <1>6 DEF Deliver, Lose, TypeOK, storeVars
    <2> QED BY <1>0, <1>a, <2>1
  <1>7. CASE UNCHANGED vars
    BY <1>7, <1>0, <1>a DEF vars, storeVars
  <1> QED BY <1>1, <1>2, <1>3, <1>4, <1>5, <1>6, <1>7 DEF Next

LEMMA Numbers ==
    ASSUME TypeOK
    PROVE  /\ nTokens \in Nat /\ jar.session \in Nat
           /\ \A r \in Requests : req[r] # Idle =>
                /\ req[r].cookie \in Nat /\ req[r].set \in Int
                /\ req[r].set > 0 => req[r].set \in Tokens
  <1>1. nTokens \in Nat
    BY DEF TypeOK
  <1>2. jar.session \in Tokens \cup {0}
    BY DEF TypeOK, Jar
  <1>3. ASSUME NEW r \in Requests, req[r] # Idle
        PROVE  req[r].cookie \in Tokens \cup {0} /\ req[r].set \in Tokens \cup {Keep, Clear}
    BY <1>3 DEF TypeOK, RequestState
  <1>4. \A n \in Tokens \cup {0} : n \in Nat
    BY DEF Tokens
  <1>5. \A n \in Tokens \cup {Keep, Clear} : n \in Int /\ (n > 0 => n \in Tokens)
    BY DEF Tokens, Keep, Clear
  <1> QED BY <1>1, <1>2, <1>3, <1>4, <1>5

LEMMA OnItsWayFacts ==
    ASSUME TypeOK, TokensInv, OnItsWayInv, NEW r \in Requests, req[r] # Idle, req[r].set > 0
    PROVE  /\ req[r].set \in Tokens /\ req[r].set \in Nat /\ req[r].set <= nTokens /\ items[req[r].set] # None
           /\ jar.session # req[r].set
           /\ \A s \in Requests : req[s] # Idle => req[s].cookie # req[r].set /\ (s # r => req[s].set # req[r].set)
  <1>1. req[r].set \in Tokens /\ req[r].set \in Nat
    BY Numbers
  <1> QED BY <1>1 DEF OnItsWayInv, TokensInv

\* A step that makes no new token, and lets go of none that is on its way.
OldRequest(s) ==
    req[s] # Idle /\ req'[s].cookie = req[s].cookie /\ req'[s].set \in {req[s].set, Keep, Clear}
NewRequest(s) == req'[s].cookie \in {jar.session, 0} /\ req'[s].set = Keep

LEMMA OnItsWayStays ==
    ASSUME TypeOK, TokensInv, OnItsWayInv, nTokens' = nTokens, jar'.session \in {jar.session, 0},
           \A s \in Requests : req'[s] = Idle \/ OldRequest(s) \/ NewRequest(s),
           \A s \in Requests : req[s] # Idle /\ req[s].set > 0 /\ req'[s] # Idle => items'[req[s].set] # None
    PROVE  OnItsWayInv'
  <1>0. ~(Keep > 0) /\ ~(Clear > 0) /\ jar.session \in Nat /\ nTokens \in Nat
    BY Numbers DEF Keep, Clear
  <1>1. jar'.session <= nTokens'
    BY <1>0 DEF OnItsWayInv
  <1>2. ASSUME NEW r \in Requests, req'[r] # Idle PROVE req'[r].cookie <= nTokens'
    BY <1>0, <1>2 DEF OnItsWayInv, OldRequest, NewRequest
  <1>3. ASSUME NEW r \in Requests, req'[r] # Idle, req'[r].set > 0
        PROVE  /\ items'[req'[r].set] # None
               /\ jar'.session # req'[r].set
               /\ \A s \in Requests : req'[s] # Idle =>
                    req'[s].cookie # req'[r].set /\ (s # r => req'[s].set # req'[r].set)
    <2>1. req[r] # Idle /\ req'[r].set = req[r].set
      BY <1>0, <1>3 DEF OldRequest, NewRequest
    <2>2. /\ req[r].set \in Nat /\ jar.session # req[r].set
          /\ \A s \in Requests : req[s] # Idle => req[s].cookie # req[r].set /\ (s # r => req[s].set # req[r].set)
      BY <1>3, <2>1, OnItsWayFacts
    <2>3. items'[req'[r].set] # None
      BY <1>3, <2>1
    <2>4. jar'.session # req'[r].set
      BY <1>3, <2>1, <2>2
    <2>5. ASSUME NEW s \in Requests, req'[s] # Idle
          PROVE  req'[s].cookie # req'[r].set /\ (s # r => req'[s].set # req'[r].set)
      <3>1. Keep # req[r].set /\ Clear # req[r].set /\ 0 # req[r].set
        BY <1>3, <2>1, <2>2 DEF Keep, Clear
      <3>2. CASE OldRequest(s)
        BY <2>1, <2>2, <3>1, <3>2 DEF OldRequest
      <3>3. CASE NewRequest(s)
        BY <2>1, <2>2, <3>1, <3>3 DEF NewRequest
      <3> QED BY <2>5, <3>2, <3>3
    <2> QED BY <2>3, <2>4, <2>5
  <1> QED BY <1>1, <1>2, <1>3 DEF OnItsWayInv

LEMMA OnItsWayNext == ASSUME TypeOK, TokensInv, OnItsWayInv, [Next]_vars PROVE OnItsWayInv'
  <1>0. \A s \in Requests : req[s] # Idle /\ req[s].set > 0 => items[req[s].set] # None /\ req[s].set \in Tokens
    BY OnItsWayFacts
  <1>1. CASE Tick
    <2>1. nTokens' = nTokens /\ \A t \in Tokens : items'[t] = None <=> items[t] = None
      BY <1>1, TickingItems
    <2>2. jar'.session \in {jar.session, 0}
      BY <1>1 DEF Tick
    <2>3. \A s \in Requests : req'[s] = Idle \/ OldRequest(s)
      BY <1>1, TickingRequests DEF OldRequest
    <2> QED BY <1>0, <2>1, <2>2, <2>3, OnItsWayStays
  <1>2. CASE Restart
    <2>1. nTokens' = nTokens /\ jar' = jar /\ \A s \in Requests : req'[s] = Idle
      BY <1>2 DEF Restart
    <2> QED BY <2>1, OnItsWayStays
  <1>3. ASSUME NEW r \in Requests, NEW kind \in RequestKinds, Send(r, kind) PROVE OnItsWayInv'
    <2>1. nTokens' = nTokens /\ jar' = jar /\ items' = items
      BY <1>3 DEF Send, storeVars, otherVars
    <2>2. NewRequest(r) /\ \A s \in Requests : s # r => req'[s] = req[s]
      BY <1>3, Sending DEF NewRequest
    <2>3. \A s \in Requests : req'[s] = Idle \/ OldRequest(s) \/ NewRequest(s)
      BY <2>2 DEF OldRequest
    <2> QED BY <1>0, <2>1, <2>3, OnItsWayStays
  <1>4. ASSUME NEW r \in Requests, Proceed(r), ~RotateSave(r), ~Callback(r) PROVE OnItsWayInv'
    <2>1. StoreShrinks(r) /\ RequestGoesOn(r)
      BY <1>4, ProceedShrinks DEF Shrinks
    <2>2. req[r] # Idle
      BY <1>4, IdleFacts DEF Proceed, GetFails, CSRFMiddleware, AuthGuard, TokenForwarder, RefreshSucceeds, RefreshFails,
         RotateDelete, RotateSave, RotateSaveFails, APIProxy, DestroyExpired, Logout, Callback, CallbackFails
    <2>3. nTokens' = nTokens /\ jar' = jar
      BY <2>1 DEF StoreShrinks
    <2>4. \A s \in Requests : req'[s] = Idle \/ OldRequest(s)
      BY <2>1, <2>2 DEF RequestGoesOn, OldRequest
    <2>5. ASSUME NEW s \in Requests, req[s] # Idle, req[s].set > 0 PROVE items'[req[s].set] # None
      <3>1. req[r].cookie # req[s].set /\ items[req[s].set] # None /\ req[s].set \in Tokens
        BY <2>2, <2>5, OnItsWayFacts
      <3> QED BY <2>1, <3>1 DEF StoreShrinks
    <2> QED BY <2>3, <2>4, <2>5, OnItsWayStays
  <1>5. ASSUME NEW r \in Requests, RotateSave(r) \/ Callback(r) PROVE OnItsWayInv'
    <2> DEFINE n == nTokens + 1
    <2>1. PICK l : Saves(r, l)
      BY <1>5, RotateSaves, CallbackSaves
    <2>2. /\ n \in Tokens /\ nTokens' = n /\ items'[n] # None /\ jar' = jar /\ req[r] # Idle /\ req'[r] # Idle
          /\ req'[r].cookie = req[r].cookie /\ req'[r].set = n
          /\ \A s \in Requests : s # r => req'[s] = req[s]
          /\ \A t \in Tokens : t # n => items'[t] = items[t]
      BY <2>1, IdleFacts, NoneAssumption DEF Saves
    <2>3. nTokens \in Nat /\ nTokens < n /\ n \in Nat
      BY Numbers
    <2> HIDE DEF n
    <2>4. /\ jar.session <= nTokens /\ jar.session \in Nat
          /\ \A s \in Requests : req[s] # Idle => req[s].cookie <= nTokens /\ req[s].cookie \in Nat /\ req[s].set \in Int
      BY Numbers DEF OnItsWayInv
    <2>5. jar'.session <= nTokens'
      BY <2>2, <2>3, <2>4
    <2>6. \A s \in Requests : req'[s] # Idle =>
            req[s] # Idle /\ req'[s].cookie = req[s].cookie /\ req'[s].cookie <= nTokens /\ req'[s].cookie \in Nat
      BY <2>2, <2>4
    <2>7. ASSUME NEW s \in Requests, req'[s] # Idle, req'[s].set > 0
          PROVE  /\ items'[req'[s].set] # None
                 /\ jar'.session # req'[s].set
                 /\ \A u \in Requests : req'[u] # Idle =>
                      req'[u].cookie # req'[s].set /\ (u # s => req'[u].set # req'[s].set)
      <3>1. CASE s = r
        <4>1. jar'.session # n
          BY <2>2, <2>3, <2>4
        <4>2. \A u \in Requests : req'[u] # Idle => req'[u].cookie # n
          BY <2>3, <2>6
        <4>3. ASSUME NEW u \in Requests, u # r, req'[u] # Idle PROVE req'[u].set # n
          <5>1. req'[u] = req[u] /\ req[u] # Idle
            BY <2>2, <4>3
          <5>2. req[u].set > 0 => req[u].set <= nTokens /\ req[u].set \in Nat
            BY <5>1, OnItsWayFacts
          <5> QED BY <2>3, <5>1, <5>2
        <4> QED BY <2>2, <3>1, <4>1, <4>2, <4>3
      <3>2. CASE s # r
        <4>1. req'[s] = req[s] /\ req[s] # Idle
          BY <2>2, <2>7, <3>2
        <4>2. /\ req[s].set \in Tokens /\ req[s].set <= nTokens /\ req[s].set \in Nat /\ items[req[s].set] # None
              /\ jar.session # req[s].set
              /\ \A u \in Requests : req[u] # Idle => req[u].cookie # req[s].set /\ (u # s => req[u].set # req[s].set)
          BY <2>7, <4>1, OnItsWayFacts
        <4>3. req[s].set # n
          BY <2>3, <4>2
        <4>4. items'[req'[s].set] # None /\ jar'.session # req'[s].set
          BY <2>2, <4>1, <4>2, <4>3
        <4>5. ASSUME NEW u \in Requests, req'[u] # Idle
              PROVE  req'[u].cookie # req'[s].set /\ (u # s => req'[u].set # req'[s].set)
          <5>1. req[u] # Idle /\ req'[u].cookie = req[u].cookie
            BY <2>6, <4>5
          <5>2. u # r => req'[u] = req[u]
            BY <2>2
          <5> QED BY <2>2, <4>1, <4>2, <4>3, <5>1, <5>2
        <4> QED BY <4>4, <4>5
      <3> QED BY <3>1, <3>2
    <2>8. \A s \in Requests : req'[s] # Idle => req'[s].cookie <= nTokens'
      BY <2>2, <2>3, <2>6
    <2> QED BY <2>5, <2>7, <2>8 DEF OnItsWayInv
  <1>6. ASSUME NEW r \in Requests, Deliver(r) PROVE OnItsWayInv'
    <2>1. /\ req[r] # Idle /\ req'[r] = Idle /\ \A s \in Requests : s # r => req'[s] = req[s]
          /\ jar'.session = IF req[r].set = Keep THEN jar.session ELSE req[r].set
          /\ nTokens' = nTokens /\ items' = items
      BY <1>6, Delivering, IdleFacts DEF storeVars
    <2>2. CASE req[r].set > 0
      <3>1. /\ req[r].set <= nTokens /\ req[r].set \in Nat
            /\ \A s \in Requests : req[s] # Idle => req[s].cookie # req[r].set /\ (s # r => req[s].set # req[r].set)
        BY <2>1, <2>2, OnItsWayFacts
      <3>2. jar'.session = req[r].set
        BY <2>1, <2>2 DEF Keep
      <3>3. jar'.session <= nTokens'
        BY <2>1, <3>1, <3>2
      <3>4. \A s \in Requests : req'[s] # Idle => s # r /\ req'[s] = req[s]
        BY <2>1
      <3> QED BY <2>1, <3>1, <3>2, <3>3, <3>4 DEF OnItsWayInv
    <2>3. CASE ~(req[r].set > 0)
      <3>1. req[r].set \in Tokens \cup {Keep, Clear}
        BY <2>1 DEF TypeOK, RequestState
      <3>2. req[r].set \in {Keep, 0}
        BY <2>3, <3>1 DEF Tokens, Clear
      <3>3. jar'.session \in {jar.session, 0}
        BY <2>1, <3>2
      <3>4. \A s \in Requests : req'[s] = Idle \/ OldRequest(s)
        BY <2>1 DEF OldRequest
      <3> QED BY <1>0, <2>1, <3>3, <3>4, OnItsWayStays
    <2> QED BY <2>2, <2>3
  <1>7. ASSUME NEW r \in Requests, Lose(r) PROVE OnItsWayInv'
    <2>1. nTokens' = nTokens /\ items' = items /\ jar' = jar /\ \A s \in Requests : req'[s] \in {req[s], Idle}
      BY <1>7 DEF Lose, storeVars, TypeOK
    <2>2. \A s \in Requests : req'[s] = Idle \/ OldRequest(s)
      BY <2>1 DEF OldRequest
    <2> QED BY <1>0, <2>1, <2>2, OnItsWayStays
  <1>8. CASE UNCHANGED vars
    <2>1. nTokens' = nTokens /\ items' = items /\ jar' = jar /\ req' = req
      BY <1>8 DEF vars, storeVars, otherVars
    <2> QED BY <2>1 DEF OnItsWayInv
  <1> QED BY <1>1, <1>2, <1>3, <1>4, <1>5, <1>6, <1>7, <1>8 DEF Next

\* A request that is replacing the browser's cookie, whose session it takes along.
LEMMA NotStrandedNext ==
    ASSUME TypeOK, TokensInv, OnItsWayInv, CookieNotStranded, [Next]_vars PROVE CookieNotStranded'
  <1> SUFFICES ASSUME jar'.session # 0, items'[jar'.session] = None, ~excused'
               PROVE  \E s \in Requests : Replacing(req'[s]) /\ req'[s].cookie = jar'.session
    BY DEF CookieNotStranded, ReplacingCookie
  <1>0. /\ jar.session \in Tokens \cup {0} /\ ~Replacing(Idle) /\ excused \in BOOLEAN /\ excused' \in BOOLEAN
        /\ jar.session \in Nat /\ nTokens \in Nat /\ jar.session <= nTokens
    <2>1. excused' \in BOOLEAN
      BY ONLY TypeOK, [Next]_vars, ProceedShrinks, RotateSaves, CallbackSaves
         DEF Next, vars, otherVars, Tick, Restart, Send, Deliver, Lose, TypeOK, Shrinks, StrandsNobody, Saves
    <2> QED BY <2>1, Numbers, IdleFacts DEF TypeOK, Jar, Replacing, OnItsWayInv
  <1>a. ASSUME jar'.session = jar.session, items[jar.session] = None, ~excused
        PROVE  \E s \in Requests : Replacing(req[s]) /\ req[s].cookie = jar.session
    BY <1>a DEF CookieNotStranded, ReplacingCookie
  <1>1. CASE Tick
    <2>1. jar'.session = jar.session /\ excused' = excused
      <3>1. jar'.session = IF jar.left <= 1 THEN 0 ELSE jar.session
        BY <1>1 DEF Tick
      <3>2. ~(jar.left <= 1) /\ jar'.session = jar.session
        BY <3>1
      <3>3. jar.left \in Int
        BY DEF TypeOK, Jar
      <3>4. excused' = (excused /\ jar.left > 1)
        BY <1>1 DEF Tick
      <3> QED BY <1>0, <3>2, <3>3, <3>4
    <2>2. items[jar.session] = None
      BY <1>0, <1>1, <2>1, TickingItems
    <2>3. PICK s \in Requests : Replacing(req[s]) /\ req[s].cookie = jar.session
      BY <1>a, <2>1, <2>2
    <2>4. req[s] # Idle
      BY <1>0, <2>3
    <2>5. Replacing(req'[s]) /\ req'[s].cookie = jar'.session
      BY <1>1, <2>1, <2>3, <2>4, TickingRequests DEF Replacing
    <2> QED BY <2>5
  <1>2. CASE Restart
    <2>1. /\ ~excused /\ ~(store = "memory" /\ jar.session # 0) /\ jar' = jar
          /\ ~(\E s \in Requests : Replacing(req[s]) /\ req[s].cookie = jar.session)
      BY <1>2 DEF Restart, ReplacingCookie
    <2>2. items' = items
      BY <1>2, <2>1 DEF Restart
    <2> QED BY <1>a, <2>1, <2>2
  <1>3. ASSUME NEW r \in Requests, NEW kind \in RequestKinds, Send(r, kind)
        PROVE  \E s \in Requests : Replacing(req'[s]) /\ req'[s].cookie = jar'.session
    <2>1. jar' = jar /\ items' = items /\ excused' = excused
      BY <1>3 DEF Send, storeVars, otherVars
    <2>2. req[r] = Idle /\ \A s \in Requests : s # r => req'[s] = req[s]
      BY <1>3, Sending
    <2> QED BY <1>0, <1>a, <2>1, <2>2
  <1>4. ASSUME NEW r \in Requests, Proceed(r), ~RotateSave(r), ~Callback(r)
        PROVE  \E s \in Requests : Replacing(req'[s]) /\ req'[s].cookie = jar'.session
    <2>1. StoreShrinks(r) /\ RequestGoesOn(r) /\ StrandsNobody(r)
      BY <1>4, ProceedShrinks DEF Shrinks
    <2>2. jar' = jar /\ ~excused /\ \A s \in Requests : s # r => req'[s] = req[s]
      BY <2>1 DEF StoreShrinks, StrandsNobody, RequestGoesOn
    <2>3. CASE items[jar.session] = None
      <3>1. PICK s \in Requests : Replacing(req[s]) /\ req[s].cookie = jar.session
        BY <1>a, <2>2, <2>3
      <3>2. s = r => Replacing(req'[r]) /\ req'[r].cookie = req[r].cookie
        BY <2>1, <3>1 DEF StrandsNobody
      <3> QED BY <2>2, <3>1, <3>2
    <2>4. CASE items[jar.session] # None
      <3>1. jar.session \in Tokens /\ items'[jar.session] = None
        BY <1>0, <2>2
      <3>2. req[r].cookie = jar.session /\ items' # items
        BY <2>1, <2>4, <3>1 DEF StoreShrinks
      <3>3. Replacing(req'[r]) /\ req'[r].cookie = req[r].cookie
        BY <2>1, <3>2 DEF StrandsNobody
      <3> QED BY <2>2, <3>2, <3>3
    <2> QED BY <2>3, <2>4
  <1>5. ASSUME NEW r \in Requests, RotateSave(r) \/ Callback(r)
        PROVE  \E s \in Requests : Replacing(req'[s]) /\ req'[s].cookie = jar'.session
    <2>1. PICK l : Saves(r, l)
      BY <1>5, RotateSaves, CallbackSaves
    <2>2. jar' = jar /\ excused' = excused /\ \A s \in Requests : s # r => req'[s] = req[s]
      BY <2>1 DEF Saves
    <2>3. items[jar.session] = None
      <3>1. jar.session \in Tokens /\ jar.session # nTokens + 1
        BY <1>0, <2>2
      <3> QED BY <2>1, <2>2, <3>1 DEF Saves
    <2>4. PICK s \in Requests : Replacing(req[s]) /\ req[s].cookie = jar.session
      BY <1>a, <2>2, <2>3
    <2>5. s = r => Replacing(req'[r]) /\ req'[r].cookie = req[r].cookie
      <3>1. req'[r].pc # "idle" /\ req'[r].set = nTokens + 1 /\ req'[r].cookie = req[r].cookie
        BY <2>1, IdleFacts DEF Saves
      <3>2. nTokens + 1 # Keep
        BY <1>0 DEF Keep
      <3> QED BY <2>4, <3>1, <3>2 DEF Replacing
    <2> QED BY <2>2, <2>4, <2>5
  <1>6. ASSUME NEW r \in Requests, Deliver(r)
        PROVE  \E s \in Requests : Replacing(req'[s]) /\ req'[s].cookie = jar'.session
    <2>1. /\ req[r] # Idle /\ req[r].pc = "answer" /\ \A s \in Requests : s # r => req'[s] = req[s]
          /\ jar'.session = IF req[r].set = Keep THEN jar.session ELSE req[r].set
          /\ excused' = (excused /\ req[r].set = Keep) /\ items' = items
          /\ req[r].set \in Tokens \cup {Keep, Clear}
      BY <1>6, Delivering, IdleFacts DEF storeVars, RequestState
    <2>2. req[r].set = Keep
      <3>1. SUFFICES ASSUME req[r].set # Keep PROVE FALSE
        OBVIOUS
      <3>2. req[r].set \in Tokens /\ jar'.session = req[r].set
        BY <2>1, <3>1 DEF Clear
      <3>3. req[r].set > 0
        BY <3>2 DEF Tokens
      <3>4. items[req[r].set] # None
        BY <2>1, <3>3, OnItsWayFacts
      <3> QED BY <2>1, <3>2, <3>4
    <2>3. PICK s \in Requests : Replacing(req[s]) /\ req[s].cookie = jar.session
      BY <1>0, <1>a, <2>1, <2>2
    <2>4. s # r
      BY <2>1, <2>2, <2>3 DEF Replacing
    <2> QED BY <2>1, <2>2, <2>3, <2>4
  <1>7. ASSUME NEW r \in Requests, Lose(r)
        PROVE  \E s \in Requests : Replacing(req'[s]) /\ req'[s].cookie = jar'.session
    <2>1. items' = items /\ jar' = jar /\ ~excused /\ ~(Replacing(req[r]) /\ req[r].cookie = jar.session)
      BY <1>7 DEF Lose, storeVars, ReplacingCookie
    <2>2. \A s \in Requests : s # r => req'[s] = req[s]
      BY <1>7 DEF Lose, TypeOK
    <2> QED BY <1>a, <2>1, <2>2
  <1>8. CASE UNCHANGED vars
    <2>1. items' = items /\ jar' = jar /\ req' = req /\ excused' = excused
      BY <1>8 DEF vars, storeVars, otherVars
    <2> QED BY <1>a, <2>1
  <1> QED BY <1>1, <1>2, <1>3, <1>4, <1>5, <1>6, <1>7, <1>8 DEF Next

LEMMA DisturbedNext == ASSUME TypeOK, DisturbedInv, [Next]_vars PROVE DisturbedInv'
  <1>1. CASE Tick
    <2>1. /\ excused' = (excused /\ jar.left > 1) /\ disturbed' = (disturbed \/ jar.left <= 1)
          /\ jar'.session = IF jar.left <= 1 THEN 0 ELSE jar.session
      BY <1>1 DEF Tick
    <2>2. \A r \in Requests : Clearing(req'[r]) => Clearing(req[r])
      BY <1>1, TickingRequests, IdleDoesNotClear, IdleFacts DEF Clearing
    <2> QED BY <2>1, <2>2 DEF DisturbedInv, Clearing
  <1>2. CASE Restart
    <2>1. \A r \in Requests : ~Clearing(req'[r])
      BY <1>2, IdleDoesNotClear DEF Restart
    <2>2. disturbed' = (disturbed \/ excused') /\ jar' = jar
      BY <1>2 DEF Restart
    <2> QED BY <2>1, <2>2 DEF DisturbedInv, Clearing
  <1>3. ASSUME NEW r \in Requests, NEW kind \in RequestKinds, Send(r, kind) PROVE DisturbedInv'
    <2>1. UNCHANGED <<excused, disturbed, jar>> /\ \A s \in Requests : s # r => req'[s] = req[s]
      BY <1>3, Sending DEF otherVars
    <2>2. ~Clearing(req'[r])
      BY <1>3, Sending DEF Clearing, Keep, Clear
    <2> QED BY <2>1, <2>2 DEF DisturbedInv, Clearing
  <1>4. ASSUME NEW r \in Requests, Proceed(r) PROVE DisturbedInv'
    <2>1. Notes(r)
      BY <1>4, ProceedNotes
    <2>2. jar' = jar /\ \A s \in Requests : s # r => req'[s] = req[s]
      <3>1. CASE RotateSave(r) \/ Callback(r)
        BY <3>1, RotateSaves, CallbackSaves DEF Saves
      <3>2. CASE ~RotateSave(r) /\ ~Callback(r)
        BY <1>4, <3>2, ProceedShrinks DEF Shrinks, StoreShrinks, RequestGoesOn
      <3> QED BY <3>1, <3>2
    <2> QED BY <2>1, <2>2 DEF Notes, DisturbedInv, Clearing
  <1>5. ASSUME NEW r \in Requests, Deliver(r) PROVE DisturbedInv'
    <2>1. /\ req[r].pc = "answer" /\ req[r].set \in Tokens \cup {Keep, Clear}
          /\ ~Clearing(req'[r]) /\ \A s \in Requests : s # r => req'[s] = req[s]
          /\ jar'.session = IF req[r].set = Keep THEN jar.session ELSE req[r].set
          /\ excused' = (excused /\ req[r].set = Keep)
      BY <1>5, Delivering, IdleDoesNotClear DEF RequestState
    <2>2. disturbed' = IF req[r].set > 0 THEN \E s \in Requests \ {r} : Clearing(req[s]) ELSE disturbed
      BY <1>5 DEF Deliver
    <2>3. CASE req[r].set \in Tokens
      <3>1. req[r].set > 0 /\ req[r].set # Keep /\ req[r].set # 0
        BY <2>3 DEF Tokens, Keep
      <3>2. ~excused' /\ jar'.session # 0
        BY <2>1, <3>1
      <3>3. ASSUME NEW s \in Requests, Clearing(req'[s]) PROVE disturbed'
        BY <2>1, <2>2, <3>1, <3>3, Zenon
      <3> QED BY <3>2, <3>3 DEF DisturbedInv, Clearing
    <2>4. CASE req[r].set = Keep
      <3>1. disturbed' = disturbed /\ excused' = excused /\ jar'.session = jar.session
        BY <2>1, <2>2, <2>4 DEF Keep, TypeOK
      <3> QED BY <2>1, <3>1 DEF DisturbedInv, Clearing
    <2>5. CASE req[r].set = Clear
      <3>1. disturbed' = disturbed
        BY <2>2, <2>5 DEF Clear
      <3>2. disturbed
        BY <2>1, <2>5 DEF DisturbedInv, Clearing
      <3> QED BY <3>1, <3>2 DEF DisturbedInv
    <2> QED BY <2>1, <2>3, <2>4, <2>5
  <1>6. ASSUME NEW r \in Requests, Lose(r) PROVE DisturbedInv'
    <2>1. disturbed' = (disturbed \/ excused') /\ jar' = jar
      BY <1>6 DEF Lose
    <2>2. ~Clearing(req'[r]) /\ \A s \in Requests : s # r => req'[s] = req[s]
      BY <1>6, IdleDoesNotClear DEF Lose, TypeOK
    <2> QED BY <2>1, <2>2 DEF DisturbedInv, Clearing
  <1>7. CASE UNCHANGED vars
    BY <1>7 DEF vars, otherVars, DisturbedInv, Clearing
  <1> QED BY <1>1, <1>2, <1>3, <1>4, <1>5, <1>6, <1>7 DEF Next

-----------------------------------------------------------------------------
(* The inductive invariant and what follows from it. *)

IInv ==
    TypeOK /\ TokensInv /\ CurrentInv /\ CheckedInv /\ OnItsWayInv /\ CookieNotStranded /\ DisturbedInv

LEMMA IInvInit == Init => IInv
  <1> SUFFICES ASSUME Init PROVE IInv OBVIOUS
  <1>1. TypeOK
    BY TypeInit
  <1>2. TokensInv
    BY Constants DEF Init, TokensInv, Tokens
  <1>3. CurrentInv /\ CheckedInv
    BY IdleFacts DEF Init, CurrentInv, CheckedInv
  <1>4. OnItsWayInv
    BY DEF Init, OnItsWayInv
  <1>5. CookieNotStranded
    BY DEF Init, CookieNotStranded
  <1>6. DisturbedInv
    BY DEF Init, DisturbedInv
  <1> QED BY <1>1, <1>2, <1>3, <1>4, <1>5, <1>6 DEF IInv

LEMMA IInvNext == ASSUME IInv, [Next]_vars PROVE IInv'
  BY TypeNext, TokensNext, CurrentNext, CheckedNext, OnItsWayNext, NotStrandedNext, DisturbedNext DEF IInv

LEMMA Invariance == Spec => []IInv
  <1>1. IInv /\ [Next]_vars => IInv'
    <2> SUFFICES ASSUME IInv, [Next]_vars PROVE IInv' OBVIOUS
    <2> QED BY IInvNext
  <1> QED BY IInvInit, <1>1, PTL DEF Spec

\* Every reachable state is well typed, whatever overlaps and whatever fails.
THEOREM TypeCorrect == Spec => []TypeOK
  <1>1. IInv => TypeOK
    BY DEF IInv
  <1> QED BY Invariance, <1>1, PTL

\* However many requests of a browser refresh, log out and log in at once, and in
\* whatever order their answers arrive, the session its cookie leads to is taken
\* away only by a request about to replace or clear the cookie, or when a fault
\* stopped one (manager.go:60-65, middleware.go:109-122).
THEOREM NobodyStranded == Spec => []CookieNotStranded
  <1>1. IInv => CookieNotStranded
    BY DEF IInv
  <1> QED BY Invariance, <1>1, PTL

\* Requests of a browser that refresh its session at once log it out only if one of
\* them finds its access token expired and cannot refresh it, or through a fault or
\* a logout: otherwise it has a working session cookie, or one is on its way, from
\* a login to the end of the cookie's Max-Age (middleware.go:109-122,
\* manager.go:60-84).
THEOREM NobodyLoggedOut == Spec => []StaysLoggedIn
  <1>1. IInv => StaysLoggedIn
    <2> SUFFICES ASSUME IInv, jar.session = 0 \/ items[jar.session] = None
                 PROVE  disturbed \/ \E r \in Requests : ReplacingCookie(r)
      BY DEF StaysLoggedIn
    <2> QED BY DEF IInv, DisturbedInv, CookieNotStranded
  <1> QED BY Invariance, <1>1, PTL

\* The session a POST is forwarded with is of the login its CSRF token was checked
\* against, although it is loaded twice (middleware.go:98, 150).
THEOREM SameLogin == Spec => []ForwardedAsChecked
  <1>1. IInv => ForwardedAsChecked
    BY DEF IInv, CheckedInv, ForwardedAsChecked
  <1> QED BY Invariance, <1>1, PTL

-----------------------------------------------------------------------------
(* The refinement: every step is one of SessionStore's, or none. *)

ViewOf(q) == IF q = Idle THEN 0 ELSE q.cur
View == [r \in Requests |-> ViewOf(req[r])]
Live == {t \in Tokens : Loads(t)}

LEMMA IsDrop ==
    ASSUME TypeOK', owner' = owner, nLogins' = nLogins, Live' \subseteq Live,
           \A r \in Requests : ViewOf(req'[r]) \in {ViewOf(req[r]), 0}
    PROVE  Abstract!Drop
  <1>1. View' \in [Requests -> Logins \cup {0}]
    <2>1. ASSUME NEW r \in Requests PROVE ViewOf(req'[r]) \in Logins \cup {0}
      <3>1. req'[r] \in RequestState \cup {Idle}
        BY DEF TypeOK
      <3> QED BY <3>1 DEF RequestState, ViewOf
    <2> QED BY <2>1 DEF View
  <1>2. \A r \in Requests : View'[r] \in {View[r], 0}
    BY DEF View
  <1> QED BY <1>1, <1>2 DEF Abstract!Drop, View, Live, ViewOf

LEMMA LiveShrinks ==
    ASSUME store' = store, \A t \in Tokens : items'[t] = items[t] \/ items'[t] = None
    PROVE  Live' \subseteq Live
  <1> SUFFICES ASSUME NEW t \in Tokens, Loads(t)' PROVE Loads(t)
    BY DEF Live
  <1> QED BY DEF Loads, ServerSide, Expired

LEMMA IsLoad ==
    ASSUME TypeOK, NEW r \in Requests, NEW t, Loads(t), UNCHANGED <<owner, items, store, nLogins>>,
           ViewOf(req'[r]) = owner[t], \A s \in Requests : s # r => req'[s] = req[s]
    PROVE  t \in Tokens /\ Abstract!Load(r, t)
  <1>1. t \in Live /\ t \in Tokens /\ Live' = Live
    BY DEF Live, Loads, ServerSide, Expired
  <1>2. View' = [View EXCEPT ![r] = owner[t]]
    BY DEF View
  <1> QED BY <1>1, <1>2 DEF Abstract!Load, View, Live, ViewOf

LEMMA SaveIsIssue ==
    ASSUME TypeOK, TokensInv, NEW r \in Requests, NEW l, Saves(r, l), owner' = [owner EXCEPT ![nTokens + 1] = l]
    PROVE  nTokens + 1 \in Tokens /\ Abstract!Issue(nTokens + 1, l)
  <1>0. PICK n \in Tokens : n = nTokens + 1
    BY DEF Saves
  <1>1. nTokens \in Nat /\ n \in Tokens /\ ~(n <= nTokens)
    BY <1>0 DEF TypeOK
  <1>2. owner[n] = 0 /\ items[n] = None
    BY <1>1 DEF TokensInv
  <1>3. items'[n] # None /\ items'[n].ttl = SavedTTL /\ store' = store
    BY <1>0, NoneAssumption DEF Saves
  <1>4. \A t \in Tokens : t # n => items'[t] = items[t]
    BY <1>0 DEF Saves
  <1>5. Loads(n)'
    <2>1. ServerSide => ~(items'[n].ttl < 0)
      BY <1>3, Constants DEF SavedTTL
    <2> QED BY <1>1, <1>3, <2>1 DEF Loads, ServerSide, Expired
  <1>6. \A t \in Tokens : t # n => (Loads(t)' <=> Loads(t))
    BY <1>3, <1>4 DEF Loads, ServerSide, Expired
  <1>7. Live' = Live \cup {n}
    BY <1>1, <1>5, <1>6 DEF Live
  <1>8. Abstract!Issue(n, l)
    BY <1>0, <1>2, <1>7 DEF Abstract!Issue, Live
  <1> QED BY <1>0, <1>8

LEMMA ProceedAtWork == ASSUME NEW r \in Requests, Proceed(r) PROVE req[r] # Idle
  BY IdleFacts DEF Proceed, GetFails, CSRFMiddleware, AuthGuard, TokenForwarder, RefreshSucceeds, RefreshFails,
     RotateDelete, RotateSave, RotateSaveFails, APIProxy, DestroyExpired, Logout, Callback, CallbackFails

LEMMA RefinesStep == ASSUME IInv, [Next]_vars PROVE [Abstract!SSNext]_Abstract!storeVars
  <1>0. TypeOK /\ TypeOK' /\ TokensInv /\ CurrentInv
    BY IInvNext DEF IInv
  <1>a. Abstract!Drop => Abstract!SSNext
    BY DEF Abstract!SSNext
  <1>1. CASE Tick
    <2>1. Live' \subseteq Live
      <3> SUFFICES ASSUME NEW t \in Tokens, Loads(t)' PROVE Loads(t)
        BY DEF Live
      <3> QED BY <1>0, <1>1, TickingItems DEF Loads, ServerSide
    <2>2. \A r \in Requests : ViewOf(req'[r]) = ViewOf(req[r])
      BY <1>0, <1>1, TickingRequests, IdleFacts DEF ViewOf
    <2> QED BY <1>0, <1>1, <1>a, <2>1, <2>2, IsDrop, TickingItems
  <1>2. CASE Restart
    <2>1. Live' \subseteq Live
      BY <1>2, LiveShrinks DEF Restart
    <2>2. \A r \in Requests : ViewOf(req'[r]) = 0
      BY <1>2 DEF Restart, ViewOf
    <2> QED BY <1>0, <1>2, <1>a, <2>1, <2>2, IsDrop DEF Restart
  <1>3. ASSUME NEW r \in Requests, NEW kind \in RequestKinds, Send(r, kind) PROVE Abstract!SSNext
    <2>1. items' = items /\ store' = store /\ owner' = owner /\ nLogins' = nLogins
      BY <1>3 DEF Send, storeVars, otherVars
    <2>2. Live' \subseteq Live
      BY <2>1, LiveShrinks
    <2>3. \A s \in Requests : ViewOf(req'[s]) \in {ViewOf(req[s]), 0}
      BY <1>0, <1>3, Sending DEF ViewOf
    <2> QED BY <1>0, <1>a, <2>1, <2>2, <2>3, IsDrop
  <1>4. ASSUME NEW r \in Requests, Proceed(r), ~RotateSave(r), ~Callback(r) PROVE Abstract!SSNext
    <2>1. StoreShrinks(r) /\ RequestGoesOn(r) /\ req[r] # Idle
      BY <1>0, <1>4, ProceedShrinks, ProceedAtWork DEF Shrinks
    <2>2. /\ owner' = owner /\ nLogins' = nLogins /\ store' = store /\ \A s \in Requests : s # r => req'[s] = req[s]
          /\ \A t \in Tokens : items'[t] = items[t] \/ items'[t] = None
      BY <2>1 DEF StoreShrinks, RequestGoesOn
    <2>3. CASE req'[r] = Idle \/ req'[r].cur \in {0, req[r].cur}
      <3>1. Live' \subseteq Live
        BY <2>2, LiveShrinks
      <3>2. \A s \in Requests : ViewOf(req'[s]) \in {ViewOf(req[s]), 0}
        BY <2>1, <2>2, <2>3 DEF ViewOf
      <3> QED BY <1>0, <1>a, <2>2, <3>1, <3>2, IsDrop
    <2>4. CASE req'[r] # Idle /\ Loads(req[r].cookie) /\ req'[r].cur = owner[req[r].cookie] /\ items' = items
      <3>0. PICK t : t = req[r].cookie
        OBVIOUS
      <3>1. ViewOf(req'[r]) = owner[t] /\ Loads(t)
        BY <2>4, <3>0 DEF ViewOf
      <3>2. t \in Tokens /\ Abstract!Load(r, t)
        BY <1>0, <2>2, <2>4, <3>1, IsLoad
      <3> QED BY <3>2 DEF Abstract!SSNext
    <2> QED BY <2>1, <2>3, <2>4 DEF RequestGoesOn
  <1>5. ASSUME NEW r \in Requests, RotateSave(r) PROVE Abstract!SSNext
    <2> DEFINE n == nTokens + 1
    <2>1. Saves(r, req[r].cur) /\ nLogins' = nLogins /\ req[r].pc = "save" /\ req'[r].cur = req[r].cur
      BY <1>0, <1>5, RotateSaves
    <2>2. owner' = [owner EXCEPT ![nTokens + 1] = req[r].cur]
      BY <1>5 DEF RotateSave, Save, NewToken
    <2>3. n \in Tokens /\ Abstract!Issue(n, req[r].cur)
      BY <1>0, <2>1, <2>2, SaveIsIssue
    <2>4. req[r] # Idle /\ req'[r] # Idle /\ req[r].cur # 0 /\ \A s \in Requests : s # r => req'[s] = req[s]
      BY <1>0, <2>1, IdleFacts DEF Saves, CurrentInv
    <2> HIDE DEF n
    <2>5. View' = View /\ View[r] = req[r].cur
      BY <2>1, <2>4 DEF View, ViewOf
    <2>6. Abstract!Renew(r, n)
      BY <2>1, <2>3, <2>4, <2>5 DEF Abstract!Renew, View, ViewOf
    <2> QED BY <2>3, <2>6 DEF Abstract!SSNext
  <1>6. ASSUME NEW r \in Requests, Callback(r) PROVE Abstract!SSNext
    <2> DEFINE n == nTokens + 1
    <2>1. /\ Saves(r, nLogins + 1) /\ nLogins + 1 \in Logins /\ nLogins' = nLogins + 1
          /\ req[r].pc = "create" /\ req'[r].cur = 0
      BY <1>0, <1>6, CallbackSaves
    <2>2. owner' = [owner EXCEPT ![nTokens + 1] = nLogins + 1]
      BY <1>6 DEF Callback, Save, NewToken
    <2>3. n \in Tokens /\ Abstract!Issue(n, nLogins + 1)
      BY <1>0, <2>1, <2>2, SaveIsIssue
    <2>4. req[r] # Idle /\ req'[r] # Idle /\ req[r].cur = 0 /\ \A s \in Requests : s # r => req'[s] = req[s]
      BY <1>0, <2>1, IdleFacts DEF Saves, CurrentInv
    <2> HIDE DEF n
    <2>5. View' = View
      BY <2>1, <2>4 DEF View, ViewOf
    <2>6. Abstract!Open(n)
      BY <2>1, <2>3, <2>5 DEF Abstract!Open, View, ViewOf
    <2> QED BY <2>3, <2>6 DEF Abstract!SSNext
  <1>7. ASSUME NEW r \in Requests, Deliver(r) \/ Lose(r) PROVE Abstract!SSNext
    <2>1. items' = items /\ store' = store /\ owner' = owner /\ nLogins' = nLogins
      BY <1>7 DEF Deliver, Lose, storeVars
    <2>2. \A s \in Requests : req'[s] \in {req[s], Idle}
      BY <1>0, <1>7 DEF Deliver, Lose, TypeOK
    <2>3. Live' \subseteq Live
      BY <2>1, LiveShrinks
    <2>4. \A s \in Requests : ViewOf(req'[s]) \in {ViewOf(req[s]), 0}
      BY <2>2 DEF ViewOf
    <2> QED BY <1>0, <1>a, <2>1, <2>3, <2>4, IsDrop
  <1>8. CASE UNCHANGED vars
    BY <1>8 DEF vars, storeVars, otherVars, Abstract!storeVars, Loads, ServerSide, Expired
  <1> QED BY <1>1, <1>2, <1>3, <1>4, <1>5, <1>6, <1>7, <1>8 DEF Next

\* The three stores, the manager and the middleware built on them keep the
\* promises of SessionStore, whatever overlaps and whatever fails
\* (manager.go:24-87, store.go:20-24, middleware.go:63-132).
THEOREM Refinement == Spec => ImplementsSessionStore
  <1>1. Init => Abstract!SSInit
    BY Constants DEF Init, Abstract!SSInit, Loads
  <1>2. IInv /\ [Next]_vars => [Abstract!SSNext]_Abstract!storeVars
    BY RefinesStep
  <1> QED BY <1>1, <1>2, Invariance, PTL DEF Spec, ImplementsSessionStore, Abstract!SSSpec

\* A login that no token leads to and no request works with is over for good
\* (middleware.go:77, manager.go:60-65).
THEOREM EndForGood == Spec => LoginsEndForGood
  <1>1. Logins \subseteq Nat /\ 0 \notin Logins
    BY Constants
  <1>2. Abstract!SSSpec => Abstract!OverForGood
    BY <1>1, Abstract!OverIsForGood
  <1> QED BY <1>2, Refinement, PTL DEF ImplementsSessionStore, LoginsEndForGood
=============================================================================
