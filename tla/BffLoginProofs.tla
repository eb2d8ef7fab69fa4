---------------------------- MODULE BffLoginProofs ----------------------------
(***************************************************************************)
(* Proofs about BffLogin, for any number of browsers, users, replicas,       *)
(* flows, codes, restarts and callbacks under way at once, and every cookie *)
(* age and claim lifetime of which the first is not the longer.             *)
(***************************************************************************)
EXTENDS BffLogin, TLAPS

-----------------------------------------------------------------------------
(* Types. *)

LEMMA Constants ==
    /\ CookieAge \in Nat /\ ClaimTTL \in Nat /\ CookieAge > 0 /\ ClaimTTL > 0 /\ CookieAge <= ClaimTTL
    /\ AgeCap \in Nat /\ AgeCap = 2 * ClaimTTL /\ 0 \in 0 .. AgeCap /\ 0 \in 0 .. ClaimTTL
    /\ 0 \notin Flows /\ 0 \notin Codes /\ 1 \in 1 .. MaxAttempts
    /\ Flows \subseteq Nat /\ Codes \subseteq Nat
  BY TimesAssumption DEF AgeCap, Flows, Codes

LEMMA OlderType ==
    ASSUME NEW cap \in Nat, NEW age \in 0 .. cap \cup {None}
    PROVE  /\ Older(age, cap) \in 0 .. cap \cup {None}
           /\ Older(age, cap) = None <=> age = None
           /\ age # None => Older(age, cap) \in 0 .. cap /\ Older(age, cap) <= age + 1
           /\ age # None /\ age < cap => Older(age, cap) = age + 1
  BY NoneAssumption DEF Older

LEMMA PhaseTypes ==
    /\ \A n \in 1 .. MaxAttempts : Starting(n) \in Phases /\ Starting(n).is = "starting"
    /\ [is |-> "up"] \in Phases /\ [is |-> "exited"] \in Phases
    /\ \A n \in 1 .. MaxAttempts : AfterFailedAttempt(n) \in Phases /\ AfterFailedAttempt(n).is # "up"
    /\ \A ph \in Phases : ph.is = "starting" => ph.attempt \in 1 .. MaxAttempts
  <1>1. \A n \in 1 .. MaxAttempts : Starting(n) \in Phases /\ Starting(n).is = "starting"
    BY DEF Starting, Phases
  <1>2. [is |-> "up"] \in Phases /\ [is |-> "exited"] \in Phases
    BY DEF Phases
  <1>3. ASSUME NEW n \in 1 .. MaxAttempts
        PROVE  AfterFailedAttempt(n) \in Phases /\ AfterFailedAttempt(n).is # "up"
    <2>1. CASE n < MaxAttempts
      <3>1. n + 1 \in 1 .. MaxAttempts
        BY <2>1, TimesAssumption
      <3> QED BY <1>1, <2>1, <3>1 DEF AfterFailedAttempt
    <2>2. CASE ~(n < MaxAttempts)
      BY <1>2, <2>2 DEF AfterFailedAttempt
    <2> QED BY <2>1, <2>2
  <1>4. \A ph \in Phases : ph.is = "starting" => ph.attempt \in 1 .. MaxAttempts
    BY DEF Phases
  <1> QED BY <1>1, <1>2, <1>3, <1>4

LEMMA ClaimsAtEntryType ==
    ASSUME TypeOK, NEW p \in Replicas
    PROVE  ClaimsAtEntry(p) \in [Flows -> 0 .. AgeCap \cup {None}]
  BY DEF TypeOK, ClaimsAtEntry, Kept

LEMMA ClaimType ==
    ASSUME TypeOK, NEW p \in Replicas, NEW f \in Flows, Claim(p, f)
    PROVE  /\ claimAge' \in [Replicas -> [Flows -> 0 .. AgeCap \cup {None}]]
           /\ cleanAge' \in [Replicas -> 0 .. ClaimTTL]
  <1>1. cleanAge' \in [Replicas -> 0 .. ClaimTTL]
    BY Constants DEF TypeOK, Claim
  <1>2. [ClaimsAtEntry(p) EXCEPT ![f] = 0] \in [Flows -> 0 .. AgeCap \cup {None}]
    BY ClaimsAtEntryType, Constants
  <1> QED BY <1>1, <1>2, ClaimsAtEntryType DEF TypeOK, Claim

LEMMA TypeInit == Init => TypeOK
  BY Constants, PhaseTypes, TimesAssumption DEF Init, TypeOK

\* Steps of callbacks that leave what the replicas keep alone.
LEMMA TypeProceed ==
    ASSUME TypeOK, NEW r \in Requests, Proceed(r)
    PROVE  TypeOK'
  <1> USE DEF Goto
  <1>0. req[r] \in RequestState \cup {Idle}
    BY DEF TypeOK
  <1>1. CASE CallbackRefused(r)
    BY <1>1 DEF CallbackRefused, TypeOK, bffVars, browserVars, idpVars, history
  <1>2. CASE Callback(r)
    <2>1. req[r] \in RequestState /\ req[r].replica \in Replicas /\ req[r].cookie \in Flows
      BY <1>0, <1>2, Constants DEF Callback, StateMatches, RequestState, Idle
    <2>2. /\ claimAge' \in [Replicas -> [Flows -> 0 .. AgeCap \cup {None}]]
          /\ cleanAge' \in [Replicas -> 0 .. ClaimTTL]
      BY <1>2, <2>1, ClaimType DEF Callback
    <2>3. req' \in [Requests -> RequestState \cup {Idle}]
      <3>1. [req[r] EXCEPT !.pc = "exchange"] \in RequestState
        BY <2>1 DEF RequestState
      <3> QED BY <1>2, <3>1 DEF Callback, TypeOK
    <2>4. claimed' \in [Replicas -> [Flows -> Nat]]
      <3> DEFINE p == req[r].replica
                 f == req[r].cookie
      <3>1. p \in Replicas /\ f \in Flows /\ claimed[p][f] + 1 \in Nat
        BY <2>1 DEF TypeOK
      <3>2. claimed' = claimed \/ claimed' = [claimed EXCEPT ![p] = [claimed[p] EXCEPT ![f] = claimed[p][f] + 1]]
        BY <1>2 DEF Callback
      <3> HIDE DEF p, f
      <3>3. [claimed[p] EXCEPT ![f] = claimed[p][f] + 1] \in [Flows -> Nat]
        BY <3>1 DEF TypeOK
      <3> QED BY <3>1, <3>2, <3>3 DEF TypeOK
    <2> QED BY <1>2, <2>2, <2>3, <2>4 DEF Callback, TypeOK, browserVars, idpVars
  <1>3. CASE ExchangeCode(r)
    <2>1. req[r] \in RequestState
      BY <1>0, <1>3 DEF ExchangeCode, Idle
    <2>2. [req[r] EXCEPT !.pc = "create"] \in RequestState
      BY <2>1 DEF RequestState
    <2>3. req' \in [Requests -> RequestState \cup {Idle}]
      BY <1>3, <2>2 DEF ExchangeCode, TypeOK
    <2> QED BY <1>3, <2>3 DEF ExchangeCode, TypeOK, CodesAfterTake, bffVars, browserVars, history
  <1>4. CASE ExchangeFails(r)
    BY <1>4 DEF ExchangeFails, TypeOK, CodesAfterTake, bffVars, browserVars, history
  <1>5. CASE CreateSession(r)
    <2>1. req[r] \in RequestState /\ req[r].code \in Codes
      BY <1>0, <1>5 DEF CreateSession, Idle, RequestState
    <2>2. [req[r] EXCEPT !.pc = "answer"] \in RequestState
      BY <2>1 DEF RequestState
    <2>3. req' \in [Requests -> RequestState \cup {Idle}]
      BY <1>5, <2>2 DEF CreateSession, TypeOK
    <2>4. sessions' \in [Codes -> Nat]
      BY <1>5, <2>1 DEF CreateSession, TypeOK
    <2> QED BY <1>5, <2>3, <2>4 DEF CreateSession, TypeOK, bffVars, browserVars, idpVars
  <1>6. CASE CreateFails(r)
    BY <1>6 DEF CreateFails, TypeOK, bffVars, browserVars, idpVars, history
  <1>7. CASE Deliver(r)
    <2>1. req[r] \in RequestState /\ req[r].browser \in Browsers
      BY <1>0, <1>7 DEF Deliver, Idle, RequestState
    <2> QED BY <1>7, <2>1 DEF Deliver, TypeOK, bffVars, idpVars, history
  <1>8. CASE Lose(r)
    BY <1>8 DEF Lose, TypeOK, bffVars, browserVars, idpVars, history
  <1> QED BY <1>1, <1>2, <1>3, <1>4, <1>5, <1>6, <1>7, <1>8 DEF Proceed

LEMMA TypeTick == ASSUME TypeOK, Tick PROVE TypeOK'
  <1>1. claimAge' \in [Replicas -> [Flows -> 0 .. AgeCap \cup {None}]]
    <2>1. ASSUME NEW p \in Replicas, NEW f \in Flows
          PROVE  Older(claimAge[p][f], AgeCap) \in 0 .. AgeCap \cup {None}
      <3>1. claimAge[p][f] \in 0 .. AgeCap \cup {None} /\ AgeCap \in Nat
        BY Constants DEF TypeOK
      <3> QED BY <3>1, OlderType
    <2> QED BY <2>1 DEF Tick
  <1>2. cleanAge' \in [Replicas -> 0 .. ClaimTTL]
    <2>1. ASSUME NEW p \in Replicas PROVE Older(cleanAge[p], ClaimTTL) \in 0 .. ClaimTTL
      <3>1. cleanAge[p] \in 0 .. ClaimTTL /\ cleanAge[p] # None
        BY NoneAssumption DEF TypeOK
      <3> QED BY <3>1, OlderType, Constants
    <2> QED BY <2>1 DEF Tick, TypeOK
  <1>3. cookieLeft' \in [Flows -> 0 .. CookieAge]
    <2>1. ASSUME NEW f \in Flows
          PROVE  (IF cookieLeft[f] = 0 THEN 0 ELSE cookieLeft[f] - 1) \in 0 .. CookieAge
      <3>1. cookieLeft[f] \in 0 .. CookieAge /\ CookieAge \in Nat
        BY Constants DEF TypeOK
      <3> QED BY <3>1
    <2> QED BY <2>1 DEF Tick
  <1>4. jar' \in [Browsers -> Flows \cup {0}]
    BY DEF Tick, TypeOK
  <1> QED BY <1>1, <1>2, <1>3, <1>4 DEF Tick, TypeOK, idpVars, history

LEMMA TypeNext == ASSUME TypeOK, [Next]_vars PROVE TypeOK'
  <1>1. CASE Tick
    BY <1>1, TypeTick
  <1>2. ASSUME NEW p \in Replicas, BuildOIDCDependencies(p) PROVE TypeOK'
    <2>1. phase[p].attempt \in 1 .. MaxAttempts
      BY <1>2, PhaseTypes DEF BuildOIDCDependencies, TypeOK
    <2>2. phase' \in [Replicas -> Phases]
      BY <1>2, <2>1, PhaseTypes DEF BuildOIDCDependencies, TypeOK
    <2>3. cleanAge' \in [Replicas -> 0 .. ClaimTTL]
      BY <1>2, Constants DEF BuildOIDCDependencies, TypeOK
    <2> QED BY <1>2, <2>2, <2>3 DEF BuildOIDCDependencies, TypeOK, browserVars, idpVars, history
  <1>3. ASSUME NEW p \in Replicas, Restart(p) PROVE TypeOK'
    <2>1. phase' \in [Replicas -> Phases] /\ cleanAge' \in [Replicas -> 0 .. ClaimTTL]
      BY <1>3, PhaseTypes, Constants DEF Restart, TypeOK
    <2>2. /\ claimAge' \in [Replicas -> [Flows -> 0 .. AgeCap \cup {None}]]
          /\ claimed' \in [Replicas -> [Flows -> Nat]]
      BY <1>3 DEF Restart, TypeOK
    <2>3. req' \in [Requests -> RequestState \cup {Idle}]
      BY <1>3, TimesAssumption DEF Restart, TypeOK
    <2> QED BY <1>3, <2>1, <2>2, <2>3 DEF Restart, TypeOK, browserVars, idpVars
  <1>4. ASSUME NEW b \in Browsers, NEW f \in Flows, Login(b, f) PROVE TypeOK'
    BY <1>4, Constants DEF Login, TypeOK, bffVars, idpVars, history
  <1>5. ASSUME NEW u \in Users, NEW f \in Flows, Authorize(u, f) \/ \E k \in Codes : IssueCode(u, f, k)
        PROVE  TypeOK'
    <2>1. Ask(u, f) /\ UNCHANGED <<bffVars, browserVars, req, history>>
      BY <1>5 DEF Authorize, IssueCode
    <2>2. asked' \in [Flows -> SUBSET Users] /\ challenge' \in [Users -> Flows \cup {0}]
      BY <2>1 DEF Ask, TypeOK
    <2>3. codeUser' \in [Codes -> Users \cup {None}] /\ codes' \subseteq Codes
      BY <1>5 DEF Authorize, IssueCode, TypeOK
    <2> QED BY <2>1, <2>2, <2>3 DEF TypeOK, bffVars, browserVars, history
  <1>6. ASSUME NEW r \in Requests, NEW b \in Browsers, NEW f \in Flows, NEW k \in Codes, NEW p \in Replicas,
               Send(r, b, f, k, p)
        PROVE  TypeOK'
    <2>1. [pc |-> "callback", browser |-> b, replica |-> p, cookie |-> jar[b], state |-> f, code |-> k]
            \in RequestState
      BY DEF TypeOK, RequestState
    <2> QED BY <1>6, <2>1 DEF Send, TypeOK, bffVars, browserVars, idpVars, history
  <1>7. ASSUME NEW r \in Requests, Proceed(r) PROVE TypeOK'
    BY <1>7, TypeProceed
  <1>8. CASE UNCHANGED vars
    BY <1>8 DEF vars, bffVars, browserVars, idpVars, history, TypeOK
  <1> QED BY <1>1, <1>2, <1>3, <1>4, <1>5, <1>6, <1>7, <1>8 DEF Next

\* Every reachable state is well typed: the retry loop never exceeds its attempts
\* and no age or Max-Age leaves its range (oidc_runtime.go:31, state_claims.go:31).
THEOREM TypeCorrect == Spec => []TypeOK
  <1>1. TypeOK /\ [Next]_vars => TypeOK'
    <2> SUFFICES ASSUME TypeOK, [Next]_vars PROVE TypeOK' OBVIOUS
    <2> QED BY TypeNext
  <1> QED BY TypeInit, <1>1, PTL DEF Spec

-----------------------------------------------------------------------------
(* Cookies stay with their browser. *)

\* What a step of a callback does to the requests, and what it leaves alone.
ProceedShape(r) ==
    /\ req[r] \in RequestState
    /\ \A s \in Requests : s # r => req'[s] = req[s]
    /\ \/ req'[r] = Idle
       \/ /\ req'[r] \in RequestState
          /\ req'[r].browser = req[r].browser /\ req'[r].replica = req[r].replica
          /\ req'[r].cookie = req[r].cookie /\ req'[r].code = req[r].code
          /\ req'[r].pc # "callback"
          /\ req[r].pc = "callback" => StateMatches(req[r]) /\ req'[r].pc = "exchange"
    /\ phase' = phase /\ starter' = starter /\ cookieLeft' = cookieLeft
    /\ codeUser' = codeUser /\ challenge' = challenge /\ asked' = asked
    /\ \A b \in Browsers : jar'[b] \in {0, jar[b]}

LEMMA ProceedHasShape ==
    ASSUME TypeOK, NEW r \in Requests, Proceed(r)
    PROVE  ProceedShape(r)
  <1> USE DEF Goto, bffVars, browserVars, idpVars, history
  <1>0. req[r] \in RequestState \cup {Idle} /\ req \in [Requests -> RequestState \cup {Idle}]
    BY DEF TypeOK
  <1>1. req[r] \in RequestState
    BY <1>0 DEF Proceed, CallbackRefused, Callback, ExchangeCode, ExchangeFails, CreateSession, CreateFails,
                Deliver, Lose, Idle
  <1>2. \E q : req' = [req EXCEPT ![r] = q]
    BY DEF Proceed, CallbackRefused, Callback, ExchangeCode, ExchangeFails, CreateSession, CreateFails, Deliver, Lose
  <1>3. \A s \in Requests : s # r => req'[s] = req[s]
    BY <1>0, <1>2
  <1>4. /\ phase' = phase /\ starter' = starter /\ cookieLeft' = cookieLeft
        /\ codeUser' = codeUser /\ challenge' = challenge /\ asked' = asked
    BY DEF Proceed, CallbackRefused, Callback, ExchangeCode, ExchangeFails, CreateSession, CreateFails, Deliver, Lose
  <1>5. \A b \in Browsers : jar'[b] \in {0, jar[b]}
    <2>1. CASE Deliver(r)
      BY <2>1 DEF Deliver, TypeOK
    <2>2. CASE ~Deliver(r)
      <3>1. jar' = jar
        BY <2>2 DEF Proceed, CallbackRefused, Callback, ExchangeCode, ExchangeFails, CreateSession, CreateFails, Lose
      <3> QED BY <3>1
    <2> QED BY <2>1, <2>2
  <1>6. \/ req'[r] = Idle
        \/ /\ req'[r] \in RequestState
           /\ req'[r].browser = req[r].browser /\ req'[r].replica = req[r].replica
           /\ req'[r].cookie = req[r].cookie /\ req'[r].code = req[r].code
           /\ req'[r].pc # "callback"
           /\ req[r].pc = "callback" => StateMatches(req[r]) /\ req'[r].pc = "exchange"
    <2>1. CASE Callback(r)
      <3>1. req'[r] = Idle \/ req'[r] = [req[r] EXCEPT !.pc = "exchange"]
        BY <1>0, <2>1 DEF Callback
      <3>2. StateMatches(req[r])
        BY <2>1 DEF Callback
      <3> QED BY <1>1, <3>1, <3>2 DEF RequestState
    <2>2. CASE ExchangeCode(r)
      <3>1. req[r].pc = "exchange" /\ (req'[r] = Idle \/ req'[r] = [req[r] EXCEPT !.pc = "create"])
        BY <1>0, <2>2 DEF ExchangeCode
      <3> QED BY <1>1, <3>1 DEF RequestState
    <2>3. CASE CreateSession(r)
      <3>1. req[r].pc = "create" /\ req'[r] = [req[r] EXCEPT !.pc = "answer"]
        BY <1>0, <2>3 DEF CreateSession
      <3> QED BY <1>1, <3>1 DEF RequestState
    <2>4. CASE CallbackRefused(r) \/ ExchangeFails(r) \/ CreateFails(r) \/ Deliver(r) \/ Lose(r)
      BY <1>0, <2>4 DEF CallbackRefused, ExchangeFails, CreateFails, Deliver, Lose
    <2> QED BY <2>1, <2>2, <2>3, <2>4 DEF Proceed
  <1> QED BY <1>1, <1>3, <1>4, <1>5, <1>6 DEF ProceedShape

LEMMA CookiesNext == ASSUME TypeOK, CookiesInv, [Next]_vars PROVE CookiesInv'
  <1> USE DEF bffVars, browserVars, idpVars, history
  <1>0. /\ req \in [Requests -> RequestState \cup {Idle}] /\ jar \in [Browsers -> Flows \cup {0}]
        /\ starter \in [Flows -> Browsers \cup {None}]
        /\ \A q \in RequestState : q.code \in Codes /\ q.cookie \in Flows \cup {0} /\ q.browser \in Browsers
    BY DEF TypeOK, RequestState
  <1>1. CASE Tick
    <2>1. \A b \in Browsers : jar'[b] \in {0, jar[b]}
      BY <1>1 DEF Tick
    <2> QED BY <1>1, <2>1 DEF Tick, CookiesInv
  <1>2. ASSUME NEW p \in Replicas, BuildOIDCDependencies(p) PROVE CookiesInv'
    BY <1>2 DEF BuildOIDCDependencies, CookiesInv
  <1>3. ASSUME NEW p \in Replicas, Restart(p) PROVE CookiesInv'
    <2>1. \A r \in Requests : req'[r] \in {req[r], Idle}
      BY <1>3 DEF Restart
    <2> QED BY <1>3, <2>1 DEF Restart, CookiesInv
  <1>4. ASSUME NEW b \in Browsers, NEW f \in Flows, Login(b, f) PROVE CookiesInv'
    <2>1. starter'[f] = b /\ \A g \in Flows : starter[g] \in Browsers => starter'[g] = starter[g]
      BY <1>0, <1>4, NoneAssumption DEF Login
    <2>2. \A c \in Browsers : jar'[c] # 0 => starter'[jar'[c]] = c
      BY <1>0, <1>4, <2>1 DEF Login, CookiesInv
    <2>3. req' = req
      BY <1>4 DEF Login
    <2> QED BY <1>0, <2>1, <2>2, <2>3 DEF CookiesInv
  <1>5. ASSUME NEW u \in Users, NEW f \in Flows, Authorize(u, f) \/ \E k \in Codes : IssueCode(u, f, k)
        PROVE  CookiesInv'
    <2>1. UNCHANGED <<jar, starter, req>>
      BY <1>5 DEF Authorize, IssueCode
    <2> QED BY <2>1 DEF CookiesInv
  <1>6. ASSUME NEW r \in Requests, NEW b \in Browsers, NEW f \in Flows, NEW k \in Codes, NEW p \in Replicas,
               Send(r, b, f, k, p)
        PROVE  CookiesInv'
    <2>1. /\ req'[r] = [pc |-> "callback", browser |-> b, replica |-> p, cookie |-> jar[b], state |-> f, code |-> k]
          /\ \A s \in Requests : s # r => req'[s] = req[s]
      BY <1>0, <1>6 DEF Send
    <2>2. starter' = starter /\ jar' = jar
      BY <1>6 DEF Send
    <2> QED BY <2>1, <2>2 DEF CookiesInv
  <1>7. ASSUME NEW r \in Requests, Proceed(r) PROVE CookiesInv'
    <2>1. ProceedShape(r)
      BY <1>7, ProceedHasShape
    <2>2. \A b \in Browsers : jar'[b] # 0 => starter'[jar'[b]] = b
      BY <2>1 DEF ProceedShape, CookiesInv
    <2>3. ASSUME NEW s \in Requests, req'[s] # Idle
          PROVE  /\ req'[s].cookie # 0 => starter'[req'[s].cookie] = req'[s].browser
                 /\ req'[s].pc # "callback" => req'[s].cookie # 0
      <3>1. CASE s # r
        BY <2>1, <2>3, <3>1 DEF ProceedShape, CookiesInv
      <3>2. CASE s = r
        <4>1. req[r] # Idle
          BY <2>1 DEF ProceedShape, RequestState, Idle
        <4> QED BY <2>1, <2>3, <3>2, <4>1 DEF ProceedShape, CookiesInv, StateMatches
      <3> QED BY <3>1, <3>2
    <2> QED BY <2>2, <2>3 DEF CookiesInv
  <1>8. CASE UNCHANGED vars
    BY <1>8 DEF vars, CookiesInv
  <1> QED BY <1>1, <1>2, <1>3, <1>4, <1>5, <1>6, <1>7, <1>8 DEF Next

-----------------------------------------------------------------------------
(* A verifier is accepted only for a user who opened its flow's page. *)

LEMMA Opening ==
    ASSUME TypeOK, NEW u \in Users, NEW f \in Flows, Authorize(u, f) \/ \E k \in Codes : IssueCode(u, f, k)
    PROVE  /\ asked'[f] = asked[f] \cup {u} /\ \A g \in Flows : asked[g] \subseteq asked'[g]
           /\ challenge'[u] = f /\ \A v \in Users : v # u => challenge'[v] = challenge[v]
           /\ \A j \in Codes : codeUser[j] # None => codeUser'[j] = codeUser[j]
           /\ req' = req
  <1>1. Ask(u, f) /\ req' = req
    BY DEF Authorize, IssueCode
  <1>2. /\ asked'[f] = asked[f] \cup {u} /\ \A g \in Flows : asked[g] \subseteq asked'[g]
        /\ challenge'[u] = f /\ \A v \in Users : v # u => challenge'[v] = challenge[v]
    BY <1>1 DEF Ask, TypeOK
  <1>3. \A j \in Codes : codeUser[j] # None => codeUser'[j] = codeUser[j]
    BY DEF Authorize, IssueCode, TypeOK
  <1> QED BY <1>1, <1>2, <1>3

LEMMA AskedNext == ASSUME TypeOK, CookiesInv, AskedInv, [Next]_vars PROVE AskedInv'
  <1> USE DEF bffVars, browserVars, idpVars, history
  <1>0. /\ req \in [Requests -> RequestState \cup {Idle}]
        /\ codeUser \in [Codes -> Users \cup {None}] /\ challenge \in [Users -> Flows \cup {0}]
        /\ \A q \in RequestState : q.code \in Codes /\ q.cookie \in Flows \cup {0} /\ q # Idle
        /\ Idle.pc = "idle"
    BY DEF TypeOK, RequestState, Idle
  <1>a. ASSUME asked' = asked, codeUser' = codeUser, challenge' = challenge,
               \A r \in Requests : req'[r] \in {req[r], Idle}
        PROVE  AskedInv'
    BY <1>0, <1>a DEF AskedInv
  <1>1. CASE Tick
    BY <1>1, <1>a DEF Tick
  <1>2. ASSUME NEW p \in Replicas, BuildOIDCDependencies(p) PROVE AskedInv'
    BY <1>2, <1>a DEF BuildOIDCDependencies
  <1>3. ASSUME NEW p \in Replicas, Restart(p) PROVE AskedInv'
    <2>1. \A r \in Requests : req'[r] \in {req[r], Idle}
      BY <1>3 DEF Restart
    <2> QED BY <1>3, <1>a, <2>1 DEF Restart
  <1>4. ASSUME NEW b \in Browsers, NEW f \in Flows, Login(b, f) PROVE AskedInv'
    BY <1>4, <1>a DEF Login
  <1>5. ASSUME NEW u \in Users, NEW f \in Flows, Authorize(u, f) \/ \E k \in Codes : IssueCode(u, f, k)
        PROVE  AskedInv'
    <2>1. /\ asked'[f] = asked[f] \cup {u} /\ \A g \in Flows : asked[g] \subseteq asked'[g]
          /\ challenge'[u] = f /\ \A v \in Users : v # u => challenge'[v] = challenge[v]
          /\ \A j \in Codes : codeUser[j] # None => codeUser'[j] = codeUser[j]
          /\ req' = req
      BY <1>5, Opening
    <2>2. \A v \in Users : challenge'[v] # 0 => v \in asked'[challenge'[v]]
      BY <1>0, <2>1 DEF AskedInv
    <2>3. ASSUME NEW r \in Requests, req[r] # Idle
          PROVE  /\ req[r].code \in Codes /\ codeUser[req[r].code] # None
                 /\ codeUser'[req[r].code] = codeUser[req[r].code]
                 /\ req[r].pc # "callback" => req[r].cookie \in Flows
      BY <1>0, <2>1, <2>3 DEF AskedInv, CookiesInv
    <2>4. ASSUME NEW r \in Requests, req[r].pc \in {"create", "answer"}
          PROVE  codeUser'[req[r].code] \in asked'[req[r].cookie]
      <3>1. req[r] # Idle
        BY <1>0, <2>4
      <3>2. codeUser[req[r].code] \in asked[req[r].cookie]
        BY <2>4 DEF AskedInv
      <3> QED BY <2>1, <2>3, <2>4, <3>1, <3>2
    <2> QED BY <2>1, <2>2, <2>3, <2>4 DEF AskedInv
  <1>6. ASSUME NEW r \in Requests, NEW b \in Browsers, NEW f \in Flows, NEW k \in Codes, NEW p \in Replicas,
               Send(r, b, f, k, p)
        PROVE  AskedInv'
    <2>1. /\ req'[r].pc = "callback" /\ req'[r].code = k
          /\ \A s \in Requests : s # r => req'[s] = req[s]
      BY <1>0, <1>6 DEF Send
    <2>2. codeUser[k] # None /\ asked' = asked /\ codeUser' = codeUser /\ challenge' = challenge
      BY <1>6 DEF Send
    <2> QED BY <2>1, <2>2 DEF AskedInv
  <1>7. ASSUME NEW r \in Requests, Proceed(r) PROVE AskedInv'
    <2>1. ProceedShape(r)
      BY <1>7, ProceedHasShape
    <2>2. asked' = asked /\ codeUser' = codeUser /\ challenge' = challenge /\ \A s \in Requests : s # r => req'[s] = req[s]
      BY <2>1 DEF ProceedShape
    <2>3. req[r] # Idle /\ codeUser[req[r].code] \in Users /\ req[r].code \in Codes
      BY <1>0, <2>1 DEF ProceedShape, AskedInv
    <2>4. req'[r] # Idle => req'[r].code = req[r].code /\ req'[r].cookie = req[r].cookie
      BY <2>1 DEF ProceedShape
    <2>5. req'[r].pc \in {"create", "answer"} => codeUser[req[r].code] \in asked[req[r].cookie]
      <3>1. CASE ExchangeCode(r)
        <4>1. req[r].pc = "exchange" /\ (req'[r] = Idle \/ VerifierMatches(req[r]))
          BY <1>0, <3>1 DEF ExchangeCode, Goto
        <4>2. req[r].cookie # 0
          BY <2>3, <4>1 DEF CookiesInv
        <4>3. VerifierMatches(req[r]) => codeUser[req[r].code] \in asked[req[r].cookie]
          BY <2>3, <4>2 DEF VerifierMatches, AskedInv
        <4> QED BY <1>0, <4>1, <4>3
      <3>2. CASE CreateSession(r)
        BY <3>2 DEF CreateSession, AskedInv
      <3>3. CASE Callback(r)
        <4>1. req[r].pc = "callback"
          BY <3>3 DEF Callback
        <4> QED BY <1>0, <2>1, <4>1 DEF ProceedShape
      <3>4. CASE CallbackRefused(r) \/ ExchangeFails(r) \/ CreateFails(r) \/ Deliver(r) \/ Lose(r)
        BY <1>0, <3>4 DEF CallbackRefused, ExchangeFails, CreateFails, Deliver, Lose, Goto
      <3> QED BY <1>7, <3>1, <3>2, <3>3, <3>4 DEF Proceed
    <2>6. req'[r].pc \in {"create", "answer"} => req'[r] # Idle
      BY <1>0
    <2> QED BY <2>2, <2>3, <2>4, <2>5, <2>6, NoneAssumption DEF AskedInv
  <1>8. CASE UNCHANGED vars
    BY <1>8, <1>a DEF vars
  <1> QED BY <1>1, <1>2, <1>3, <1>4, <1>5, <1>6, <1>7, <1>8 DEF Next

-----------------------------------------------------------------------------
(* A code buys one session. *)

LEMMA CodesNext == ASSUME TypeOK, AskedInv, CodesInv, [Next]_vars PROVE CodesInv'
  <1> USE DEF bffVars, browserVars, idpVars, history, Goto
  <1>0. /\ req \in [Requests -> RequestState \cup {Idle}]
        /\ codeUser \in [Codes -> Users \cup {None}] /\ sessions \in [Codes -> Nat] /\ codes \subseteq Codes
        /\ \A q \in RequestState : q.code \in Codes /\ q # Idle
        /\ Idle.pc = "idle"
    BY DEF TypeOK, RequestState, Idle
  <1>a. ASSUME codeUser' = codeUser, sessions' = sessions, codes' \subseteq codes,
               \A r \in Requests : req'[r].pc = "create" => req'[r] = req[r]
        PROVE  CodesInv'
    BY <1>a DEF CodesInv
  <1>1. CASE Tick
    BY <1>1, <1>a DEF Tick
  <1>2. ASSUME NEW p \in Replicas, BuildOIDCDependencies(p) PROVE CodesInv'
    BY <1>2, <1>a DEF BuildOIDCDependencies
  <1>3. ASSUME NEW p \in Replicas, Restart(p) PROVE CodesInv'
    <2>1. \A r \in Requests : req'[r] \in {req[r], Idle}
      BY <1>3 DEF Restart
    <2> QED BY <1>0, <1>3, <1>a, <2>1 DEF Restart
  <1>4. ASSUME NEW b \in Browsers, NEW f \in Flows, Login(b, f) PROVE CodesInv'
    BY <1>4, <1>a DEF Login
  <1>5. ASSUME NEW u \in Users, NEW f \in Flows, Authorize(u, f) \/ \E k \in Codes : IssueCode(u, f, k)
        PROVE  CodesInv'
    <2>1. CASE Authorize(u, f)
      BY <1>a, <2>1 DEF Authorize
    <2>2. ASSUME NEW k \in Codes, IssueCode(u, f, k) PROVE CodesInv'
      <3>1. codeUser[k] = None /\ codeUser' = [codeUser EXCEPT ![k] = u] /\ codes' = codes \cup {k}
        BY <2>2 DEF IssueCode
      <3>2. req' = req /\ sessions' = sessions
        BY <2>2 DEF IssueCode
      <3>3. \A r \in Requests : req[r].pc = "create" => req[r] \in RequestState /\ req[r].code # k
        BY <1>0, <3>1 DEF AskedInv
      <3>4. u # None /\ sessions[k] = 0
        BY <3>1, NoneAssumption DEF CodesInv
      <3>5. \A j \in Codes : /\ sessions[j] \in {0, 1}
                             /\ codeUser'[j] = None => j \notin codes' /\ sessions[j] = 0
                             /\ j \in codes' => sessions[j] = 0
        BY <1>0, <3>1, <3>4 DEF CodesInv
      <3>6. \A r \in Requests : req[r].pc = "create" => req[r].code \notin codes' /\ sessions[req[r].code] = 0
        BY <3>1, <3>3 DEF CodesInv
      <3>7. \A r, s \in Requests :
              req[r].pc = "create" /\ req[s].pc = "create" /\ req[r].code = req[s].code => r = s
        BY DEF CodesInv
      <3> QED BY <3>2, <3>5, <3>6, <3>7 DEF CodesInv
    <2> QED BY <1>5, <2>1, <2>2
  <1>6. ASSUME NEW r \in Requests, NEW b \in Browsers, NEW f \in Flows, NEW k \in Codes, NEW p \in Replicas,
               Send(r, b, f, k, p)
        PROVE  CodesInv'
    <2>1. req'[r].pc = "callback" /\ \A s \in Requests : s # r => req'[s] = req[s]
      BY <1>0, <1>6 DEF Send
    <2> QED BY <1>6, <1>a, <2>1 DEF Send
  <1>7. ASSUME NEW r \in Requests, Proceed(r) PROVE CodesInv'
    <2>0. req[r] \in RequestState /\ req[r].code \in Codes /\ \A s \in Requests : s # r => req'[s] = req[s]
      BY <1>0, <1>7, ProceedHasShape DEF ProceedShape
    <2>1. CASE Callback(r)
      <3>1. req'[r] = Idle \/ req'[r] = [req[r] EXCEPT !.pc = "exchange"]
        BY <1>0, <2>1 DEF Callback
      <3>2. req'[r].pc # "create"
        BY <1>0, <2>0, <3>1 DEF RequestState
      <3> QED BY <1>a, <2>0, <2>1, <3>2 DEF Callback
    <2>2. CASE ExchangeCode(r)
      <3> DEFINE k == req[r].code
      <3>1. codes' = codes \ {k} /\ codeUser' = codeUser /\ sessions' = sessions
        BY <2>2 DEF ExchangeCode, CodesAfterTake
      <3>2. CASE req'[r] = Idle
        BY <1>0, <1>a, <2>0, <3>1, <3>2
      <3>3. CASE k \in codes /\ req'[r] = [req[r] EXCEPT !.pc = "create"]
        <4>1. req'[r].pc = "create" /\ req'[r].code = k /\ k \in Codes
          BY <2>0, <3>3 DEF RequestState
        <4>2. k \notin codes' /\ sessions[k] = 0
          BY <2>0, <3>1, <3>3 DEF CodesInv
        <4>3. \A s \in Requests : s # r /\ req'[s].pc = "create" => req'[s].code # k
          BY <2>0, <3>3 DEF CodesInv
        <4> HIDE DEF k
        <4>4. \A s \in Requests : req'[s].pc = "create" => req'[s].code \notin codes' /\ sessions'[req'[s].code] = 0
          BY <2>0, <3>1, <4>1, <4>2 DEF CodesInv
        <4>5. \A s, t \in Requests :
                req'[s].pc = "create" /\ req'[t].pc = "create" /\ req'[s].code = req'[t].code => s = t
          BY <2>0, <4>1, <4>3 DEF CodesInv
        <4> QED BY <3>1, <4>4, <4>5 DEF CodesInv
      <3> QED BY <1>0, <2>2, <3>2, <3>3 DEF ExchangeCode
    <2>3. CASE CreateSession(r)
      <3> DEFINE k == req[r].code
      <3>1. /\ codes' = codes /\ codeUser' = codeUser /\ sessions' = [sessions EXCEPT ![k] = @ + 1]
            /\ req[r].pc = "create" /\ req'[r] = [req[r] EXCEPT !.pc = "answer"]
        BY <1>0, <2>3 DEF CreateSession
      <3>2. req'[r].pc = "answer" /\ k \in Codes
        BY <2>0, <3>1 DEF RequestState
      <3>3. k \notin codes /\ sessions[k] = 0 /\ codeUser[k] # None
        <4>1. req[r] # Idle
          BY <1>0, <3>1
        <4> QED BY <3>1, <4>1 DEF CodesInv, AskedInv
      <3>4. \A s \in Requests : s # r /\ req[s].pc = "create" => req[s].code # k
        BY <3>1 DEF CodesInv
      <3> HIDE DEF k
      <3>5. sessions'[k] = 1 /\ \A j \in Codes : j # k => sessions'[j] = sessions[j]
        BY <1>0, <3>1, <3>2, <3>3
      <3>6. \A s \in Requests : req'[s].pc = "create" => s # r /\ req'[s] = req[s] /\ req[s].code \in Codes
        BY <1>0, <2>0, <3>2
      <3> QED BY <3>1, <3>3, <3>4, <3>5, <3>6 DEF CodesInv
    <2>4. CASE CallbackRefused(r) \/ ExchangeFails(r) \/ CreateFails(r) \/ Deliver(r) \/ Lose(r)
      <3>1. req'[r] = Idle
        BY <1>0, <2>4 DEF CallbackRefused, ExchangeFails, CreateFails, Deliver, Lose
      <3>2. codes' \subseteq codes /\ codeUser' = codeUser /\ sessions' = sessions
        BY <2>4 DEF CallbackRefused, ExchangeFails, CreateFails, Deliver, Lose, CodesAfterTake
      <3> QED BY <1>0, <1>a, <2>0, <3>1, <3>2
    <2> QED BY <1>7, <2>1, <2>2, <2>3, <2>4 DEF Proceed
  <1>8. CASE UNCHANGED vars
    BY <1>8, <1>a DEF vars
  <1> QED BY <1>1, <1>2, <1>3, <1>4, <1>5, <1>6, <1>7, <1>8 DEF Next

-----------------------------------------------------------------------------
(* A record outlives the cookies of its flow. *)

\* Claim does not touch the records of other replicas; it keeps the young ones of
\* its own, refuses a state that has one, and makes one otherwise.
LEMMA ClaimEffect ==
    ASSUME TypeOK, NEW p \in Replicas, NEW f \in Flows, Claim(p, f)
    PROVE  /\ \A o \in Replicas : o # p => claimAge'[o] = claimAge[o] /\ cleanAge'[o] = cleanAge[o]
           /\ \A g \in Flows : claimAge[p][g] # None /\ claimAge[p][g] < ClaimTTL /\ g # f =>
                claimAge'[p][g] = claimAge[p][g]
           /\ claimAge[p][f] # None /\ claimAge[p][f] < ClaimTTL =>
                Refused(p, f) /\ claimAge'[p][f] = claimAge[p][f]
           /\ ~Refused(p, f) => claimAge'[p][f] = 0
           /\ cleanAge'[p] < ClaimTTL
           /\ \A g \in Flows : claimAge'[p][g] # None =>
                \/ claimAge'[p][g] = 0
                \/ claimAge'[p][g] = claimAge[p][g] /\ cleanAge'[p] = cleanAge[p]
                \/ claimAge'[p][g] = claimAge[p][g] /\ claimAge'[p][g] < ClaimTTL
  <1>0. /\ claimAge \in [Replicas -> [Flows -> 0 .. AgeCap \cup {None}]] /\ cleanAge \in [Replicas -> 0 .. ClaimTTL]
        /\ ClaimTTL \in Nat /\ ClaimTTL > 0 /\ AgeCap \in Nat
    BY Constants DEF TypeOK
  <1>1. ClaimsAtEntry(p) \in [Flows -> 0 .. AgeCap \cup {None}]
    BY ClaimsAtEntryType
  <1>2. \A g \in Flows : claimAge[p][g] # None /\ claimAge[p][g] < ClaimTTL => ClaimsAtEntry(p)[g] = claimAge[p][g]
    BY <1>0 DEF ClaimsAtEntry, Kept
  <1>3. \A g \in Flows : ClaimsAtEntry(p)[g] # None =>
            /\ ClaimsAtEntry(p)[g] = claimAge[p][g]
            /\ NeedsCleanup(p) => ClaimsAtEntry(p)[g] < ClaimTTL
    <2> SUFFICES ASSUME NEW g \in Flows, ClaimsAtEntry(p)[g] # None
                 PROVE  /\ ClaimsAtEntry(p)[g] = claimAge[p][g]
                        /\ NeedsCleanup(p) => ClaimsAtEntry(p)[g] < ClaimTTL
      OBVIOUS
    <2>1. CASE NeedsCleanup(p)
      <3>1. ClaimsAtEntry(p)[g] =
              IF claimAge[p][g] # None /\ claimAge[p][g] >= ClaimTTL THEN None ELSE claimAge[p][g]
        BY <2>1 DEF ClaimsAtEntry, Kept
      <3>2. claimAge[p][g] \in 0 .. AgeCap \cup {None}
        BY <1>0
      <3> QED BY <1>0, <3>1, <3>2
    <2>2. CASE ~NeedsCleanup(p)
      BY <2>2 DEF ClaimsAtEntry
    <2> QED BY <2>1, <2>2
  <1>4. claimAge'[p] = IF Refused(p, f) THEN ClaimsAtEntry(p) ELSE [ClaimsAtEntry(p) EXCEPT ![f] = 0]
    BY <1>0 DEF Claim
  <1>5. \A g \in Flows : g # f => claimAge'[p][g] = ClaimsAtEntry(p)[g]
    BY <1>1, <1>4
  <1>6. claimAge'[p][f] = IF Refused(p, f) THEN ClaimsAtEntry(p)[f] ELSE 0
    BY <1>1, <1>4
  <1>7. \A o \in Replicas : o # p => claimAge'[o] = claimAge[o] /\ cleanAge'[o] = cleanAge[o]
    BY <1>0 DEF Claim
  <1>8. cleanAge'[p] = IF NeedsCleanup(p) THEN 0 ELSE cleanAge[p]
    BY <1>0 DEF Claim
  <1>9. cleanAge'[p] < ClaimTTL
    BY <1>0, <1>8 DEF NeedsCleanup
  <1>10. claimAge[p][f] # None /\ claimAge[p][f] < ClaimTTL => Refused(p, f)
    BY <1>2 DEF Refused
  <1> HIDE DEF Refused, NeedsCleanup
  <1> QED BY <1>2, <1>3, <1>5, <1>6, <1>7, <1>8, <1>9, <1>10

LEMMA ClaimsNext == ASSUME TypeOK, CookiesInv, ClaimsInv, [Next]_vars PROVE ClaimsInv'
  <1> USE DEF bffVars, browserVars, idpVars, history
  <1>0. /\ claimAge \in [Replicas -> [Flows -> 0 .. AgeCap \cup {None}]]
        /\ claimed \in [Replicas -> [Flows -> Nat]]
        /\ cookieLeft \in [Flows -> 0 .. CookieAge] /\ starter \in [Flows -> Browsers \cup {None}]
        /\ CookieAge \in Nat /\ ClaimTTL \in Nat /\ CookieAge <= ClaimTTL /\ ClaimTTL > 0
        /\ AgeCap \in Nat /\ AgeCap = 2 * ClaimTTL
    BY Constants DEF TypeOK
  <1>a. ASSUME claimAge' = claimAge, claimed' = claimed, cookieLeft' = cookieLeft, starter' = starter
        PROVE  ClaimsInv'
    BY <1>a DEF ClaimsInv
  <1>1. CASE Tick
    <2> SUFFICES ASSUME NEW p \in Replicas, NEW f \in Flows
                 PROVE  /\ claimed[p][f] \in {0, 1}
                        /\ starter[f] = None => claimed[p][f] = 0
                        /\ claimed[p][f] = 1 /\ cookieLeft'[f] > 0 =>
                            claimAge'[p][f] # None /\ claimAge'[p][f] + cookieLeft'[f] <= ClaimTTL
      BY <1>1 DEF Tick, ClaimsInv
    <2>1. /\ claimAge'[p][f] = Older(claimAge[p][f], AgeCap)
          /\ cookieLeft'[f] = IF cookieLeft[f] = 0 THEN 0 ELSE cookieLeft[f] - 1
      BY <1>1 DEF Tick
    <2>2. claimAge[p][f] \in 0 .. AgeCap \cup {None} /\ cookieLeft[f] \in 0 .. CookieAge
      BY <1>0
    <2>3. /\ Older(claimAge[p][f], AgeCap) = None <=> claimAge[p][f] = None
          /\ claimAge[p][f] # None =>
                Older(claimAge[p][f], AgeCap) \in 0 .. AgeCap /\ Older(claimAge[p][f], AgeCap) <= claimAge[p][f] + 1
      BY <1>0, <2>2, OlderType
    <2>4. /\ claimed[p][f] \in {0, 1}
          /\ starter[f] = None => claimed[p][f] = 0
          /\ claimed[p][f] = 1 /\ cookieLeft[f] > 0 =>
              claimAge[p][f] # None /\ claimAge[p][f] + cookieLeft[f] <= ClaimTTL
      BY DEF ClaimsInv
    <2> QED BY <1>0, <2>1, <2>2, <2>3, <2>4
  <1>2. ASSUME NEW p \in Replicas, BuildOIDCDependencies(p) PROVE ClaimsInv'
    BY <1>2, <1>a DEF BuildOIDCDependencies
  <1>3. ASSUME NEW p \in Replicas, Restart(p) PROVE ClaimsInv'
    <2>1. \A f \in Flows : claimed'[p][f] = 0
      BY <1>0, <1>3 DEF Restart
    <2>2. \A o \in Replicas : o # p => claimed'[o] = claimed[o] /\ claimAge'[o] = claimAge[o]
      BY <1>0, <1>3 DEF Restart
    <2>3. cookieLeft' = cookieLeft /\ starter' = starter
      BY <1>3 DEF Restart
    <2> QED BY <2>1, <2>2, <2>3 DEF ClaimsInv
  <1>4. ASSUME NEW b \in Browsers, NEW f \in Flows, Login(b, f) PROVE ClaimsInv'
    <2>1. claimAge' = claimAge /\ claimed' = claimed
      BY <1>4 DEF Login
    <2>2. \A p \in Replicas : claimed[p][f] = 0
      BY <1>4 DEF Login, ClaimsInv
    <2>3. \A g \in Flows : g # f => cookieLeft'[g] = cookieLeft[g] /\ starter'[g] = starter[g]
      BY <1>0, <1>4 DEF Login
    <2> QED BY <2>1, <2>2, <2>3 DEF ClaimsInv
  <1>5. ASSUME NEW u \in Users, NEW f \in Flows, Authorize(u, f) \/ \E k \in Codes : IssueCode(u, f, k)
        PROVE  ClaimsInv'
    BY <1>5, <1>a DEF Authorize, IssueCode
  <1>6. ASSUME NEW r \in Requests, NEW b \in Browsers, NEW f \in Flows, NEW k \in Codes, NEW p \in Replicas,
               Send(r, b, f, k, p)
        PROVE  ClaimsInv'
    BY <1>6, <1>a DEF Send
  <1>7. ASSUME NEW r \in Requests, Callback(r) PROVE ClaimsInv'
    <2> DEFINE p == req[r].replica
               f == req[r].cookie
    <2>1. req[r] \in RequestState /\ req[r] # Idle
      BY <1>7 DEF Callback, TypeOK, Idle
    <2>2. p \in Replicas /\ f \in Flows /\ starter[f] # None
      <3>1. p \in Replicas /\ f \in Flows /\ req[r].browser \in Browsers
        BY <1>7, <2>1 DEF Callback, StateMatches, RequestState
      <3>2. f # 0 => starter[f] = req[r].browser
        BY <2>1 DEF CookiesInv
      <3>3. f # 0
        BY <3>1, Constants
      <3> QED BY <3>1, <3>2, <3>3, NoneAssumption
    <2>3. Claim(p, f) /\ cookieLeft' = cookieLeft /\ starter' = starter
      BY <1>7 DEF Callback
    <2>4. \/ claimed' = claimed
          \/ /\ ~Refused(p, f) /\ cookieLeft[f] # 0
             /\ claimed' = [claimed EXCEPT ![p] = [claimed[p] EXCEPT ![f] = claimed[p][f] + 1]]
      BY <1>7 DEF Callback
    <2>d. ~Refused(p, f) /\ cookieLeft[f] # 0 => claimed' = [claimed EXCEPT ![p] = [claimed[p] EXCEPT ![f] = claimed[p][f] + 1]]
      BY <1>7 DEF Callback
    <2> HIDE DEF p, f
    <2>5. /\ \A o \in Replicas : o # p => claimAge'[o] = claimAge[o]
          /\ \A g \in Flows : claimAge[p][g] # None /\ claimAge[p][g] < ClaimTTL /\ g # f =>
                claimAge'[p][g] = claimAge[p][g]
          /\ claimAge[p][f] # None /\ claimAge[p][f] < ClaimTTL =>
                Refused(p, f) /\ claimAge'[p][f] = claimAge[p][f]
          /\ ~Refused(p, f) => claimAge'[p][f] = 0
      BY <2>2, <2>3, ClaimEffect
    <2>6. \A o \in Replicas, g \in Flows : o # p \/ g # f => claimed'[o][g] = claimed[o][g]
      BY <1>0, <2>2, <2>4
    <2> SUFFICES ASSUME NEW o \in Replicas, NEW g \in Flows
                 PROVE  /\ claimed'[o][g] \in {0, 1}
                        /\ starter[g] = None => claimed'[o][g] = 0
                        /\ claimed'[o][g] = 1 /\ cookieLeft[g] > 0 =>
                            claimAge'[o][g] # None /\ claimAge'[o][g] + cookieLeft[g] <= ClaimTTL
      BY <2>3 DEF ClaimsInv
    <2>7. cookieLeft[g] \in 0 .. CookieAge /\ claimAge[o][g] \in 0 .. AgeCap \cup {None}
      BY <1>0
    <2>8. /\ claimed[o][g] \in {0, 1}
          /\ starter[g] = None => claimed[o][g] = 0
          /\ claimed[o][g] = 1 /\ cookieLeft[g] > 0 =>
              claimAge[o][g] # None /\ claimAge[o][g] + cookieLeft[g] <= ClaimTTL
      BY DEF ClaimsInv
    <2>9. CASE o # p
      BY <2>5, <2>6, <2>8, <2>9
    <2>10. CASE o = p /\ g # f
      <3>1. claimed[o][g] = 1 /\ cookieLeft[g] > 0 => claimAge[o][g] < ClaimTTL
        BY <1>0, <2>7, <2>8
      <3> QED BY <2>5, <2>6, <2>8, <2>10, <3>1
    <2>11. CASE o = p /\ g = f
      <3>1. CASE Refused(p, f)
        <4>1. claimed' = claimed
          BY <2>4, <3>1
        <4>2. claimed[o][g] = 1 /\ cookieLeft[g] > 0 => claimAge[o][g] < ClaimTTL
          BY <1>0, <2>7, <2>8
        <4> QED BY <2>5, <2>8, <2>11, <4>1, <4>2
      <3>2. CASE ~Refused(p, f) /\ cookieLeft[f] = 0
        <4>1. claimed' = claimed
          BY <2>4, <3>2
        <4> QED BY <2>8, <2>11, <3>2, <4>1
      <3>3. CASE ~Refused(p, f) /\ cookieLeft[f] # 0
        <4>1. claimed[p][f] = 0
          BY <1>0, <2>5, <2>7, <2>8, <2>11, <3>3
        <4>2. claimed'[p][f] = 1
          BY <1>0, <2>2, <2>d, <3>3, <4>1
        <4>3. claimAge'[p][f] = 0 /\ 0 # None
          BY <2>5, <3>3, NoneAssumption
        <4> QED BY <1>0, <2>2, <2>7, <2>11, <4>2, <4>3
      <3> QED BY <3>1, <3>2, <3>3
    <2> QED BY <2>9, <2>10, <2>11
  <1>8. ASSUME NEW r \in Requests, Proceed(r), ~Callback(r) PROVE ClaimsInv'
    BY <1>8, <1>a DEF Proceed, CallbackRefused, ExchangeCode, ExchangeFails, CreateSession, CreateFails, Deliver, Lose
  <1>9. CASE UNCHANGED vars
    BY <1>9, <1>a DEF vars
  <1> QED BY <1>1, <1>2, <1>3, <1>4, <1>5, <1>6, <1>7, <1>8, <1>9 DEF Next
-----------------------------------------------------------------------------
(* Records are dropped in time. *)

LEMMA RecordsNext == ASSUME TypeOK, CookiesInv, RecordsInv, [Next]_vars PROVE RecordsInv'
  <1> USE DEF bffVars, browserVars, idpVars, history
  <1>0. /\ claimAge \in [Replicas -> [Flows -> 0 .. AgeCap \cup {None}]] /\ cleanAge \in [Replicas -> 0 .. ClaimTTL]
        /\ phase \in [Replicas -> Phases] /\ req \in [Requests -> RequestState \cup {Idle}]
        /\ ClaimTTL \in Nat /\ ClaimTTL > 0 /\ AgeCap \in Nat /\ AgeCap = 2 * ClaimTTL
        /\ \A q \in RequestState : q.replica \in Replicas /\ q # Idle
    BY Constants DEF TypeOK, RequestState, Idle
  <1>a. ASSUME claimAge' = claimAge, cleanAge' = cleanAge, phase' = phase,
               \A r \in Requests : req'[r] # Idle => Up(req'[r].replica)
        PROVE  RecordsInv'
    BY <1>a DEF RecordsInv, Up
  <1>1. CASE Tick
    <2>1. phase' = phase /\ req' = req
      BY <1>1 DEF Tick
    <2> SUFFICES ASSUME NEW p \in Replicas, NEW f \in Flows, claimAge'[p][f] # None
                 PROVE  Up(p) /\ (cleanAge'[p] < ClaimTTL => claimAge'[p][f] < ClaimTTL + cleanAge'[p])
      BY <2>1 DEF RecordsInv, Up
    <2>2. claimAge'[p][f] = Older(claimAge[p][f], AgeCap)
      BY <1>1 DEF Tick
    <2>3. claimAge[p][f] \in 0 .. AgeCap \cup {None} /\ cleanAge[p] \in 0 .. ClaimTTL
      BY <1>0
    <2>4. /\ claimAge[p][f] # None /\ Older(claimAge[p][f], AgeCap) \in 0 .. AgeCap
          /\ Older(claimAge[p][f], AgeCap) <= claimAge[p][f] + 1
      BY <1>0, <2>2, <2>3, OlderType
    <2>5. Up(p) /\ (cleanAge[p] < ClaimTTL => claimAge[p][f] < ClaimTTL + cleanAge[p])
      BY <2>4 DEF RecordsInv
    <2>6. cleanAge'[p] = IF cleanAge[p] = ClaimTTL THEN ClaimTTL ELSE cleanAge[p] + 1
      <3>1. cleanAge'[p] = Older(cleanAge[p], ClaimTTL)
        BY <1>1, <2>5 DEF Tick
      <3> QED BY <2>3, <3>1, NoneAssumption DEF Older
    <2> QED BY <1>0, <2>2, <2>3, <2>4, <2>5, <2>6
  <1>2. ASSUME NEW p \in Replicas, BuildOIDCDependencies(p) PROVE RecordsInv'
    <2>1. phase[p].is = "starting" /\ ~Up(p) /\ claimAge' = claimAge /\ req' = req
      BY <1>2 DEF BuildOIDCDependencies, Up
    <2>2. \A o \in Replicas : o # p => phase'[o] = phase[o] /\ cleanAge'[o] = cleanAge[o]
      BY <1>0, <1>2 DEF BuildOIDCDependencies
    <2>3. /\ \A r \in Requests : req[r] # Idle => req[r].replica \in Replicas /\ req[r].replica # p
          /\ \A f \in Flows : claimAge[p][f] = None
      BY <1>0, <2>1 DEF RecordsInv
    <2> QED BY <2>1, <2>2, <2>3 DEF RecordsInv, Up
  <1>3. ASSUME NEW p \in Replicas, Restart(p) PROVE RecordsInv'
    <2>1. \A f \in Flows : claimAge'[p][f] = None
      BY <1>0, <1>3 DEF Restart
    <2>2. \A o \in Replicas : o # p => phase'[o] = phase[o] /\ cleanAge'[o] = cleanAge[o] /\ claimAge'[o] = claimAge[o]
      BY <1>0, <1>3 DEF Restart
    <2>3. \A r \in Requests : req'[r] # Idle => req'[r] = req[r] /\ req[r].replica \in Replicas /\ req[r].replica # p
      BY <1>0, <1>3 DEF Restart
    <2> QED BY <2>1, <2>2, <2>3 DEF RecordsInv, Up
  <1>4. ASSUME NEW b \in Browsers, NEW f \in Flows, Login(b, f) PROVE RecordsInv'
    BY <1>4, <1>a DEF Login, RecordsInv
  <1>5. ASSUME NEW u \in Users, NEW f \in Flows, Authorize(u, f) \/ \E k \in Codes : IssueCode(u, f, k)
        PROVE  RecordsInv'
    BY <1>5, <1>a DEF Authorize, IssueCode, RecordsInv
  <1>6. ASSUME NEW r \in Requests, NEW b \in Browsers, NEW f \in Flows, NEW k \in Codes, NEW p \in Replicas,
               Send(r, b, f, k, p)
        PROVE  RecordsInv'
    <2>1. Up(p) /\ req'[r].replica = p /\ \A s \in Requests : s # r => req'[s] = req[s]
      BY <1>0, <1>6 DEF Send
    <2>2. claimAge' = claimAge /\ cleanAge' = cleanAge /\ phase' = phase
      BY <1>6 DEF Send
    <2>3. \A s \in Requests : req'[s] # Idle => Up(req'[s].replica)
      BY <2>1 DEF RecordsInv
    <2> QED BY <1>a, <2>2, <2>3
  <1>7. ASSUME NEW r \in Requests, Proceed(r) PROVE RecordsInv'
    <2>1. phase' = phase /\ \A s \in Requests : req'[s] # Idle => Up(req'[s].replica)
      <3>1. ProceedShape(r)
        BY <1>7, ProceedHasShape
      <3>2. req[r] # Idle
        BY <1>0, <3>1 DEF ProceedShape
      <3> QED BY <3>1, <3>2 DEF ProceedShape, RecordsInv
    <2>2. CASE Callback(r)
      <3> DEFINE p == req[r].replica
                 f == req[r].cookie
      <3>1. req[r] \in RequestState
        BY <1>7, ProceedHasShape DEF ProceedShape
      <3>2. p \in Replicas /\ f \in Flows /\ Up(p)
        BY <1>0, <2>2, <3>1 DEF Callback, StateMatches, RequestState, RecordsInv
      <3>3. Claim(p, f)
        BY <2>2 DEF Callback
      <3> HIDE DEF p, f
      <3>4. /\ \A o \in Replicas : o # p => claimAge'[o] = claimAge[o] /\ cleanAge'[o] = cleanAge[o]
            /\ \A g \in Flows : claimAge'[p][g] # None =>
                  \/ claimAge'[p][g] = 0
                  \/ claimAge'[p][g] = claimAge[p][g] /\ cleanAge'[p] = cleanAge[p]
                  \/ claimAge'[p][g] = claimAge[p][g] /\ claimAge'[p][g] < ClaimTTL
        BY <3>2, <3>3, ClaimEffect
      <3>5. cleanAge'[p] \in 0 .. ClaimTTL
        BY <3>2, TypeNext DEF TypeOK
      <3> SUFFICES ASSUME NEW o \in Replicas, NEW g \in Flows, claimAge'[o][g] # None
                   PROVE  Up(o) /\ (cleanAge'[o] < ClaimTTL => claimAge'[o][g] < ClaimTTL + cleanAge'[o])
        BY <2>1 DEF RecordsInv, Up
      <3>6. CASE o # p
        BY <3>4, <3>6 DEF RecordsInv
      <3>7. CASE o = p
        <4>1. claimAge[p][g] # None => (cleanAge[p] < ClaimTTL => claimAge[p][g] < ClaimTTL + cleanAge[p])
          BY <3>2 DEF RecordsInv
        <4>2. claimAge[p][g] \in 0 .. AgeCap \cup {None}
          BY <1>0, <3>2
        <4>3. claimAge'[p][g] # None
          BY <3>7
        <4>4. CASE claimAge'[p][g] = 0
          BY <1>0, <3>2, <3>5, <3>7, <4>4
        <4>5. CASE claimAge'[p][g] = claimAge[p][g] /\ cleanAge'[p] = cleanAge[p]
          BY <3>2, <3>7, <4>1, <4>3, <4>5
        <4>6. CASE claimAge'[p][g] = claimAge[p][g] /\ claimAge'[p][g] < ClaimTTL
          BY <1>0, <3>2, <3>5, <3>7, <4>2, <4>3, <4>6
        <4> QED BY <3>4, <4>3, <4>4, <4>5, <4>6
      <3> QED BY <3>6, <3>7
    <2>3. CASE ~Callback(r)
      <3>1. claimAge' = claimAge /\ cleanAge' = cleanAge
        BY <1>7, <2>3 DEF Proceed, CallbackRefused, ExchangeCode, ExchangeFails, CreateSession, CreateFails, Deliver, Lose
      <3> QED BY <1>a, <2>1, <3>1
    <2> QED BY <2>2, <2>3
  <1>8. CASE UNCHANGED vars
    BY <1>8, <1>a DEF vars, RecordsInv
  <1> QED BY <1>1, <1>2, <1>3, <1>4, <1>5, <1>6, <1>7, <1>8 DEF Next

-----------------------------------------------------------------------------
(* The inductive invariant and what follows from it. *)

IInv == TypeOK /\ CookiesInv /\ AskedInv /\ CodesInv /\ ClaimsInv /\ RecordsInv

LEMMA IInvInit == Init => IInv
  <1> SUFFICES ASSUME Init PROVE IInv OBVIOUS
  <1>1. TypeOK
    BY TypeInit
  <1>2. CookiesInv
    BY DEF Init, CookiesInv
  <1>3. AskedInv /\ CodesInv
    BY DEF Init, AskedInv, CodesInv, Idle
  <1>4. ClaimsInv
    BY DEF Init, ClaimsInv
  <1>5. RecordsInv
    BY DEF Init, RecordsInv
  <1> QED BY <1>1, <1>2, <1>3, <1>4, <1>5 DEF IInv

LEMMA IInvNext == ASSUME IInv, [Next]_vars PROVE IInv'
  BY TypeNext, CookiesNext, AskedNext, CodesNext, ClaimsNext, RecordsNext DEF IInv

LEMMA Invariance == Spec => []IInv
  <1>1. IInv /\ [Next]_vars => IInv'
    <2> SUFFICES ASSUME IInv, [Next]_vars PROVE IInv' OBVIOUS
    <2> QED BY IInvNext
  <1> QED BY IInvInit, <1>1, PTL DEF Spec

\* While the cookies of a state live, a replica that does not restart starts one
\* token exchange for it: the records of stateClaims outlive the cookies
\* (state_claims.go:25-43, auth.go:59-60, 83-87).
THEOREM ClaimedOnce == Spec => []StateClaimedOnce
  <1>1. IInv => StateClaimedOnce
    BY DEF IInv, ClaimsInv, StateClaimedOnce
  <1> QED BY Invariance, <1>1, PTL

\* A code buys at most one session, whichever replicas the callback reaches and
\* however often they restart (auth.go:89-112).
THEOREM SessionPerCode == Spec => []OneSessionPerCode
  <1>1. IInv => OneSessionPerCode
    BY DEF IInv, CodesInv, OneSessionPerCode
  <1> QED BY Invariance, <1>1, PTL

\* A browser is signed in only as a user who opened the IdP's page of the login
\* this browser started, whichever state and code the callback's URL puts together
\* and however many users, browsers and logins there are (auth.go:69-96).
THEOREM NobodyElseSignsIn == Spec => []SignedInAsAsked
  <1>1. IInv => SignedInAsAsked
    <2> SUFFICES ASSUME IInv, NEW r \in Requests, req[r].pc \in {"create", "answer"}
                 PROVE  /\ starter[req[r].cookie] = req[r].browser
                        /\ codeUser[req[r].code] \in asked[req[r].cookie]
      BY DEF SignedInAsAsked
    <2>1. req[r] # Idle
      BY DEF Idle
    <2> QED BY <2>1 DEF IInv, CookiesInv, AskedInv
  <1> QED BY Invariance, <1>1, PTL

\* A callback leaves no claim older than two lifetimes behind, although the map is
\* cleaned up at most once per lifetime (state_claims.go:31-33, 45-52).
THEOREM Forgotten == Spec => ClaimsAreForgotten
  <1> DEFINE A == \A p \in Replicas :
                    claimAge'[p] # claimAge[p] /\ (\E r \in Requests : req[r] # req'[r]) =>
                        \A f \in Flows : claimAge'[p][f] # None => claimAge'[p][f] < 2 * ClaimTTL
  <1>1. ASSUME IInv, [Next]_vars PROVE A
    <2> USE DEF bffVars, browserVars, idpVars, history
    <2> SUFFICES ASSUME NEW p \in Replicas, claimAge'[p] # claimAge[p], NEW r \in Requests, req[r] # req'[r],
                        NEW f \in Flows, claimAge'[p][f] # None
                 PROVE  claimAge'[p][f] < 2 * ClaimTTL
      OBVIOUS
    <2>0. IInv'
      BY <1>1, IInvNext
    <2>1. claimAge \in [Replicas -> [Flows -> 0 .. AgeCap \cup {None}]] /\ TypeOK /\ TypeOK'
      BY <1>1, <2>0 DEF IInv, TypeOK
    <2>2. ASSUME NEW o \in Replicas, Restart(o) PROVE FALSE
      BY <2>1, <2>2 DEF Restart
    <2>3. ASSUME NEW s \in Requests, Callback(s) PROVE claimAge'[p][f] < 2 * ClaimTTL
      <3> DEFINE o == req[s].replica
                 g == req[s].cookie
      <3>1. req[s] \in RequestState
        BY <2>1, <2>3, ProceedHasShape DEF ProceedShape, Proceed
      <3>2. o \in Replicas /\ g \in Flows
        BY <2>3, <3>1 DEF Callback, StateMatches, RequestState
      <3>3. Claim(o, g)
        BY <2>3 DEF Callback
      <3> HIDE DEF o, g
      <3>4. (\A u \in Replicas : u # o => claimAge'[u] = claimAge[u]) /\ cleanAge'[o] < ClaimTTL
        BY <2>1, <3>2, <3>3, ClaimEffect
      <3>5. p = o
        BY <3>4
      <3>6. claimAge'[p][f] < ClaimTTL + cleanAge'[p]
        BY <2>0, <3>4, <3>5 DEF IInv, RecordsInv
      <3>7. claimAge'[p][f] \in 0 .. AgeCap /\ cleanAge'[p] \in 0 .. ClaimTTL /\ AgeCap \in Nat /\ ClaimTTL \in Nat
        BY <2>1, Constants DEF TypeOK
      <3> QED BY <3>4, <3>5, <3>6, <3>7
    <2>4. (\E s \in Requests : Callback(s)) \/ (\E o \in Replicas : Restart(o))
      <3>1. Next
        BY <1>1 DEF vars
      <3> QED BY <3>1 DEF Next, Tick, BuildOIDCDependencies, Login, Authorize, IssueCode, Send, Proceed,
                          CallbackRefused, ExchangeCode, ExchangeFails, CreateSession, CreateFails, Deliver, Lose
    <2> QED BY <2>2, <2>3, <2>4
  <1>2. IInv /\ [Next]_vars => [A]_vars
    BY <1>1
  <1> QED BY Invariance, <1>2, PTL DEF Spec, ClaimsAreForgotten
=============================================================================
