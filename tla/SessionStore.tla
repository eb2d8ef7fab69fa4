----------------------------- MODULE SessionStore -----------------------------
(***************************************************************************)
(* What the BFF's session stores promise their users, the Store interface   *)
(* of src/bff/internal/session/store.go seen from outside: a token names    *)
(* one session, belongs to one login for good, and once it stops working    *)
(* it never works again.  A login that nobody holds any more, neither as a  *)
(* working token nor in a request being served, is over for good.           *)
(***************************************************************************)
EXTENDS Naturals, TLAPS

CONSTANTS
    Tokens,     \* what Save may return
    Logins,     \* logins, numbered as they are completed
    Requests,   \* requests that may be served at the same time
    NoLogin

VARIABLES
    owner,      \* the login each token was issued for, NoLogin if not issued
    live,       \* the tokens that load
    view,       \* the login whose session each request works with
    opened      \* how many logins there have been

storeVars == <<owner, live, view, opened>>

SSInit ==
    /\ owner = [t \in Tokens |-> NoLogin]
    /\ live = {}
    /\ view = [r \in Requests |-> NoLogin]
    /\ opened = 0

\* A new token for login l.
Issue(t, l) ==
    /\ owner[t] = NoLogin
    /\ owner' = [owner EXCEPT ![t] = l]
    /\ live' = live \cup {t}

\* A login is completed.
Open(t) ==
    /\ opened + 1 \in Logins
    /\ Issue(t, opened + 1)
    /\ opened' = opened + 1
    /\ UNCHANGED view

\* A request that works with a session saves it again.
Renew(r, t) ==
    /\ view[r] # NoLogin
    /\ Issue(t, view[r])
    /\ UNCHANGED <<view, opened>>

\* A request gets hold of a session by a token that works.
Load(r, t) ==
    /\ t \in live
    /\ view' = [view EXCEPT ![r] = owner[t]]
    /\ UNCHANGED <<owner, live, opened>>

\* Tokens stop working and requests end: deletion, expiry, a restart.
Drop ==
    /\ live' \subseteq live
    /\ \A r \in Requests : view'[r] \in {view[r], NoLogin}
    /\ view' \in [Requests -> Logins \cup {NoLogin}]
    /\ UNCHANGED <<owner, opened>>

SSNext ==
    \/ \E t \in Tokens :
        \/ Open(t)
        \/ \E r \in Requests : Renew(r, t) \/ Load(r, t)
    \/ Drop

SSSpec == SSInit /\ [][SSNext]_storeVars

-----------------------------------------------------------------------------
\* Nobody holds login l.
Over(l) == l <= opened /\ (\A t \in live : owner[t] # l) /\ (\A r \in Requests : view[r] # l)

\* A login that is over stays over: no request in flight, no late write and no
\* later login brings its sessions back.
OverForGood == [][\A l \in Logins : Over(l) => Over(l)']_storeVars

-----------------------------------------------------------------------------
SSType ==
    /\ owner \in [Tokens -> Logins \cup {NoLogin}]
    /\ live \subseteq Tokens
    /\ view \in [Requests -> Logins \cup {NoLogin}]
    /\ opened \in Nat

LEMMA SSTypeNext == ASSUME SSType, [SSNext]_storeVars PROVE SSType'
  <1>1. ASSUME NEW t \in Tokens, Open(t) PROVE SSType'
    BY <1>1 DEF Open, Issue, SSType
  <1>2. ASSUME NEW t \in Tokens, NEW r \in Requests, Renew(r, t) PROVE SSType'
    BY <1>2 DEF Renew, Issue, SSType
  <1>3. ASSUME NEW t \in Tokens, NEW r \in Requests, Load(r, t) PROVE SSType'
    BY <1>3 DEF Load, SSType
  <1>4. CASE Drop
    BY <1>4 DEF Drop, SSType
  <1>5. CASE UNCHANGED storeVars
    BY <1>5 DEF storeVars, SSType
  <1> QED BY <1>1, <1>2, <1>3, <1>4, <1>5 DEF SSNext

LEMMA OverStep ==
    ASSUME Logins \subseteq Nat, NoLogin \notin Logins, SSType, [SSNext]_storeVars,
           NEW l \in Logins, Over(l)
    PROVE  Over(l)'
  <1>1. ASSUME NEW t \in Tokens, Open(t) PROVE Over(l)'
    <2>1. l # opened + 1 /\ l <= opened'
      BY <1>1 DEF Open, Over, SSType
    <2> QED BY <1>1, <2>1 DEF Open, Issue, Over, SSType
  <1>2. ASSUME NEW t \in Tokens, NEW r \in Requests, Renew(r, t) PROVE Over(l)'
    BY <1>2 DEF Renew, Issue, Over, SSType
  <1>3. ASSUME NEW t \in Tokens, NEW r \in Requests, Load(r, t) PROVE Over(l)'
    BY <1>3 DEF Load, Over, SSType
  <1>4. CASE Drop
    BY <1>4 DEF Drop, Over, SSType
  <1>5. CASE UNCHANGED storeVars
    BY <1>5 DEF storeVars, Over
  <1> QED BY <1>1, <1>2, <1>3, <1>4, <1>5 DEF SSNext

\* What is promised of single steps is enough: a login nobody holds is over for
\* good, in every store that behaves like this one.
THEOREM OverIsForGood ==
    ASSUME Logins \subseteq Nat, NoLogin \notin Logins
    PROVE  SSSpec => OverForGood
  <1>1. SSInit => SSType
    BY DEF SSInit, SSType
  <1>2. SSType /\ [SSNext]_storeVars => SSType'
    <2> SUFFICES ASSUME SSType, [SSNext]_storeVars PROVE SSType' OBVIOUS
    <2> QED BY SSTypeNext
  <1>3. SSType /\ [SSNext]_storeVars => [\A l \in Logins : Over(l) => Over(l)']_storeVars
    <2> SUFFICES ASSUME SSType, [SSNext]_storeVars PROVE \A l \in Logins : Over(l) => Over(l)' OBVIOUS
    <2> QED BY OverStep
  <1> QED BY <1>1, <1>2, <1>3, PTL DEF SSSpec, OverForGood
=============================================================================
