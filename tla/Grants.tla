-------------------------------- MODULE Grants --------------------------------
(***************************************************************************)
(* What the authorization server promises about grants, seen by a client:   *)
(* a user's consent to a client is a grant, named by the csid in the        *)
(* tokens.  A code or a refresh token leads to the grant it was handed out  *)
(* for while the browser session the grant belongs to lasts; tokens are     *)
(* issued only by a request that found its grant active when it began.      *)
(***************************************************************************)
CONSTANTS
    GrantIDs,   \* SessionIDs
    Cookies,    \* browser sessions
    ClientIDs,
    Subs,       \* users
    Codes,
    Requests,   \* token requests that may be served at the same time
    NoGrant, None

VARIABLES
    grants,     \* what each grant is for, None if there is no such grant yet
    active,     \* the grants that can be found
    codes,      \* the session and client each code was issued for
    open,       \* the codes that can still be exchanged
    working,    \* the grant each token request works for
    issued      \* the tokens that are out

grantVars == <<grants, active, codes, open, working, issued>>

GInit ==
    /\ grants = [n \in GrantIDs |-> None]
    /\ active = {}
    /\ codes = [k \in Codes |-> None]
    /\ open = {}
    /\ working = [p \in Requests |-> NoGrant]
    /\ issued = {}

\* User `sub` consents to a client that has no grant in the user's session, the
\* only one the user has.
Consent(n, cookie, client, sub) ==
    /\ grants[n] = None
    /\ \A m \in active : grants[m].sub = sub <=> grants[m].cookie = cookie
    /\ \A m \in active : grants[m].cookie = cookie => grants[m].client # client
    /\ grants' = [grants EXCEPT ![n] = [cookie |-> cookie, client |-> client, sub |-> sub]]
    /\ active' = active \cup {n}
    /\ UNCHANGED <<codes, open, working, issued>>

\* Logout: every grant of the session ends.
End(cookie) ==
    /\ active' = {n \in active : grants[n].cookie # cookie}
    /\ UNCHANGED <<grants, codes, open, working, issued>>

\* A code for a client and a session, whether or not the session still lasts.
IssueCode(k, cookie, client) ==
    /\ codes[k] = None
    /\ codes' = [codes EXCEPT ![k] = [cookie |-> cookie, client |-> client]]
    /\ open' = open \cup {k}
    /\ UNCHANGED <<grants, active, working, issued>>

\* A token request begins to work for an active grant.
Begin(p, n) ==
    /\ n \in active
    /\ working[p] = NoGrant
    /\ working' = [working EXCEPT ![p] = n]
    /\ UNCHANGED <<grants, active, codes, issued>>

\* ... found by a code, which is spent ...
BeginWithCode(p, n, k) ==
    /\ Begin(p, n)
    /\ k \in open
    /\ grants[n].cookie = codes[k].cookie /\ grants[n].client = codes[k].client
    /\ open' = open \ {k}

\* ... or by a token.
BeginWithToken(p, n) ==
    /\ Begin(p, n)
    /\ \E t \in issued : t.grant = n
    /\ UNCHANGED open

\* A code that leads nowhere is spent as well.
SpendCode(k) ==
    /\ open' = open \ {k}
    /\ UNCHANGED <<grants, active, codes, working, issued>>

\* A token request is answered with an error ...
Refuse(p) ==
    /\ working[p] # NoGrant
    /\ working' = [working EXCEPT ![p] = NoGrant]
    /\ UNCHANGED <<grants, active, codes, open, issued>>

\* ... or with tokens, for the client and the user of the grant.
IssueTokens(p) ==
    LET n == working[p] IN
    /\ n # NoGrant
    /\ issued' = issued \cup {[grant |-> n, client |-> grants[n].client, sub |-> grants[n].sub]}
    /\ working' = [working EXCEPT ![p] = NoGrant]
    /\ UNCHANGED <<grants, active, codes, open>>

GNext ==
    \/ \E n \in GrantIDs, cookie \in Cookies, client \in ClientIDs, sub \in Subs :
         Consent(n, cookie, client, sub)
    \/ \E cookie \in Cookies : End(cookie)
    \/ \E k \in Codes : \/ \E cookie \in Cookies, client \in ClientIDs : IssueCode(k, cookie, client)
                        \/ SpendCode(k)
    \/ \E p \in Requests :
         \/ \E n \in GrantIDs : \/ BeginWithToken(p, n)
                                \/ \E k \in Codes : BeginWithCode(p, n, k)
         \/ IssueTokens(p)
         \/ Refuse(p)

GSpec == GInit /\ [][GNext]_grantVars

-----------------------------------------------------------------------------
\* The grant was given, its session has ended, and no request that found it
\* before is still at work.
Revoked(n) == grants[n] # None /\ n \notin active /\ \A p \in Requests : working[p] # n

\* A revoked grant stays revoked, and no token is issued for it any more.
RevokedForGood ==
    [][\A n \in GrantIDs :
        Revoked(n) => Revoked(n)' /\ \A t \in issued' \ issued : t.grant # n]_grantVars
=============================================================================
