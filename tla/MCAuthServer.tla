----------------------------- MODULE MCAuthServer -----------------------------
(***************************************************************************)
(* Instances of AuthServer for TLC.                                         *)
(***************************************************************************)
EXTENDS AuthServer, TLC

CONSTANTS u1, u2, d1, a1, m1, x1, x2, v1, v2, p1, p2

\* Every redirect URI has a host of its own.
MCHostOf == [u \in URIs |-> u]

Ask(client, uri, chal) == [client |-> client, uri |-> uri, chal |-> chal]

\* One confidential client that registers itself.
ConfidentialRegistrations == {[method |-> "dynamic", auth |-> "secret", uris |-> {x1}]}
ConfidentialRequests == {Ask(d1, x1, NoChallenge)}

\* The same client, sending also a redirect URI it never registered.  A login on a
\* consumed request adds the empty client_id to it.
MixedRegistrations == {[method |-> "dynamic", auth |-> "secret", uris |-> {x1}]}
MixedRequests == {Ask(d1, x1, NoChallenge), Ask(d1, x2, NoChallenge)}

\* A metadata document that changes its mind about authentication, and requests
\* of which the public one is refused, next to a client registered from traffic.
MetadataDocuments ==
    {[method |-> "metadata", auth |-> a, uris |-> {x1}] : a \in {"none", "private_key_jwt"}}
MetadataRequests == {Ask(m1, x1, v1), Ask(m1, x1, NoChallenge), Ask(a1, x1, NoChallenge)}

\* A public client that uses PKCE with a fresh verifier per request.
PKCERequests == {Ask(a1, x1, v1), Ask(a1, x1, v2)}

\* Consent forms in which `sub` was removed, or names any of the users.
ForeignSubs == {None} \cup {[sector |-> x1, sub |-> u] : u \in Users}

Nothing == {}
MCSymmetry == Permutations(Handlers) \cup Permutations(Users)
=============================================================================
