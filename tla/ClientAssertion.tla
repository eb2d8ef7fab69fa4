---------------------------- MODULE ClientAssertion ----------------------------
(***************************************************************************)
(* private_key_jwt assertions and their replay cache: verifyPrivateKeyJWT   *)
(* and consumePrivateKeyJWTJTI of src/idp-auth-server/private_key_jwt.go,   *)
(* for one client (records of different clients have different keys).       *)
(*                                                                          *)
(* An assertion is named by its jti.  It is checked without the lock, then  *)
(* its jti is consumed under it: two steps.  Instants are kept as the time  *)
(* left until them, a negative number once they have passed.                *)
(***************************************************************************)
EXTENDS Integers

CONSTANTS
    Assertions,   \* the assertions the client may sign
    Handlers,     \* slots for token requests served concurrently
    MaxLifetime,  \* privateKeyJWTMaxLifetime
    Leeway,       \* privateKeyJWTLeeway
    SlowConsume,  \* TRUE iff time may pass between the check and the lock
    None

Past == -1 - Leeway      \* an exp so long ago that the leeway is over, too
Expiries == Past .. MaxLifetime + 1

ASSUME TimesAssumption ==
    /\ MaxLifetime \in Nat \ {0} /\ Leeway \in Nat
    /\ SlowConsume \in BOOLEAN
ASSUME NoneAssumption == None \notin Int /\ None \notin Assertions

VARIABLES
    exp,       \* time left until the exp of each signed assertion, None if not signed
    seen,      \* server.privateKeyJWTJTIs: time left until a record may be pruned
    handlers,  \* the assertion each request is about to consume, None if idle
    accepted   \* history: how often each assertion authenticated the client

vars == <<exp, seen, handlers, accepted>>

Init ==
    /\ exp = [a \in Assertions |-> None]
    /\ seen = [a \in Assertions |-> None]
    /\ handlers = [p \in Handlers |-> None]
    /\ accepted = [a \in Assertions |-> 0]

-----------------------------------------------------------------------------
\* The client signs an assertion, with an exp that may be too far ahead.
Sign(a, life) ==
    /\ exp[a] = None
    /\ exp' = [exp EXCEPT ![a] = life]
    /\ UNCHANGED <<seen, handlers, accepted>>

Later(t, floor) == IF t = None \/ t = floor THEN t ELSE t - 1

Tick ==
    /\ SlowConsume \/ \A p \in Handlers : handlers[p] = None
    /\ exp' = [a \in Assertions |-> Later(exp[a], Past)]
    /\ seen' = [a \in Assertions |-> Later(seen[a], -1)]
    /\ UNCHANGED <<handlers, accepted>>

\* The parser: now is before exp plus leeway.
NotExpired(a) == exp[a] + Leeway > 0

\* Mutant: no limit on how far ahead an assertion may expire.
NotTooFarAhead_Unlimited(a) == TRUE

\* exp is not after now plus privateKeyJWTMaxLifetime.
NotTooFarAhead(a) == exp[a] <= MaxLifetime

\* verifyPrivateKeyJWT up to the lock; the other claims are right.
verifyPrivateKeyJWT(p, a) ==
    /\ handlers[p] = None
    /\ exp[a] # None
    /\ NotExpired(a) /\ NotTooFarAhead(a)
    /\ handlers' = [handlers EXCEPT ![p] = a]
    /\ UNCHANGED <<exp, seen, accepted>>

\* Mutant: a record is dropped at its time, not after it.
Pruned_AtExpiry == [a \in Assertions |-> IF seen[a] # None /\ seen[a] <= 0 THEN None ELSE seen[a]]

\* Records whose time has passed are dropped: now is after them.
Pruned == [a \in Assertions |-> IF seen[a] # None /\ seen[a] < 0 THEN None ELSE seen[a]]

RecordedExpiry(a) == exp[a] + Leeway

\* consumePrivateKeyJWTJTI, in one critical section.
consumePrivateKeyJWTJTI(p) ==
    LET a == handlers[p] IN
    /\ a # None
    /\ handlers' = [handlers EXCEPT ![p] = None]
    /\ IF Pruned[a] # None
       THEN seen' = Pruned /\ UNCHANGED accepted
       ELSE /\ seen' = [Pruned EXCEPT ![a] = RecordedExpiry(a)]
            /\ accepted' = [accepted EXCEPT ![a] = @ + 1]
    /\ UNCHANGED exp

Next ==
    \/ Tick
    \/ \E a \in Assertions, life \in 1 .. MaxLifetime + 1 : Sign(a, life)
    \/ \E p \in Handlers, a \in Assertions : verifyPrivateKeyJWT(p, a)
    \/ \E p \in Handlers : consumePrivateKeyJWTJTI(p)

Spec == Init /\ [][Next]_vars

-----------------------------------------------------------------------------
(* Properties. *)

\* Every variable holds values of the type the code declares for it.  A record
\* is never kept longer than the bound on lifetimes allows: the client cannot
\* make the server commit memory for longer (private_key_jwt.go:20-23).
TypeOK ==
    /\ exp \in [Assertions -> Expiries \cup {None}]
    /\ seen \in [Assertions -> -1 .. MaxLifetime + Leeway \cup {None}]
    /\ handlers \in [Handlers -> Assertions \cup {None}]
    /\ accepted \in [Assertions -> Nat]

\* main.go:152-153 "so that an assertion cannot be replayed": an assertion
\* authenticates the client at most once, also when it is presented again in
\* the last moments of its leeway, while its record is being pruned.  Only a
\* request that was checked in time and then stalled at the lock until after exp
\* plus leeway can be a second one (private_key_jwt.go:62-73 and 117-126).
AssertionAcceptedOnce ==
    \A a \in Assertions : accepted[a] <= 1 \/ (SlowConsume /\ exp[a] + Leeway < 0)

-----------------------------------------------------------------------------
(* The inductive invariant: the record of an accepted assertion is there for *)
(* as long as the parser still lets the assertion through.                   *)

\* What a request is about to consume was let through, just now if requests do
\* not stall.
CheckedInv ==
    \A p \in Handlers :
        handlers[p] # None => /\ exp[handlers[p]] # None
                              /\ exp[handlers[p]] <= MaxLifetime
                              /\ SlowConsume \/ exp[handlers[p]] + Leeway > 0

RecordInv ==
    \A a \in Assertions :
        /\ accepted[a] = 0 => seen[a] = None
        /\ accepted[a] > 0 => exp[a] # None /\ (exp[a] = Past \/ seen[a] = exp[a] + Leeway)
        /\ accepted[a] > 1 => SlowConsume /\ exp[a] = Past

InductiveInv == TypeOK /\ CheckedInv /\ RecordInv
=============================================================================
