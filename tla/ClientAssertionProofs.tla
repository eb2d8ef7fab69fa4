------------------------- MODULE ClientAssertionProofs -------------------------
(***************************************************************************)
(* Proofs about ClientAssertion, for every lifetime, leeway, number of      *)
(* assertions and number of concurrent requests.                            *)
(***************************************************************************)
EXTENDS ClientAssertion, TLAPS

\* Times only grow less, down to their floor.
LEMMA LaterType ==
    ASSUME NEW t \in Int, NEW floor \in Int, floor <= t
    PROVE  /\ Later(t, floor) \in Int /\ floor <= Later(t, floor) /\ Later(t, floor) <= t
           /\ Later(t, floor) = (IF t = floor THEN t ELSE t - 1)
  BY NoneAssumption DEF Later

LEMMA ExpiryType ==
    ASSUME TypeOK, NEW a \in Assertions, exp[a] # None
    PROVE  /\ exp[a] \in Int /\ Past \in Int /\ Past <= exp[a] /\ exp[a] <= MaxLifetime + 1
           /\ Past = -1 - Leeway /\ Leeway \in Nat
  <1>1. exp[a] \in Expiries /\ Leeway \in Nat /\ MaxLifetime \in Nat
    BY TimesAssumption DEF TypeOK
  <1> QED BY <1>1 DEF Expiries, Past

LEMMA TypeInit == Init => TypeOK
  BY DEF Init, TypeOK

LEMMA TypeSign ==
    ASSUME TypeOK, NEW a \in Assertions, NEW life \in 1 .. MaxLifetime + 1, Sign(a, life)
    PROVE  TypeOK'
  <1>1. life \in Expiries
    BY TimesAssumption DEF Expiries, Past
  <1> QED BY <1>1 DEF Sign, TypeOK

LEMMA TypeTick == ASSUME TypeOK, Tick PROVE TypeOK'
  <1>1. ASSUME NEW a \in Assertions PROVE Later(exp[a], Past) \in Expiries \cup {None}
    <2>1. CASE exp[a] = None
      BY <2>1 DEF Later
    <2>2. CASE exp[a] # None
      <3>1. exp[a] \in Int /\ Past \in Int /\ Past <= exp[a] /\ exp[a] <= MaxLifetime + 1
        BY <2>2, TimesAssumption DEF TypeOK, Expiries, Past
      <3> QED BY <3>1, LaterType, TimesAssumption DEF Expiries
    <2> QED BY <2>1, <2>2
  <1>2. ASSUME NEW a \in Assertions PROVE Later(seen[a], -1) \in -1 .. MaxLifetime + Leeway \cup {None}
    <2>1. CASE seen[a] = None
      BY <2>1 DEF Later
    <2>2. CASE seen[a] # None
      <3>1. seen[a] \in Int /\ -1 <= seen[a] /\ seen[a] <= MaxLifetime + Leeway
        BY <2>2, TimesAssumption DEF TypeOK
      <3> QED BY <3>1, LaterType, TimesAssumption
    <2> QED BY <2>1, <2>2
  <1> QED BY <1>1, <1>2 DEF Tick, TypeOK

LEMMA PrunedType == ASSUME TypeOK PROVE Pruned \in [Assertions -> -1 .. MaxLifetime + Leeway \cup {None}]
  BY DEF TypeOK, Pruned

\* Every step keeps the invariant.
LEMMA InvNext ==
    ASSUME InductiveInv, [Next]_vars
    PROVE  InductiveInv'
  <1>0. TypeOK /\ CheckedInv /\ RecordInv
    BY DEF InductiveInv
  <1>1. CASE \E a \in Assertions, life \in 1 .. MaxLifetime + 1 : Sign(a, life)
    <2>1. PICK a \in Assertions, life \in 1 .. MaxLifetime + 1 : Sign(a, life)
      BY <1>1
    <2>2. TypeOK'
      BY <1>0, <2>1, TypeSign
    <2>3. \A b \in Assertions : exp[b] # None => exp'[b] = exp[b]
      BY <1>0, <2>1 DEF Sign, TypeOK
    <2>4. CheckedInv'
      BY <1>0, <2>1, <2>3 DEF Sign, CheckedInv, TypeOK
    <2>5. RecordInv'
      <3> SUFFICES ASSUME NEW b \in Assertions
                   PROVE  /\ accepted[b] = 0 => seen[b] = None
                          /\ accepted[b] > 0 => exp'[b] # None /\ (exp'[b] = Past \/ seen[b] = exp'[b] + Leeway)
                          /\ accepted[b] > 1 => SlowConsume /\ exp'[b] = Past
        BY <2>1 DEF Sign, RecordInv
      <3>1. accepted[b] \in Nat
        BY <1>0 DEF TypeOK
      <3> QED BY <1>0, <2>3, <3>1 DEF RecordInv
    <2> QED BY <2>2, <2>4, <2>5 DEF InductiveInv
  <1>2. CASE Tick
    <2>1. TypeOK'
      BY <1>0, <1>2, TypeTick
    <2>2. CheckedInv'
      <3> SUFFICES ASSUME NEW p \in Handlers, handlers[p] # None
                   PROVE  /\ exp'[handlers[p]] # None
                          /\ exp'[handlers[p]] <= MaxLifetime
                          /\ SlowConsume \/ exp'[handlers[p]] + Leeway > 0
        BY <1>2 DEF Tick, CheckedInv
      <3>1. SlowConsume
        BY <1>2 DEF Tick
      <3>2. handlers[p] \in Assertions /\ exp[handlers[p]] # None /\ exp[handlers[p]] <= MaxLifetime
        BY <1>0 DEF TypeOK, CheckedInv
      <3>3. exp[handlers[p]] \in Int /\ Past \in Int /\ Past <= exp[handlers[p]]
        BY <1>0, <3>2, ExpiryType
      <3>4. exp'[handlers[p]] = Later(exp[handlers[p]], Past)
        BY <1>2, <3>2 DEF Tick
      <3>5. exp'[handlers[p]] \in Int /\ exp'[handlers[p]] <= exp[handlers[p]]
        BY <3>3, <3>4, LaterType
      <3> QED BY <3>1, <3>2, <3>3, <3>5, TimesAssumption, NoneAssumption
    <2>3. RecordInv'
      <3> SUFFICES ASSUME NEW a \in Assertions
                   PROVE  /\ accepted[a] = 0 => seen'[a] = None
                          /\ accepted[a] > 0 => exp'[a] # None /\ (exp'[a] = Past \/ seen'[a] = exp'[a] + Leeway)
                          /\ accepted[a] > 1 => SlowConsume /\ exp'[a] = Past
        BY <1>2 DEF Tick, RecordInv
      <3>0. accepted[a] \in Nat
        BY <1>0 DEF TypeOK
      <3>1. exp'[a] = Later(exp[a], Past) /\ seen'[a] = Later(seen[a], -1)
        BY <1>2 DEF Tick
      <3>2. CASE accepted[a] = 0
        BY <1>0, <3>1, <3>2 DEF RecordInv, Later
      <3>3. CASE accepted[a] > 0
        <4>1. exp[a] # None /\ (exp[a] = Past \/ seen[a] = exp[a] + Leeway)
          BY <1>0, <3>3 DEF RecordInv
        <4>2. exp[a] \in Int /\ Past \in Int /\ Past <= exp[a] /\ Leeway \in Int /\ Past = -1 - Leeway
          BY <1>0, <4>1, ExpiryType
        <4>3. exp'[a] = (IF exp[a] = Past THEN exp[a] ELSE exp[a] - 1)
          BY <3>1, <4>2, LaterType
        <4>4. exp[a] # Past => seen[a] \in Int /\ -1 <= seen[a] /\ seen[a] # -1
          BY <4>1, <4>2
        <4>5. exp[a] # Past => seen'[a] = seen[a] - 1
          BY <3>1, <4>4, LaterType
        <4>6. accepted[a] > 1 => SlowConsume /\ exp[a] = Past
          BY <1>0 DEF RecordInv
        <4> QED BY <3>3, <4>1, <4>2, <4>3, <4>5, <4>6, NoneAssumption
      <3> QED BY <3>0, <3>2, <3>3
    <2> QED BY <2>1, <2>2, <2>3 DEF InductiveInv
  <1>3. CASE \E p \in Handlers, a \in Assertions : verifyPrivateKeyJWT(p, a)
    <2>1. PICK p \in Handlers, a \in Assertions : verifyPrivateKeyJWT(p, a)
      BY <1>3
    <2>2. TypeOK'
      BY <1>0, <2>1 DEF verifyPrivateKeyJWT, TypeOK
    <2>3. CheckedInv'
      BY <1>0, <2>1 DEF verifyPrivateKeyJWT, CheckedInv, TypeOK, NotExpired, NotTooFarAhead
    <2>4. RecordInv'
      BY <1>0, <2>1 DEF verifyPrivateKeyJWT, RecordInv
    <2> QED BY <2>2, <2>3, <2>4 DEF InductiveInv
  <1>4. CASE \E p \in Handlers : consumePrivateKeyJWTJTI(p)
    <2>1. PICK p \in Handlers : consumePrivateKeyJWTJTI(p)
      BY <1>4
    <2>2. PICK a \in Assertions : a = handlers[p]
      BY <1>0, <2>1 DEF consumePrivateKeyJWTJTI, TypeOK
    <2>3. /\ exp[a] \in Int /\ Past \in Int /\ Past <= exp[a] /\ Past = -1 - Leeway
          /\ exp[a] <= MaxLifetime /\ Leeway \in Nat /\ MaxLifetime \in Nat
      BY <1>0, <2>1, <2>2, TimesAssumption DEF consumePrivateKeyJWTJTI, CheckedInv, TypeOK, Expiries, Past
    <2>4. exp' = exp /\ \A q \in Handlers : handlers'[q] = handlers[q] \/ handlers'[q] = None
      BY <1>0, <2>1 DEF consumePrivateKeyJWTJTI, TypeOK
    <2>5. CheckedInv'
      BY <1>0, <2>4 DEF CheckedInv
    <2>6. ASSUME NEW b \in Assertions
          PROVE  /\ accepted[b] = 0 => Pruned[b] = None
                 /\ accepted[b] > 0 => exp[b] # None /\ (exp[b] = Past \/ Pruned[b] = exp[b] + Leeway)
                 /\ accepted[b] > 1 => SlowConsume /\ exp[b] = Past
      <3>0. accepted[b] \in Nat
        BY <1>0 DEF TypeOK
      <3>1. CASE accepted[b] = 0
        BY <1>0, <3>1 DEF RecordInv, Pruned
      <3>2. CASE accepted[b] > 0
        <4>1. exp[b] # None /\ (exp[b] = Past \/ seen[b] = exp[b] + Leeway)
          BY <1>0, <3>2 DEF RecordInv
        <4>2. exp[b] \in Int /\ Past <= exp[b] /\ Past = -1 - Leeway
          BY <1>0, <4>1, ExpiryType
        <4>3. exp[b] # Past => ~(seen[b] < 0)
          BY <2>3, <4>1, <4>2
        <4>4. accepted[b] > 1 => SlowConsume /\ exp[b] = Past
          BY <1>0 DEF RecordInv
        <4> QED BY <3>2, <4>1, <4>3, <4>4 DEF Pruned
      <3> QED BY <3>0, <3>1, <3>2
    <2>7. CASE Pruned[a] # None
      <3>1. seen' = Pruned /\ accepted' = accepted /\ handlers' = [handlers EXCEPT ![p] = None]
        BY <2>1, <2>2, <2>7 DEF consumePrivateKeyJWTJTI
      <3>2. TypeOK'
        BY <1>0, <2>4, <3>1, PrunedType DEF TypeOK
      <3>3. RecordInv'
        BY <1>0, <2>4, <2>6, <3>1 DEF RecordInv
      <3> QED BY <2>5, <3>2, <3>3 DEF InductiveInv
    <2>8. CASE Pruned[a] = None
      <3>1. /\ seen' = [Pruned EXCEPT ![a] = exp[a] + Leeway] /\ accepted' = [accepted EXCEPT ![a] = @ + 1]
            /\ handlers' = [handlers EXCEPT ![p] = None]
        BY <2>1, <2>2, <2>8 DEF consumePrivateKeyJWTJTI, RecordedExpiry
      <3>2. accepted[a] \in Nat /\ (accepted[a] > 0 => SlowConsume /\ exp[a] = Past)
        <4>1. exp[a] + Leeway # None
          BY <2>3, NoneAssumption
        <4>2. accepted[a] > 0 => exp[a] = Past
          BY <2>6, <2>8, <4>1
        <4>3. SlowConsume \/ exp[a] # Past
          BY <1>0, <2>1, <2>2, <2>3 DEF CheckedInv, consumePrivateKeyJWTJTI
        <4>4. accepted[a] \in Nat
          BY <1>0 DEF TypeOK
        <4> QED BY <4>2, <4>3, <4>4
      <3>3. exp[a] + Leeway \in -1 .. MaxLifetime + Leeway
        BY <2>3
      <3>4. TypeOK'
        BY <1>0, <2>4, <3>1, <3>3, PrunedType DEF TypeOK
      <3>5. RecordInv'
        <4> SUFFICES ASSUME NEW b \in Assertions
                     PROVE  /\ accepted'[b] = 0 => seen'[b] = None
                            /\ accepted'[b] > 0 => exp[b] # None /\ (exp[b] = Past \/ seen'[b] = exp[b] + Leeway)
                            /\ accepted'[b] > 1 => SlowConsume /\ exp[b] = Past
          BY <2>4 DEF RecordInv
        <4>1. CASE b = a
          <5>1. accepted'[a] = accepted[a] + 1 /\ seen'[a] = exp[a] + Leeway /\ exp[a] # None
            BY <1>0, <2>3, <3>1, NoneAssumption, PrunedType DEF TypeOK
          <5> QED BY <3>2, <4>1, <5>1
        <4>2. CASE b # a
          <5>1. accepted'[b] = accepted[b] /\ seen'[b] = Pruned[b]
            BY <1>0, <3>1, <4>2, PrunedType DEF TypeOK
          <5> QED BY <2>6, <5>1
        <4> QED BY <4>1, <4>2
      <3> QED BY <2>5, <3>4, <3>5 DEF InductiveInv
    <2> QED BY <2>7, <2>8
  <1>5. CASE UNCHANGED vars
    BY <1>0, <1>5 DEF vars, InductiveInv, TypeOK, CheckedInv, RecordInv
  <1> QED BY <1>1, <1>2, <1>3, <1>4, <1>5 DEF Next

LEMMA Invariance == Spec => []InductiveInv
  <1>1. Init => InductiveInv
    <2> SUFFICES ASSUME Init PROVE InductiveInv OBVIOUS
    <2>1. TypeOK
      BY TypeInit
    <2> QED BY <2>1 DEF Init, InductiveInv, CheckedInv, RecordInv
  <1>2. InductiveInv /\ [Next]_vars => InductiveInv'
    <2> SUFFICES ASSUME InductiveInv, [Next]_vars PROVE InductiveInv' OBVIOUS
    <2> QED BY InvNext
  <1> QED BY <1>1, <1>2, PTL DEF Spec

\* The replay cache never commits to a record for longer than the bound on
\* lifetimes plus the leeway (private_key_jwt.go:90-96 and 126).
THEOREM TypeCorrect == Spec => []TypeOK
  <1>1. InductiveInv => TypeOK
    BY DEF InductiveInv
  <1> QED BY <1>1, Invariance, PTL

\* For every lifetime, leeway and number of requests, the parser and the replay
\* cache agree to the tick on when an assertion dies: it authenticates the
\* client once, and a second time at most through a request that stalled between
\* the check and the lock until the assertion was dead.
THEOREM NoReplay == Spec => []AssertionAcceptedOnce
  <1>1. InductiveInv => AssertionAcceptedOnce
    <2> SUFFICES ASSUME InductiveInv, NEW a \in Assertions
                 PROVE  accepted[a] <= 1 \/ (SlowConsume /\ exp[a] + Leeway < 0)
      BY DEF AssertionAcceptedOnce
    <2>1. accepted[a] \in Nat /\ (accepted[a] > 1 => SlowConsume /\ exp[a] = Past)
      BY DEF InductiveInv, RecordInv, TypeOK
    <2> QED BY <2>1, TimesAssumption DEF Past
  <1> QED BY <1>1, Invariance, PTL
=============================================================================
