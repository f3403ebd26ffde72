------------------------- MODULE ToolVerifierProofs -------------------------
(***************************************************************************)
(* What ToolVerifier::verify promises, for any number of requests, tokens  *)
(* and parties: a token that was paid for is granted access, to its payer, *)
(* and with a replay store that survives crashes it is granted once.       *)
(***************************************************************************)
EXTENDS ToolVerifier, TLAPS

USE VerifierAssumption

\* What checks 1 to 4 have found out about a request, for good: the chain only
\* grows.
Paid(r) ==
    LET token == request[r].token
    IN  /\ token.id \in Final /\ chain[token.id] = token
        /\ token.tool = ThisTool
        /\ token.amount >= MinPrice
        /\ request[r].signer = token.invoker

PassedWasPaid ==
    \A r \in Requests :
        request[r].step \in {"consumed", "expiry", "claim", "ok"} => Paid(r)

\* Every request that was granted access is in the replay store.
GrantedIsUsed == \A r \in granted : request[r].token.id \in used

VerifierInv ==
    /\ TypeOK
    /\ PassedWasPaid
    /\ Persistent => GrantedIsUsed /\ GrantedOnce
    /\ RejectionsClaimNothing

-----------------------------------------------------------------------------
(* Types. *)

\* A request that has come has a token and a signer.
LEMMA RequestTypes ==
    ASSUME TypeOK, NEW r \in Requests, request[r].step # "not yet"
    PROVE  /\ request[r] \in Request
           /\ request[r].step \in Steps
           /\ request[r].token \in Token /\ request[r].signer \in Parties
           /\ request[r].token.id \in TokenIds /\ request[r].token.amount \in Nat
  <1>1. request[r] \in Request \cup {NotYet}
    BY DEF TypeOK
  <1>2. NotYet.step = "not yet"
    BY DEF NotYet
  <1>3. request[r] \in Request
    BY <1>1, <1>2
  <1>4. request[r].token \in Token
    BY <1>3 DEF Request
  <1>5. request[r].token.id \in TokenIds /\ request[r].token.amount \in Amounts
    BY <1>4 DEF Token
  <1> QED
    BY <1>3, <1>4, <1>5 DEF Request

\* The decision about one request changes its step and nothing else.
LEMMA DecideTypes ==
    ASSUME TypeOK, NEW r \in Requests, request[r].step # "not yet",
           NEW check, NEW next \in Steps, Decide(r, check, next)
    PROVE  /\ request' \in [Requests -> Request \cup {NotYet}]
           /\ request'[r].step = IF check THEN next ELSE "rejected"
           /\ request'[r].token = request[r].token
           /\ request'[r].signer = request[r].signer
           /\ \A q \in Requests : q # r => request'[q] = request[q]
  <1>1. request[r] \in Request
    BY RequestTypes
  <1> DEFINE step == IF check THEN next ELSE "rejected"
  <1>2. request' = [request EXCEPT ![r].step = step]
    BY DEF Decide
  <1>3. step \in Steps
    BY DEF Steps
  <1> HIDE DEF step
  <1>4. request \in [Requests -> Request \cup {NotYet}]
    BY DEF TypeOK
  <1>5. request'[r] = [request[r] EXCEPT !.step = step]
    BY <1>2, <1>4
  <1>6. \A q \in Requests : q # r => request'[q] = request[q]
    BY <1>2, <1>4
  <1>7. /\ request'[r] \in Request
        /\ request'[r].step = step
        /\ request'[r].token = request[r].token
        /\ request'[r].signer = request[r].signer
    BY <1>1, <1>3, <1>5 DEF Request
  <1>8. request' = [q \in Requests |-> request'[q]]
    BY <1>2, <1>4
  <1>9. \A q \in Requests : request'[q] \in Request \cup {NotYet}
    BY <1>4, <1>6, <1>7
  <1>10. request' \in [Requests -> Request \cup {NotYet}]
    BY <1>8, <1>9
  <1> QED
    BY <1>6, <1>7, <1>10 DEF step

-----------------------------------------------------------------------------
(* The invariant. *)

LEMMA InitEstablishes == Init => VerifierInv
  <1> SUFFICES ASSUME Init PROVE VerifierInv
    OBVIOUS
  <1>1. \A r \in Requests : request[r].step = "not yet"
    BY DEF Init, NotYet
  <1>2. Final = {} /\ chain \in [Final -> Token]
    BY DEF Init, Final
  <1>3. request \in [Requests -> Request \cup {NotYet}]
    BY DEF Init
  <1>4. granted = {} /\ used = {} /\ consumed = {} /\ now = 0
    BY DEF Init
  <1>5. granted = {r \in Requests : request[r].step = "ok"}
    BY <1>1, <1>4
  <1>6. now \in 0..MaxTime
    BY <1>4
  <1>7. TypeOK
    BY <1>2, <1>3, <1>4, <1>5, <1>6 DEF TypeOK
  <1> QED
    BY <1>1, <1>4, <1>7
    DEF VerifierInv, PassedWasPaid, GrantedIsUsed, GrantedOnce,
        RejectionsClaimNothing

\* A check that grants nothing keeps the invariant, when a request that passes
\* it is known to be paid for.
LEMMA CheckPreserves ==
    ASSUME VerifierInv, NEW r \in Requests, NEW check,
           NEW next \in {"consumed", "expiry", "claim"},
           request[r].step \in {"chain", "consumed", "expiry"},
           Decide(r, check, next), check => Paid(r),
           UNCHANGED <<now, chain, consumed, used, granted>>
    PROVE  VerifierInv'
  <1>1. TypeOK
    BY DEF VerifierInv
  <1>2. next \in Steps /\ next # "ok"
    BY DEF Steps
  <1>3. /\ request' \in [Requests -> Request \cup {NotYet}]
        /\ request'[r].step = IF check THEN next ELSE "rejected"
        /\ request'[r].token = request[r].token
        /\ request'[r].signer = request[r].signer
        /\ \A q \in Requests : q # r => request'[q] = request[q]
    BY <1>1, <1>2, DecideTypes
  <1>4. request'[r].step # "ok" /\ request[r].step # "ok"
    BY <1>2, <1>3
  <1>5. granted' = {q \in Requests : request'[q].step = "ok"}
    <2>1. granted = {q \in Requests : request[q].step = "ok"}
      BY <1>1 DEF TypeOK
    <2>2. \A q \in Requests : request'[q].step = "ok" <=> request[q].step = "ok"
      BY <1>3, <1>4
    <2> QED BY <2>1, <2>2
  <1>6. TypeOK'
    BY <1>1, <1>3, <1>5 DEF TypeOK, Final
  <1>7. \A q \in Requests : request'[q].token = request[q].token
                            /\ request'[q].signer = request[q].signer
    BY <1>3
  <1>8. granted \subseteq Requests
    BY <1>1 DEF TypeOK
  <1>9. PassedWasPaid'
    <2> SUFFICES ASSUME NEW q \in Requests,
                        request'[q].step \in {"consumed", "expiry", "claim", "ok"}
                 PROVE  Paid(q)'
      BY DEF PassedWasPaid
    <2>1. Paid(q)
      <3>1. CASE q = r
        <4>1. check
          BY <3>1, <1>3
        <4> QED BY <3>1, <4>1
      <3>2. CASE q # r
        BY <3>2, <1>3 DEF VerifierInv, PassedWasPaid
      <3> QED BY <3>1, <3>2
    <2> QED
      BY <2>1, <1>7 DEF Paid, Final
  <1>10. (Persistent => GrantedIsUsed /\ GrantedOnce)'
    BY <1>7, <1>8 DEF VerifierInv, GrantedIsUsed, GrantedOnce
  <1>11. RejectionsClaimNothing'
    BY <1>7, <1>8 DEF VerifierInv, RejectionsClaimNothing
  <1> QED
    BY <1>6, <1>9, <1>10, <1>11 DEF VerifierInv

\* The claim: the first one is granted and marks the store in the same step.
LEMMA ClaimPreserves ==
    ASSUME VerifierInv, NEW r \in Requests, Claim(r)
    PROVE  VerifierInv'
  <1> DEFINE id == request[r].token.id
  <1>1. TypeOK /\ request[r].step = "claim"
    BY DEF VerifierInv, Claim
  <1>2. /\ Decide(r, id \notin used, "ok")
        /\ used' = used \cup {id}
        /\ granted' = IF id \notin used THEN granted \cup {r} ELSE granted
        /\ UNCHANGED <<now, chain, consumed>>
    BY DEF Claim, TryUse
  <1>3. /\ request' \in [Requests -> Request \cup {NotYet}]
        /\ request'[r].step = IF id \notin used THEN "ok" ELSE "rejected"
        /\ request'[r].token = request[r].token
        /\ request'[r].signer = request[r].signer
        /\ \A q \in Requests : q # r => request'[q] = request[q]
    <2>1. "ok" \in Steps
      BY DEF Steps
    <2> QED BY <1>1, <1>2, <2>1, DecideTypes
  <1>4. \A q \in Requests : request'[q].token = request[q].token
                            /\ request'[q].signer = request[q].signer
    BY <1>3
  <1>5. id \in TokenIds
    BY <1>1, RequestTypes
  <1>6. granted = {q \in Requests : request[q].step = "ok"} /\ r \notin granted
    BY <1>1 DEF TypeOK
  <1>7. granted' = {q \in Requests : request'[q].step = "ok"}
    <2>1. CASE id \notin used
      BY <2>1, <1>2, <1>3, <1>6
    <2>2. CASE id \in used
      BY <2>2, <1>1, <1>2, <1>3, <1>6
    <2> QED BY <2>1, <2>2
  <1>8. TypeOK'
    BY <1>1, <1>2, <1>3, <1>5, <1>7 DEF TypeOK, Final
  <1>9. PassedWasPaid'
    <2> SUFFICES ASSUME NEW q \in Requests,
                        request'[q].step \in {"consumed", "expiry", "claim", "ok"}
                 PROVE  Paid(q)'
      BY DEF PassedWasPaid
    <2>1. Paid(q)
      BY <1>1, <1>3 DEF VerifierInv, PassedWasPaid
    <2> QED
      BY <2>1, <1>2, <1>4 DEF Paid, Final
  <1>10. granted' \subseteq Requests /\ granted \subseteq Requests
    BY <1>6, <1>7
  <1>11. ASSUME Persistent PROVE (GrantedIsUsed /\ GrantedOnce)'
    <2>1. GrantedIsUsed /\ GrantedOnce
      BY <1>11 DEF VerifierInv
    <2>2. GrantedIsUsed'
      BY <2>1, <1>2, <1>4, <1>10 DEF GrantedIsUsed
    <2>3. GrantedOnce'
      <3> SUFFICES ASSUME NEW p \in granted', NEW q \in granted',
                          request'[p].token.id = request'[q].token.id
                   PROVE  p = q
        BY DEF GrantedOnce
      <3>1. request[p].token.id = request[q].token.id
        BY <1>4, <1>10
      <3>2. CASE id \in used
        BY <3>1, <3>2, <2>1, <1>2 DEF GrantedOnce
      <3>3. CASE id \notin used
        <4>1. \A g \in granted : request[g].token.id # id
          BY <3>3, <2>1 DEF GrantedIsUsed
        <4> QED
          BY <3>1, <3>3, <4>1, <2>1, <1>2 DEF GrantedOnce
      <3> QED BY <3>2, <3>3
    <2> QED BY <2>2, <2>3
  <1>12. RejectionsClaimNothing'
    <2> SUFFICES ASSUME NEW i \in used'
                 PROVE  \E q \in granted' : request'[q].token.id = i
      BY DEF RejectionsClaimNothing
    <2>1. CASE i \in used
      <3>1. PICK q \in granted : request[q].token.id = i
        BY <2>1 DEF VerifierInv, RejectionsClaimNothing
      <3> QED BY <3>1, <1>2, <1>4, <1>10
    <2>2. CASE i \notin used
      <3>1. i = id /\ r \in granted'
        BY <2>2, <1>2
      <3> QED BY <3>1, <1>4
    <2> QED BY <2>1, <2>2
  <1>13. (Persistent => GrantedIsUsed /\ GrantedOnce)'
    BY <1>11
  <1> QED
    BY <1>8, <1>9, <1>12, <1>13 DEF VerifierInv

\* A step of the chain, the clock or the endpoint that leaves the tokens, the
\* proofs and the decisions of the requests alone.
LEMMA OtherPreserves ==
    ASSUME VerifierInv, TypeOK',
           \A i \in Final : i \in Final' /\ chain'[i] = chain[i],
           \A q \in Requests :
               request'[q].step \in {"consumed", "expiry", "claim", "ok"} =>
                   request'[q] = request[q],
           \A q \in granted : request'[q] = request[q],
           granted' = granted,
           used' = used \/ (~Persistent /\ used' = {})
    PROVE  VerifierInv'
  <1>1. granted \subseteq Requests
    BY DEF VerifierInv, TypeOK
  <1>2. PassedWasPaid'
    <2> SUFFICES ASSUME NEW q \in Requests,
                        request'[q].step \in {"consumed", "expiry", "claim", "ok"}
                 PROVE  Paid(q)'
      BY DEF PassedWasPaid
    <2>1. Paid(q) /\ request'[q] = request[q]
      BY DEF VerifierInv, PassedWasPaid
    <2> QED
      BY <2>1 DEF Paid
  <1>3. (Persistent => GrantedIsUsed /\ GrantedOnce)'
    BY <1>1 DEF VerifierInv, GrantedIsUsed, GrantedOnce
  <1>4. RejectionsClaimNothing'
    BY <1>1 DEF VerifierInv, RejectionsClaimNothing
  <1> QED
    BY <1>2, <1>3, <1>4 DEF VerifierInv

\* Every step keeps the invariant.
LEMMA NextPreserves == VerifierInv /\ [Next]_vars => VerifierInv'
  <1> SUFFICES ASSUME VerifierInv, [Next]_vars PROVE VerifierInv'
    OBVIOUS
  <1>1. TypeOK
    BY DEF VerifierInv
  <1>2. granted = {q \in Requests : request[q].step = "ok"}
    BY <1>1 DEF TypeOK
  <1>3. CASE Tick
    <2>1. TypeOK'
      BY <1>1, <1>3 DEF TypeOK, Tick, Final
    <2> QED
      BY <2>1, <1>2, <1>3, OtherPreserves DEF Tick, Final
  <1>4. CASE Finalize
    <2>1. PICK token \in Token :
                 /\ token.id \notin Final
                 /\ chain' = [i \in Final \cup {token.id} |->
                                IF i = token.id THEN token ELSE chain[i]]
      BY <1>4 DEF Finalize
    <2>2. /\ now' = now /\ consumed' = consumed /\ used' = used
          /\ request' = request /\ granted' = granted
      BY <1>4 DEF Finalize
    <2>3. token.id \in TokenIds
      BY DEF Token
    <2>4. Final' = Final \cup {token.id}
      BY <2>1 DEF Final
    <2>5. /\ \A i \in Final : chain'[i] = chain[i]
          /\ chain'[token.id] = token
      BY <2>1
    <2>6. /\ chain \in [Final -> Token] /\ Final \subseteq TokenIds
          /\ \A i \in Final : chain[i].id = i
      BY <1>1 DEF TypeOK
    <2>7. /\ chain' \in [Final' -> Token] /\ Final' \subseteq TokenIds
          /\ \A i \in Final' : chain'[i].id = i
      BY <2>1, <2>3, <2>4, <2>5, <2>6
    <2>8. TypeOK'
      BY <1>1, <2>2, <2>7 DEF TypeOK
    <2> QED
      BY <2>2, <2>4, <2>5, <2>8, OtherPreserves
  <1>5. CASE Consume
    <2>1. TypeOK'
      BY <1>1, <1>5 DEF TypeOK, Consume, Final
    <2> QED
      BY <2>1, <1>2, <1>5, OtherPreserves DEF Consume, Final
  <1>6. CASE Crash
    <2>1. \A q \in Requests :
            request'[q] = IF request[q].step \in {"not yet", "ok"} THEN request[q]
                          ELSE [request[q] EXCEPT !.step = "rejected"]
      BY <1>6 DEF Crash
    <2>2. \A q \in Requests : request[q].step \in {"not yet", "ok"} =>
            request'[q] = request[q] /\ request'[q] \in Request \cup {NotYet}
      BY <1>1, <2>1 DEF TypeOK
    <2>3. \A q \in Requests : request[q].step \notin {"not yet", "ok"} =>
            request'[q].step = "rejected" /\ request'[q] \in Request
      <3> SUFFICES ASSUME NEW q \in Requests, request[q].step \notin {"not yet", "ok"}
                   PROVE  request'[q].step = "rejected" /\ request'[q] \in Request
        OBVIOUS
      <3>1. request[q] \in Request
        BY <1>1, RequestTypes
      <3>2. request'[q] = [request[q] EXCEPT !.step = "rejected"]
        BY <2>1
      <3> QED
        BY <3>1, <3>2 DEF Request, Steps
    <2>4. request' \in [Requests -> Request \cup {NotYet}]
      BY <1>6, <2>2, <2>3 DEF Crash
    <2>5. /\ now' = now /\ chain' = chain /\ consumed' = consumed
          /\ granted' = granted /\ used' = IF Persistent THEN used ELSE {}
      BY <1>6 DEF Crash
    <2>6. granted' = {q \in Requests : request'[q].step = "ok"}
      BY <1>2, <2>2, <2>3, <2>5
    <2>7. TypeOK'
      BY <1>1, <2>4, <2>5, <2>6 DEF TypeOK, Final
    <2>8. \A q \in Requests :
            request'[q].step \in {"consumed", "expiry", "claim", "ok"} =>
                request'[q] = request[q]
      BY <2>2, <2>3
    <2>9. \A q \in granted : request'[q] = request[q]
      BY <1>2, <2>2
    <2> QED
      BY <2>5, <2>7, <2>8, <2>9, OtherPreserves DEF Final
  <1>7. ASSUME NEW r \in Requests, Submit(r) PROVE VerifierInv'
    <2>1. PICK token \in Token, signer \in Parties :
                 request' = [request EXCEPT ![r] = [step |-> "chain",
                                token |-> token, signer |-> signer]]
      BY <1>7 DEF Submit
    <2>2. /\ now' = now /\ chain' = chain /\ consumed' = consumed
          /\ granted' = granted /\ used' = used
      BY <1>7 DEF Submit
    <2>3. request[r].step = "not yet"
      <3>1. request[r] = NotYet
        BY <1>7 DEF Submit
      <3>2. NotYet.step = "not yet"
        BY DEF NotYet
      <3> QED
        BY <3>1, <3>2
    <2>4. request \in [Requests -> Request \cup {NotYet}]
      BY <1>1 DEF TypeOK
    <2>5. /\ request'[r].step = "chain" /\ request'[r] \in Request
          /\ \A q \in Requests : q # r => request'[q] = request[q]
      BY <2>1, <2>4 DEF Request, Steps
    <2>6. request' \in [Requests -> Request \cup {NotYet}]
      BY <2>1, <2>4, <2>5
    <2>7. granted' = {q \in Requests : request'[q].step = "ok"}
      BY <1>2, <2>2, <2>3, <2>5
    <2>8. TypeOK'
      BY <1>1, <2>2, <2>6, <2>7 DEF TypeOK, Final
    <2>9. \A q \in granted : request'[q] = request[q]
      BY <1>2, <2>3, <2>5
    <2> QED
      BY <2>2, <2>5, <2>8, <2>9, OtherPreserves DEF Final
  <1>8. ASSUME NEW r \in Requests, CheckChain(r) PROVE VerifierInv'
    <2> DEFINE token == request[r].token
               check == /\ ChainMatches(token)
                        /\ token.tool = ThisTool
                        /\ ProofValid(token, request[r].signer)
                        /\ MinPrice > 0 => token.amount >= MinPrice
    <2>1. /\ request[r].step = "chain" /\ Decide(r, check, "consumed")
          /\ UNCHANGED <<now, chain, consumed, used, granted>>
      BY <1>8 DEF CheckChain
    <2>2. check => Paid(r)
      <3>1. token.amount \in Nat
        BY <1>1, <2>1, RequestTypes
      <3> QED
        BY <3>1 DEF Paid, ChainMatches, ProofValid
    <2> HIDE DEF check
    <2> QED
      BY <2>1, <2>2, CheckPreserves
  <1>9. ASSUME NEW r \in Requests, CheckConsumed(r) PROVE VerifierInv'
    <2>1. Paid(r)
      BY <1>9 DEF CheckConsumed, VerifierInv, PassedWasPaid
    <2> QED
      BY <1>9, <2>1, CheckPreserves DEF CheckConsumed
  <1>10. ASSUME NEW r \in Requests, CheckExpiry(r) PROVE VerifierInv'
    <2>1. Paid(r)
      BY <1>10 DEF CheckExpiry, VerifierInv, PassedWasPaid
    <2> DEFINE check == MaxAge > 0 => now - request[r].token.issued <= MaxAge
    <2>2. /\ request[r].step = "expiry" /\ Decide(r, check, "claim")
          /\ UNCHANGED <<now, chain, consumed, used, granted>>
      BY <1>10 DEF CheckExpiry
    <2> HIDE DEF check
    <2> QED
      BY <2>1, <2>2, CheckPreserves
  <1>11. ASSUME NEW r \in Requests, Claim(r) PROVE VerifierInv'
    BY <1>11, ClaimPreserves
  <1>12. CASE UNCHANGED vars
    <2>1. TypeOK'
      BY <1>1, <1>12 DEF TypeOK, vars, Final
    <2> QED
      BY <2>1, <1>12, OtherPreserves DEF vars, Final
  <1> QED
    BY <1>3, <1>4, <1>5, <1>6, <1>7, <1>8, <1>9, <1>10, <1>11, <1>12 DEF Next

\* The invariant holds in every reachable state.
LEMMA InvariantHolds == Spec => []VerifierInv
  BY InitEstablishes, NextPreserves, PTL DEF Spec

-----------------------------------------------------------------------------
\* The state of the verifier keeps its types, and the granted requests are the
\* ones that verify answered with Ok.
THEOREM TypeCorrect == Spec => []TypeOK
  <1>1. VerifierInv => TypeOK
    BY DEF VerifierInv
  <1> QED
    BY <1>1, InvariantHolds, PTL

\* verify grants access only for what was paid, to whoever paid it, however the
\* checks interleave with the chain, for any number of requests.
THEOREM OnlyPaidIsGranted == Spec => []GrantedWasPaid
  <1>1. VerifierInv => GrantedWasPaid
    BY DEF VerifierInv, TypeOK, PassedWasPaid, Paid, GrantedWasPaid
  <1> QED
    BY <1>1, InvariantHolds, PTL

\* A replay key is taken only by the request that got access.
THEOREM RejectionClaimsNothing == Spec => []RejectionsClaimNothing
  <1>1. VerifierInv => RejectionsClaimNothing
    BY DEF VerifierInv
  <1> QED
    BY <1>1, InvariantHolds, PTL

\* With a replay store that survives a crash, a token is granted access once,
\* for any number of requests that present it at the same time.
THEOREM NoTokenIsGrantedTwice ==
    ASSUME Persistent
    PROVE  Spec => []GrantedOnce
  <1>1. VerifierInv => GrantedOnce
    BY DEF VerifierInv
  <1> QED
    BY <1>1, InvariantHolds, PTL
=============================================================================
