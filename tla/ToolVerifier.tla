---------------------------- MODULE ToolVerifier ----------------------------
(***************************************************************************)
(* ToolVerifier::verify, run by the threads of a tool endpoint for requests*)
(* that carry an access token.  The checks are made one after another while*)
(* the chain goes on: tokens become final, are consumed by tasks and get   *)
(* old.  The claim in the replay store comes last.  The endpoint may crash;*)
(* a persistent replay store survives that, the in-memory one does not.    *)
(***************************************************************************)
EXTENDS Integers, FiniteSets

CONSTANTS
    Requests,     \* requests that reach the endpoint
    TokenIds,     \* ids of access tokens
    Tools,        \* tools of the chain
    Parties,      \* who pays and who signs
    Amounts,      \* amounts that are paid
    ThisTool,     \* the tool of the endpoint
    MinPrice,     \* with_min_price, 0 for no floor
    MaxAge,       \* with_max_age_ms, 0 for no expiry
    MaxTime,      \* how far time passes
    Persistent    \* the replay store survives a crash

ASSUME VerifierAssumption ==
    /\ ThisTool \in Tools
    /\ Amounts \subseteq Nat
    /\ MinPrice \in Nat /\ MaxAge \in Nat /\ MaxTime \in Nat
    /\ Persistent \in BOOLEAN

VARIABLES
    now,        \* the time
    chain,      \* the final access tokens, by id
    consumed,   \* ids that a task has consumed on the chain
    used,       \* the replay store
    request,    \* what is known of each request
    granted     \* requests that verify answered with Ok

vars == <<now, chain, consumed, used, request, granted>>

Token ==
    [id : TokenIds, tool : Tools, invoker : Parties, amount : Amounts,
     issued : 0..MaxTime]

\* A request that has not come yet, and one that comes: its token, who made its
\* proof, and the check that is next.
NotYet == [step |-> "not yet"]
Steps == {"chain", "consumed", "expiry", "claim", "rejected", "ok"}
Request == [step : Steps, token : Token, signer : Parties]

Final == DOMAIN chain

-----------------------------------------------------------------------------
(* The chain, the clock and the endpoint. *)

Tick ==
    /\ now < MaxTime
    /\ now' = now + 1
    /\ UNCHANGED <<chain, consumed, used, request, granted>>

\* A ToolInvoke becomes final: the token is on the chain for good.
Finalize ==
    /\ \E token \in Token :
         /\ token.id \notin Final
         /\ token.issued = now
         /\ chain' = [id \in Final \cup {token.id} |->
                        IF id = token.id THEN token ELSE chain[id]]
    /\ UNCHANGED <<now, consumed, used, request, granted>>

\* A TaskFulfill refers to the token.
Consume ==
    /\ \E id \in Final \ consumed : consumed' = consumed \cup {id}
    /\ UNCHANGED <<now, chain, used, request, granted>>

\* A request comes, with any token and any proof.
Submit(r) ==
    /\ request[r] = NotYet
    /\ \E token \in Token, signer \in Parties :
         request' = [request EXCEPT ![r] = [step |-> "chain", token |-> token,
                                            signer |-> signer]]
    /\ UNCHANGED <<now, chain, consumed, used, granted>>

\* Requests in progress fail, and an in-memory store is empty again.
Crash ==
    /\ request' = [r \in Requests |->
                     IF request[r].step \in {"not yet", "ok"} THEN request[r]
                     ELSE [request[r] EXCEPT !.step = "rejected"]]
    /\ used' = IF Persistent THEN used ELSE {}
    /\ UNCHANGED <<now, chain, consumed, granted>>

-----------------------------------------------------------------------------
(* verify. *)

\* The check at hand passes or the request is rejected.
Decide(r, check, next) ==
    request' = [request EXCEPT ![r].step = IF check THEN next ELSE "rejected"]

\* Mutant of ChainMatches: any token with a known id passes.
ChainKnows(token) == token.id \in Final

\* verify_access_token: every claim is that of the final token.
ChainMatches(token) == token.id \in Final /\ chain[token.id] = token

\* The proof was made with the key of the payer.
ProofValid(token, signer) == signer = token.invoker

\* Checks 1 to 4; the last three depend on the request alone.
CheckChain(r) ==
    LET token == request[r].token
    IN  /\ request[r].step = "chain"
        /\ Decide(r, /\ ChainMatches(token)
                     /\ token.tool = ThisTool
                     /\ ProofValid(token, request[r].signer)
                     /\ MinPrice > 0 => token.amount >= MinPrice,
                  "consumed")
        /\ UNCHANGED <<now, chain, consumed, used, granted>>

\* Check 5: no task has consumed the token so far.
CheckConsumed(r) ==
    /\ request[r].step = "consumed"
    /\ Decide(r, request[r].token.id \notin consumed, "expiry")
    /\ UNCHANGED <<now, chain, consumed, used, granted>>

\* Mutant of CheckExpiry: the replay key is taken before the check.
CheckExpiryClaimed(r) ==
    /\ request[r].step = "expiry"
    /\ Decide(r, MaxAge > 0 => now - request[r].token.issued <= MaxAge, "claim")
    /\ used' = used \cup {request[r].token.id}
    /\ UNCHANGED <<now, chain, consumed, granted>>

\* Check 6: the token is not too old.
CheckExpiry(r) ==
    /\ request[r].step = "expiry"
    /\ Decide(r, MaxAge > 0 => now - request[r].token.issued <= MaxAge, "claim")
    /\ UNCHANGED <<now, chain, consumed, used, granted>>

\* Mutant of TryUse: the store answers and marks nothing.
LookUp(id) == UNCHANGED used

\* try_use: the store is marked in the same step.
TryUse(id) == used' = used \cup {id}

\* Check 7: the first claim of the token is granted.
Claim(r) ==
    LET id == request[r].token.id
    IN  /\ request[r].step = "claim"
        /\ Decide(r, id \notin used, "ok")
        /\ TryUse(id)
        /\ granted' = IF id \notin used THEN granted \cup {r} ELSE granted
        /\ UNCHANGED <<now, chain, consumed>>

Init ==
    /\ now = 0
    /\ chain = [id \in {} |-> 0]
    /\ consumed = {} /\ used = {} /\ granted = {}
    /\ request = [r \in Requests |-> NotYet]

Next ==
    \/ Tick \/ Finalize \/ Consume \/ Crash
    \/ \E r \in Requests :
         \/ Submit(r)
         \/ CheckChain(r) \/ CheckConsumed(r) \/ CheckExpiry(r) \/ Claim(r)

Spec == Init /\ [][Next]_vars

-----------------------------------------------------------------------------
\* The chain, the store and the requests have the shape the code gives them,
\* and the requests that were granted are the ones that verify accepted.
TypeOK ==
    /\ now \in 0..MaxTime
    /\ Final \subseteq TokenIds /\ chain \in [Final -> Token]
    /\ \A id \in Final : chain[id].id = id
    /\ consumed \subseteq TokenIds /\ used \subseteq TokenIds
    /\ request \in [Requests -> Request \cup {NotYet}]
    /\ granted = {r \in Requests : request[r].step = "ok"}

\* However requests with the same token interleave, and whenever the endpoint
\* crashes, a token is granted access once.
GrantedOnce ==
    \A r, q \in granted : request[r].token.id = request[q].token.id => r = q

\* Access is granted for a token that is final on the chain with these claims,
\* for this tool, paid with at least the floor, to whoever paid for it.
GrantedWasPaid ==
    \A r \in granted :
        LET token == request[r].token
        IN  /\ token.id \in Final /\ chain[token.id] = token
            /\ token.tool = ThisTool
            /\ token.amount >= MinPrice
            /\ request[r].signer = token.invoker

\* A request that is rejected, for whatever reason and with whatever proof,
\* takes no replay key: a token is used up only by a request that got access.
RejectionsClaimNothing ==
    \A id \in used : \E r \in granted : request[r].token.id = id

=============================================================================
