\* Two requests for one token, which may be another tool's, underpaid, forged,
\* consumed or too old.
SPECIFICATION Spec
CONSTANTS
    Requests = {r1, r2}
    TokenIds = {t1}
    Tools = {tool, other}
    Parties = {payer, stranger}
    Amounts = {1, 2}
    ThisTool = tool
    MinPrice = 2
    MaxAge = 1
    MaxTime = 2
    Persistent = TRUE
SYMMETRY Symmetry
INVARIANTS GrantedOnce GrantedWasPaid RejectionsClaimNothing
CHECK_DEADLOCK FALSE
