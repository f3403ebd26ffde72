\* Time for three periods and funds for two: partial payments, pauses, restarts.
SPECIFICATION Spec
CONSTANTS
    Plans <- MCPlans
    Jobs = {j1, j2}
    ToolPrice = 2
    MaxTime = 5
    MaxFunds = 5
    MaxRestarts = 1
SYMMETRY Symmetry
INVARIANTS TypeOK ReserveConserved NotBilledAhead CallsAccounted
PROPERTIES BillsPeriodByPeriod NoBillingOfPause
