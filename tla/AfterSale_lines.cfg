SPECIFICATION Spec
CONSTANTS
    r1 = r1
    r2 = r2
    l1 = l1
    Sales = {r1, r2}
    Referred = {r1, r2}
    Lines = {l1}
    ParentOf <- MCParentOf
    Total <- MCTotal
    Amounts <- MCAmounts
    Fee <- MCFee
    Terms <- MCTerms
    MaxRequests = 2
    MaxAsked = 2
    MaxWithdraws = 2
    MaxAmount = 2
INVARIANTS
    RefundedLinesTakeProfit
