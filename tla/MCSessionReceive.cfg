\* Receive policy with a finite wait budget.
CONSTANTS
  MaxRecords = 4
  MaxLocalReneg = 1
  WaitForever = FALSE

SPECIFICATION FairSpec
INVARIANT TypeOK
INVARIANT RenegotiationFetchPolicy
INVARIANT PostHandshakeConsumed
PROPERTY ReceiveReturns
