\* Data records across a peer-initiated renegotiation.
CONSTANTS
  MaxRecords = 4
  MaxLocalReneg = 1
  WaitForever = FALSE

SPECIFICATION Spec
PROPERTY DataNotOverwritten
