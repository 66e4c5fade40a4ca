\* A renegotiation request surfaced by the follow-up fetch.
CONSTANTS
  MaxRecords = 4
  MaxLocalReneg = 1
  WaitForever = FALSE

SPECIFICATION ClientLoopSpec
PROPERTY RenegotiationAnswered
