\* An RSA method without an operation routine (nx_crypto_operation NULL).
CONSTANTS
  Sessions = {s1, s2}
  NoSession = NoSession
  NoSecret = NoSecret
  NoSuite = NoSuite
  Secrets <- MCSecrets
  Messages <- MCMessagesAll
  RsaPmsSize = 1
  EcjpakePmsSize = 2
  PmsCapacity = 2
  ProviderPmsSizes = {1, 2}
  MaxLen = 3
  MaxCalls = 2
  NullSuiteCipher = "RSA"
  RsaMethod <- BareRsaMethod
  KeyClear = TRUE
  ServerDisabled = FALSE
  CallerLock = TRUE
  FailedDecryptWrites = FALSE
  ScratchSize = 2

SPECIFICATION Spec
CHECK_DEADLOCK FALSE
INVARIANT DecryptBeforePadCheck
