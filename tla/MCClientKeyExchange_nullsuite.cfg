\* TLS_NULL_WITH_NULL_NULL whose public cipher is the null method.
CONSTANTS
  Sessions = {s1, s2}
  NoSession = NoSession
  NoSecret = NoSecret
  NoSuite = NoSuite
  Secrets <- MCSecrets
  Messages <- NullMessages
  RsaPmsSize = 1
  EcjpakePmsSize = 2
  PmsCapacity = 2
  ProviderPmsSizes = {1, 2}
  MaxLen = 3
  MaxCalls = 1
  NullSuiteCipher = "NONE"
  RsaMethod <- FullRsaMethod
  KeyClear = TRUE
  ServerDisabled = FALSE
  CallerLock = TRUE
  FailedDecryptWrites = FALSE
  ScratchSize = 2

SPECIFICATION Spec
INVARIANT UnsupportedCipherLeavesKeyMaterial
CHECK_DEADLOCK FALSE
