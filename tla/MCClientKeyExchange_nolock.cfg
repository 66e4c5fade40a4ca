\* The same functions without a caller mutex around them.
CONSTANTS
  Sessions = {s1, s2}
  NoSession = NoSession
  NoSecret = NoSecret
  NoSuite = NoSuite
  Secrets <- MCSecrets
  Messages <- RsaMessages
  RsaPmsSize = 1
  EcjpakePmsSize = 2
  PmsCapacity = 2
  ProviderPmsSizes = {1, 2}
  MaxLen = 3
  MaxCalls = 1
  NullSuiteCipher = "RSA"
  RsaMethod <- FullRsaMethod
  KeyClear = TRUE
  ServerDisabled = FALSE
  CallerLock = FALSE
  FailedDecryptWrites = FALSE
  ScratchSize = 2

SPECIFICATION Spec
INVARIANT PremasterFromOwnCiphertext
CHECK_DEADLOCK FALSE
