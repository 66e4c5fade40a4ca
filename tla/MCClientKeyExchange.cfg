\* Shared scratch buffer under the caller's mutex, keys cleared after use.
CONSTANTS
  Sessions = {s1, s2}
  NoSession = NoSession
  NoSecret = NoSecret
  NoSuite = NoSuite
  Secrets <- MCSecrets
  Messages <- MCMessagesAll
  RsaPmsSize = 1
  EcjpakePmsSize = 2
  PmsCapacity = 2
  ProviderPmsSizes = {1, 2}
  MaxLen = 3
  MaxCalls = 2
  NullSuiteCipher = "RSA"
  RsaMethod <- FullRsaMethod
  KeyClear = TRUE
  ServerDisabled = FALSE
  CallerLock = TRUE
  FailedDecryptWrites = FALSE
  ScratchSize = 2

SPECIFICATION Spec
INVARIANT TypeOK
INVARIANT PremasterFromOwnCiphertext
INVARIANT PaddingOblivious
INVARIANT ScratchClearedAtRest
INVARIANT PmsWithinCapacity
CHECK_DEADLOCK FALSE
PROPERTY ScratchSlotDiscipline
