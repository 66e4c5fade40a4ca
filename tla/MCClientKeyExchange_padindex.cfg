\* RSA ciphertexts shorter than the premaster secret or longer than the buffer.
CONSTANTS
  Sessions = {s1, s2}
  NoSession = NoSession
  NoSecret = NoSecret
  NoSuite = NoSuite
  Secrets <- MCSecrets
  Messages <- OutOfRangeRsaMessages
  RsaPmsSize = 1
  EcjpakePmsSize = 2
  PmsCapacity = 2
  ProviderPmsSizes = {1, 2}
  MaxLen = 3
  MaxCalls = 1
  NullSuiteCipher = "RSA"
  RsaMethod <- FullRsaMethod
  KeyClear = TRUE
  ServerDisabled = FALSE
  CallerLock = TRUE
  FailedDecryptWrites = FALSE
  ScratchSize = 2

SPECIFICATION Spec
CHECK_DEADLOCK FALSE
INVARIANT PadReadsInBuffer
