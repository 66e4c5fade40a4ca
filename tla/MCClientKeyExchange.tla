------------------------ MODULE MCClientKeyExchange ------------------------
(***************************************************************************)
(* Model-checking instance of ClientKeyExchange: two server sessions, two  *)
(* client secrets, one-byte premaster secrets and messages of at most      *)
(* three bytes, so that every length check has a passing and a failing     *)
(* side and the NULL-suite copy can exceed the key-material buffer.        *)
(***************************************************************************)
EXTENDS ClientKeyExchange

MCSecrets == {"k1", "k2"}

RsaSuite == [kex |-> "RSA", null |-> FALSE]

(* Well-formed RSA ClientKeyExchange messages, with valid and invalid      *)
(* PKCS#1 padding, for each kind of RSA private key.  A ciphertext of two  *)
(* bytes stands for one of the modulus length: longer than the premaster   *)
(* secret and its zero separator.                                         *)
RsaMessages ==
  {[suite |-> RsaSuite, cert |-> c, mlen |-> 3, len |-> 2, padOK |-> p,
    secret |-> k] : c \in RsaCerts, p \in BOOLEAN, k \in MCSecrets}

(* RSA ciphertexts of a length the scratch buffer does not fit: no longer *)
(* than the premaster secret (under 49 bytes), or longer than the buffer  *)
(* (over 600 bytes).                                                      *)
OutOfRangeRsaMessages ==
  {[suite |-> RsaSuite, cert |-> c, mlen |-> 3, len |-> n, padOK |-> TRUE,
    secret |-> "k1"] : c \in {"rsa", "rsa_user"}, n \in {1, 3}}

(* One message for each other branch of the function. *)
OtherMessages ==
  {[suite |-> [kex |-> x, null |-> FALSE], cert |-> "ec", mlen |-> 3,
    len |-> 1, padOK |-> FALSE, secret |-> "k1"] :
       x \in {"ECJPAKE", "PSK", "ECDH", "ECDHE"}}

(* Messages whose checks fail: no ciphersuite, a declared length beyond    *)
(* the message, no certificate, an RSA suite with an EC certificate.       *)
ErrorMessages ==
  {[suite |-> NoSuite, cert |-> "rsa", mlen |-> 3, len |-> 1,
    padOK |-> TRUE, secret |-> "k1"],
   [suite |-> RsaSuite, cert |-> "rsa", mlen |-> 1, len |-> 2,
    padOK |-> TRUE, secret |-> "k1"],
   [suite |-> RsaSuite, cert |-> "none", mlen |-> 3, len |-> 1,
    padOK |-> TRUE, secret |-> "k1"],
   [suite |-> RsaSuite, cert |-> "ec", mlen |-> 3, len |-> 1,
    padOK |-> TRUE, secret |-> "k1"]}

(* The NULL ciphersuite with a payload longer than the key material. *)
NullMessages ==
  {[suite |-> [kex |-> NullSuiteCipher, null |-> TRUE], cert |-> "rsa",
    mlen |-> 3, len |-> 3, padOK |-> TRUE, secret |-> "k2"]}

(* Declared lengths at the boundary of the message: equal to message_length. *)
BoundaryMessages ==
  {[suite |-> RsaSuite, cert |-> "rsa", mlen |-> 2, len |-> 2,
    padOK |-> TRUE, secret |-> "k1"],
   [suite |-> [kex |-> "ECDHE", null |-> FALSE], cert |-> "ec", mlen |-> 1,
    len |-> 1, padOK |-> FALSE, secret |-> "k1"]}

MCMessagesAll == RsaMessages \cup OtherMessages \cup ErrorMessages \cup NullMessages

(* The parsed-key RSA method of NetX Crypto: init, operation and cleanup. *)
FullRsaMethod == [init |-> TRUE, operation |-> TRUE, cleanup |-> TRUE]

(* A method without routines: nothing is initialised, decrypted, cleaned. *)
BareRsaMethod == [init |-> FALSE, operation |-> FALSE, cleanup |-> FALSE]

=============================================================================
