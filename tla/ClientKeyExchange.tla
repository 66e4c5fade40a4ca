-------------------------- MODULE ClientKeyExchange --------------------------
(***************************************************************************)
(* The server-side ClientKeyExchange processor of NetX Secure TLS,         *)
(* _nx_secure_tls_process_client_key_exchange, run by several TLS server   *)
(* sessions.  Every session owns its key material, but all of them share   *)
(* the one function-local static buffer _nx_secure_client_padded_pre_master *)
(* into which the RSA private-key operation decrypts the PKCS#1 block.     *)
(*                                                                         *)
(* The function is cut into the steps between which another thread may run *)
(* when the caller does not serialise handshake processing: the dispatch   *)
(* up to the RSA private-key operation, the decryption, the provider       *)
(* cleanup, the padding check, and the final clear of the scratch buffer.  *)
(* Every other branch is a single step up to that final clear.             *)
(*                                                                         *)
(* Data is abstracted: a message carries its ciphersuite, the local        *)
(* certificate type, its length, the declared sub-length, whether its      *)
(* RSA plaintext has valid PKCS#1 padding, and the secret it encrypts.     *)
(***************************************************************************)
EXTENDS Integers, FiniteSets

CONSTANTS
  Sessions,            \* TLS server sessions (model values)
  Secrets,             \* premaster secrets the clients encrypt (model values)
  NoSession,           \* nobody holds the caller's lock
  NoSecret,            \* a premaster secret that carries no client secret
  NoSuite,             \* nx_secure_tls_session_ciphersuite == NX_NULL
  Messages,            \* the ClientKeyExchange messages the clients may send
  RsaPmsSize,          \* NX_SECURE_TLS_RSA_PREMASTER_SIZE
  EcjpakePmsSize,      \* the fixed 32-byte ECJPAKE premaster size
  PmsCapacity,         \* sizeof(nx_secure_tls_pre_master_secret)
  ProviderPmsSizes,    \* sizes DH_CALCULATE / PSK generation report
  MaxLen,              \* largest message_length and declared length
  MaxCalls,            \* ClientKeyExchange messages per session (handshakes)
  NullSuiteCipher,     \* public cipher of TLS_NULL_WITH_NULL_NULL
  RsaMethod,           \* which routines the RSA crypto method provides
  KeyClear,            \* NX_SECURE_KEY_CLEAR is defined
  ServerDisabled,      \* NX_SECURE_TLS_SERVER_DISABLED is defined
  CallerLock,          \* the caller holds a mutex around the whole function
  FailedDecryptWrites, \* a failing private-key operation may leave output
  ScratchSize          \* sizeof(_nx_secure_client_padded_pre_master): 600

(* Algorithms that select the branch of the function. *)
KexAlgs == {"ECJPAKE", "PSK", "ECDH", "ECDHE", "RSA", "NONE"}

(* Type of the local device certificate and of its private key. *)
Certs == {"none", "rsa", "rsa_crt", "rsa_user", "ec"}
RsaCerts == {"rsa", "rsa_crt", "rsa_user"}

(* A ciphersuite; "null" marks TLS_NULL_WITH_NULL_NULL. *)
Suites == {[kex |-> k, null |-> FALSE] : k \in KexAlgs}
            \cup {[kex |-> NullSuiteCipher, null |-> TRUE]}

MessageSpace ==
  [suite : Suites \cup {NoSuite}, cert : Certs, mlen : 0..MaxLen,
   len : 0..MaxLen, padOK : BOOLEAN, secret : Secrets]

Statuses == {"NONE", "SUCCESS", "UNKNOWN_CIPHERSUITE",
             "INCORRECT_MESSAGE_LENGTH", "CERTIFICATE_NOT_FOUND",
             "UNSUPPORTED_ECC_CURVE", "MISSING_CRYPTO_ROUTINE",
             "UNSUPPORTED_PUBLIC_CIPHER", "INVALID_STATE", "PROVIDER_ERROR"}

ASSUME ConstantsAssumption ==
  /\ NoSession \notin Sessions
  /\ NoSecret \notin Secrets
  /\ NoSuite \notin Suites
  /\ Messages \subseteq MessageSpace
  /\ Messages # {}
  /\ RsaPmsSize \in Nat \ {0}
  /\ EcjpakePmsSize \in Nat \ {0}
  /\ PmsCapacity \in Nat
  /\ PmsCapacity <= MaxLen
  /\ RsaPmsSize <= PmsCapacity
  /\ EcjpakePmsSize <= PmsCapacity  \* the literal 32 of line 130
  /\ ProviderPmsSizes \subseteq 1..PmsCapacity  \* the provider is told the capacity (line 300)
  /\ MaxLen \in Nat
  /\ MaxCalls \in Nat
  /\ ScratchSize \in Nat
  /\ NullSuiteCipher \in KexAlgs
  /\ RsaMethod \in [init : BOOLEAN, operation : BOOLEAN, cleanup : BOOLEAN]
  /\ {KeyClear, ServerDisabled, CallerLock, FailedDecryptWrites}
       \subseteq BOOLEAN

(* The content of the padded scratch buffer: all zero, or the block one    *)
(* session's private-key operation wrote.  "owner" is a ghost field.       *)
Block == [owner : Sessions \cup {NoSession}, ok : BOOLEAN,
          secret : Secrets \cup {NoSecret}]
Zero == [owner |-> NoSession, ok |-> FALSE, secret |-> NoSecret]

(* nx_secure_tls_key_material: the premaster secret and its size. *)
PmsKinds == {"zero", "secret", "random", "plain", "ecdh", "psk", "ecjpake"}
Pms == [kind : PmsKinds, val : Secrets \cup {NoSecret}, size : 0..MaxLen]

VARIABLES
  pc,                  \* where each session is in the function
  msg,                 \* the message a session processes (or last processed)
  pre_master_secret,   \* per session key material
  padded_pre_master,   \* the shared static scratch buffer
  status,              \* the status a session's last call returned
  client_state,        \* nx_secure_tls_client_state: "ok" or "error"
  lock,                \* holder of the caller's mutex
  calls,               \* ClientKeyExchange messages processed so far
  entry_pms,           \* ghost: the premaster secret when the call began
  read_end,            \* ghost: one past the last message byte read
  decrypted,           \* ghost: the private-key operation of this call succeeded
  pad_checked          \* ghost: this call ran the PKCS#1 padding check

vars == <<pc, msg, pre_master_secret, padded_pre_master, status,
          client_state, lock, calls, entry_pms, read_end, decrypted, pad_checked>>

Steps == {"idle", "decrypt", "cleanup", "padcheck", "finish"}

TypeOK ==
  /\ pc \in [Sessions -> Steps]
  /\ msg \in [Sessions -> MessageSpace]
  /\ pre_master_secret \in [Sessions -> Pms]
  /\ padded_pre_master \in Block
  /\ status \in [Sessions -> Statuses]
  /\ client_state \in [Sessions -> {"ok", "error"}]
  /\ lock \in Sessions \cup {NoSession}
  /\ calls \in [Sessions -> 0..MaxCalls]
  /\ entry_pms \in [Sessions -> Pms]
  /\ read_end \in [Sessions -> 0..MaxLen + 2]
  /\ decrypted \in [Sessions -> BOOLEAN]
  /\ pad_checked \in [Sessions -> BOOLEAN]

ZeroPms == [kind |-> "zero", val |-> NoSecret, size |-> 0]

Init ==
  /\ pc = [s \in Sessions |-> "idle"]
  /\ msg = [s \in Sessions |-> CHOOSE m \in Messages : TRUE]
  /\ pre_master_secret = [s \in Sessions |-> ZeroPms]
  /\ padded_pre_master = Zero
  /\ status = [s \in Sessions |-> "NONE"]
  /\ client_state = [s \in Sessions |-> "ok"]
  /\ lock = NoSession
  /\ calls = [s \in Sessions |-> 0]
  /\ entry_pms = [s \in Sessions |-> ZeroPms]
  /\ read_end = [s \in Sessions |-> 0]
  /\ decrypted = [s \in Sessions |-> FALSE]
  /\ pad_checked = [s \in Sessions |-> FALSE]

-----------------------------------------------------------------------------
(* Helpers *)

Goto(s, step) == pc' = [pc EXCEPT ![s] = step]

(* return(st): leave the function; the caller releases its mutex. *)
Return(s, st) ==
  /\ pc' = [pc EXCEPT ![s] = "idle"]
  /\ status' = [status EXCEPT ![s] = st]
  /\ lock' = IF CallerLock THEN NoSession ELSE lock

(* Go on to a later step of the same call, holding the caller's mutex. *)
Continue(s, step) ==
  /\ Goto(s, step)
  /\ lock' = IF CallerLock THEN s ELSE lock
  /\ UNCHANGED status

SetPms(s, kind, val, size) ==
  pre_master_secret' =
    [pre_master_secret EXCEPT ![s] = [kind |-> kind, val |-> val, size |-> size]]

SetReadEnd(s, n) == read_end' = [read_end EXCEPT ![s] = n]

(* The block a session's private-key operation leaves in the scratch buffer. *)
DecryptedBlock(s) ==
  [owner |-> s, ok |-> msg[s].padOK, secret |-> msg[s].secret]

MinNat(a, b) == IF a <= b THEN a ELSE b

-----------------------------------------------------------------------------
(* Entry and the branches that do not touch the scratch buffer *)

(* Lines 115-120: no ciphersuite negotiated. *)
UnknownCiphersuite(s, m) ==
  /\ m.suite = NoSuite
  /\ Return(s, "UNKNOWN_CIPHERSUITE")
  /\ UNCHANGED <<pre_master_secret, read_end>>

(* Lines 127-159: ECJPAKE; the size is set before the provider call. *)
Ecjpake(s, m) ==
  /\ m.suite # NoSuite /\ m.suite.kex = "ECJPAKE"
  /\ SetReadEnd(s, m.mlen)
  /\ \/ /\ pre_master_secret' = [pre_master_secret EXCEPT ![s].size = EcjpakePmsSize]
        /\ Return(s, "PROVIDER_ERROR")
     \/ /\ SetPms(s, "ecjpake", NoSecret, EcjpakePmsSize)
        /\ \/ Return(s, "PROVIDER_ERROR")
           \/ Continue(s, "finish")

(* Lines 166-174: PSK, _nx_secure_tls_generate_premaster_secret. *)
Psk(s, m) ==
  /\ m.suite # NoSuite /\ m.suite.kex = "PSK"
  /\ UNCHANGED read_end
  /\ \/ Return(s, "PROVIDER_ERROR") /\ UNCHANGED pre_master_secret
     \/ /\ \E n \in ProviderPmsSizes : SetPms(s, "psk", NoSecret, n)
        /\ Continue(s, "finish")

(* Lines 178-322: ECDH / ECDHE.  The provider writes the shared secret     *)
(* into the key material and reports its size; any provider call may fail. *)
Ecdh(s, m) ==
  /\ m.suite # NoSuite /\ m.suite.kex \in {"ECDH", "ECDHE"}
  /\ \/ /\ m.len > m.mlen
        /\ SetReadEnd(s, 1)
        /\ Return(s, "INCORRECT_MESSAGE_LENGTH")
        /\ UNCHANGED pre_master_secret
     \/ /\ m.len <= m.mlen
        /\ m.suite.kex = "ECDH" /\ m.cert = "none"
        /\ SetReadEnd(s, 1)
        /\ Return(s, "CERTIFICATE_NOT_FOUND")
        /\ UNCHANGED pre_master_secret
     \/ /\ m.len <= m.mlen
        /\ m.suite.kex = "ECDH" => m.cert # "none"
        /\ \/ /\ SetReadEnd(s, 1)
              /\ \E st \in {"PROVIDER_ERROR", "UNSUPPORTED_ECC_CURVE",
                            "MISSING_CRYPTO_ROUTINE"} : Return(s, st)
              /\ UNCHANGED pre_master_secret
           \/ /\ SetReadEnd(s, 1 + m.len)
              /\ Return(s, "PROVIDER_ERROR")
              /\ UNCHANGED pre_master_secret
           \/ /\ SetReadEnd(s, 1 + m.len)
              /\ \E n \in ProviderPmsSizes : SetPms(s, "ecdh", NoSecret, n)
              /\ \/ Return(s, "PROVIDER_ERROR")
                 \/ Continue(s, "finish")

(* Mutant: the public value is taken one byte further into the message. *)
CertBasedOffByOne(s, m) ==
  /\ m.suite # NoSuite /\ m.suite.kex \in {"RSA", "NONE"}
  /\ \/ /\ m.len > m.mlen
        /\ SetReadEnd(s, 2)
        /\ Return(s, "INCORRECT_MESSAGE_LENGTH")
        /\ UNCHANGED pre_master_secret
     \/ /\ m.len <= m.mlen
        /\ SetReadEnd(s, 3 + m.len)
        /\ IF m.suite.null
              THEN SetPms(s, "plain", m.secret, MinNat(m.len, PmsCapacity))
              ELSE UNCHANGED pre_master_secret
        /\ CASE m.cert = "none" -> Return(s, "CERTIFICATE_NOT_FOUND")
             [] m.suite.kex = "RSA" /\ m.cert \in RsaCerts -> Continue(s, "decrypt")
             [] OTHER -> Return(s, "UNSUPPORTED_PUBLIC_CIPHER")

(* Mutant: the NULL-ciphersuite copy is not truncated to the buffer. *)
CertBasedNoTruncate(s, m) ==
  /\ m.suite # NoSuite /\ m.suite.kex \in {"RSA", "NONE"}
  /\ \/ /\ m.len > m.mlen
        /\ SetReadEnd(s, 2)
        /\ Return(s, "INCORRECT_MESSAGE_LENGTH")
        /\ UNCHANGED pre_master_secret
     \/ /\ m.len <= m.mlen
        /\ SetReadEnd(s, 2 + m.len)
        /\ IF m.suite.null
              THEN SetPms(s, "plain", m.secret, m.len)
              ELSE UNCHANGED pre_master_secret
        /\ CASE m.cert = "none" -> Return(s, "CERTIFICATE_NOT_FOUND")
             [] m.suite.kex = "RSA" /\ m.cert \in RsaCerts -> Continue(s, "decrypt")
             [] OTHER -> Return(s, "UNSUPPORTED_PUBLIC_CIPHER")

(* Lines 325-375 and 543-547: certificate-based exchange up to the RSA     *)
(* private-key operation.  The NULL ciphersuite copies the message bytes   *)
(* (truncated to the buffer) and then falls through to the RSA checks.     *)
CertBased(s, m) ==
  /\ m.suite # NoSuite /\ m.suite.kex \in {"RSA", "NONE"}
  /\ \/ /\ m.len > m.mlen
        /\ SetReadEnd(s, 2)
        /\ Return(s, "INCORRECT_MESSAGE_LENGTH")
        /\ UNCHANGED pre_master_secret
     \/ /\ m.len <= m.mlen
        /\ SetReadEnd(s, 2 + m.len)
        /\ IF m.suite.null
              THEN SetPms(s, "plain", m.secret, MinNat(m.len, PmsCapacity))
              ELSE UNCHANGED pre_master_secret
        /\ CASE m.cert = "none" ->
                  Return(s, "CERTIFICATE_NOT_FOUND")
             [] m.suite.kex = "RSA" /\ m.cert \in RsaCerts ->
                  Continue(s, "decrypt")
             [] OTHER ->
                  Return(s, "UNSUPPORTED_PUBLIC_CIPHER")

(* _nx_secure_tls_process_client_key_exchange: entry of a call. *)
ProcessClientKeyExchange(s) ==
  /\ pc[s] = "idle"
  /\ calls[s] < MaxCalls
  /\ CallerLock => lock = NoSession
  /\ \E m \in Messages :
       /\ msg' = [msg EXCEPT ![s] = m]
       /\ UnknownCiphersuite(s, m) \/ Ecjpake(s, m) \/ Psk(s, m)
            \/ Ecdh(s, m) \/ CertBased(s, m)
  /\ calls' = [calls EXCEPT ![s] = @ + 1]
  /\ entry_pms' = [entry_pms EXCEPT ![s] = pre_master_secret[s]]
  /\ decrypted' = [decrypted EXCEPT ![s] = FALSE]
  /\ pad_checked' = [pad_checked EXCEPT ![s] = FALSE]
  /\ UNCHANGED <<padded_pre_master, client_state>>

-----------------------------------------------------------------------------
(* The RSA path, one step per stretch between uses of the scratch buffer *)

(* Lines 378-491: the private-key operation.  A user-defined (opaque) key  *)
(* is one provider call; a parsed key runs init, the optional CRT primes   *)
(* P and Q, and DECRYPT.  A failing call returns at once, without clearing *)
(* the scratch buffer; without a DECRYPT routine a parsed key writes       *)
(* nothing (line 419).  A user-defined key calls nx_crypto_operation       *)
(* unchecked (line 381): without that routine the call goes through NULL   *)
(* and never returns, so the session takes no further step.               *)
Decrypt(s) ==
  LET user == msg[s].cert = "rsa_user"
      written == IF FailedDecryptWrites
                   THEN {padded_pre_master, DecryptedBlock(s)}
                   ELSE {padded_pre_master}
  IN
  /\ pc[s] = "decrypt"
  /\ \/ /\ RsaMethod.operation
        /\ padded_pre_master' = DecryptedBlock(s)
        /\ decrypted' = [decrypted EXCEPT ![s] = TRUE]
        /\ Continue(s, IF user THEN "padcheck" ELSE "cleanup")
     \/ /\ ~user /\ ~RsaMethod.operation
        /\ Continue(s, "cleanup")
        /\ UNCHANGED <<padded_pre_master, decrypted>>
     \/ /\ ~user /\ RsaMethod.init
        /\ Return(s, "PROVIDER_ERROR")
        /\ UNCHANGED <<padded_pre_master, decrypted>>
     \/ /\ ~user /\ RsaMethod.operation /\ msg[s].cert = "rsa_crt"
        /\ Return(s, "PROVIDER_ERROR")
        /\ UNCHANGED <<padded_pre_master, decrypted>>
     \/ /\ RsaMethod.operation
        /\ padded_pre_master' \in written
        /\ Return(s, "PROVIDER_ERROR")
        /\ UNCHANGED decrypted
  /\ UNCHANGED <<msg, pre_master_secret, client_state, calls, entry_pms,
                 read_end, pad_checked>>

(* Lines 493-505: provider cleanup; on failure the buffer is cleared. *)
Cleanup(s) ==
  /\ pc[s] = "cleanup"
  /\ \/ /\ Continue(s, "padcheck")
        /\ UNCHANGED padded_pre_master
     \/ /\ RsaMethod.cleanup
        /\ padded_pre_master' = IF KeyClear THEN Zero ELSE padded_pre_master
        /\ Return(s, "PROVIDER_ERROR")
  /\ UNCHANGED <<msg, pre_master_secret, client_state, calls, entry_pms,
                 read_end, decrypted, pad_checked>>

(* Mutant: the padding is not checked; the tail is always copied. *)
PadCheckSkipped(s) ==
  /\ pc[s] = "padcheck"
  /\ SetPms(s, "secret", padded_pre_master.secret, RsaPmsSize)
  /\ pad_checked' = [pad_checked EXCEPT ![s] = TRUE]
  /\ Continue(s, "finish")
  /\ UNCHANGED <<msg, padded_pre_master, client_state, calls, entry_pms,
                 read_end, decrypted>>

(* Mutant: bad padding is reported as an error (a padding oracle). *)
PadCheckReportsPadding(s) ==
  /\ pc[s] = "padcheck"
  /\ pad_checked' = [pad_checked EXCEPT ![s] = TRUE]
  /\ IF padded_pre_master.ok
        THEN /\ SetPms(s, "secret", padded_pre_master.secret, RsaPmsSize)
             /\ Continue(s, "finish")
        ELSE /\ Return(s, "PROVIDER_ERROR")
             /\ UNCHANGED pre_master_secret
  /\ UNCHANGED <<msg, padded_pre_master, client_state, calls, entry_pms,
                 read_end, decrypted>>

(* Lines 510-541: the PKCS#1 check.  Bad padding is not an error: the      *)
(* premaster secret becomes random bytes of the same fixed size.           *)
PadCheck(s) ==
  /\ pc[s] = "padcheck"
  /\ IF padded_pre_master.ok
        THEN SetPms(s, "secret", padded_pre_master.secret, RsaPmsSize)
        ELSE SetPms(s, "random", NoSecret, RsaPmsSize)
  /\ pad_checked' = [pad_checked EXCEPT ![s] = TRUE]
  /\ Continue(s, "finish")
  /\ UNCHANGED <<msg, padded_pre_master, client_state, calls, entry_pms,
                 read_end, decrypted>>

(* Mutant: the final memset of the scratch buffer is left out. *)
FinishWithoutClear(s) ==
  /\ pc[s] = "finish"
  /\ IF ServerDisabled
        THEN /\ client_state' = [client_state EXCEPT ![s] = "error"]
             /\ Return(s, "INVALID_STATE")
        ELSE /\ Return(s, "SUCCESS")
             /\ UNCHANGED client_state
  /\ UNCHANGED <<msg, pre_master_secret, padded_pre_master, calls, entry_pms,
                 read_end, decrypted, pad_checked>>

(* Lines 550-560: clear the scratch buffer; a build without the TLS server *)
(* marks the session errored and fails the call.                           *)
Finish(s) ==
  /\ pc[s] = "finish"
  /\ padded_pre_master' = IF KeyClear THEN Zero ELSE padded_pre_master
  /\ IF ServerDisabled
        THEN /\ client_state' = [client_state EXCEPT ![s] = "error"]
             /\ Return(s, "INVALID_STATE")
        ELSE /\ Return(s, "SUCCESS")
             /\ UNCHANGED client_state
  /\ UNCHANGED <<msg, pre_master_secret, calls, entry_pms, read_end,
                 decrypted, pad_checked>>

Next ==
  \E s \in Sessions :
     \/ ProcessClientKeyExchange(s)
     \/ Decrypt(s)
     \/ Cleanup(s)
     \/ PadCheck(s)
     \/ Finish(s)

Spec == Init /\ [][Next]_vars

-----------------------------------------------------------------------------
(* Properties *)

(* The shared buffer seen as the single slot of ScratchSlot: a block is    *)
(* held by the session whose decryption wrote it, Zero is the empty slot.  *)
Slot == INSTANCE ScratchSlot WITH
          Data <- BOOLEAN \X Secrets,
          Free <- NoSession,
          Blank <- <<FALSE, NoSecret>>,
          slot <- [owner |-> padded_pre_master.owner,
                   data |-> <<padded_pre_master.ok, padded_pre_master.secret>>]

(* The static _nx_secure_client_padded_pre_master behaves as the           *)
(* single-slot, non-reentrant buffer of spec section 3: a private-key      *)
(* operation (lines 389, 480) writes only into a cleared buffer, and only  *)
(* the call that wrote it clears it again (lines 500, 551).                *)
ScratchSlotDiscipline == Slot!Spec

(* The premaster secret the RSA branch must produce from message m. *)
RsaPms(m) ==
  IF m.padOK THEN [kind |-> "secret", val |-> m.secret, size |-> RsaPmsSize]
             ELSE [kind |-> "random", val |-> NoSecret, size |-> RsaPmsSize]

(* Once a session has run the padding check of lines 510-541 on the block  *)
(* its own private-key operation wrote into the shared static buffer, its  *)
(* premaster secret is that block's secret when the padding is valid and   *)
(* random bytes otherwise; a session that decrypted nothing must fail the  *)
(* check.  Broken when another session's decryption or final clear of     *)
(* _nx_secure_client_padded_pre_master lands between this session's      *)
(* decryption and its padding check, or when the check reads a stale      *)
(* plaintext left by an earlier handshake.                                *)
PremasterFromOwnCiphertext ==
  \A s \in Sessions :
     pc[s] \in {"finish", "idle"} /\ pad_checked[s] =>
        IF decrypted[s] THEN pre_master_secret[s] = RsaPms(msg[s])
                        ELSE pre_master_secret[s].kind = "random"

(* Spec section 7(b): a missing crypto routine is a configuration error,   *)
(* fatal to the handshake.  So a call that reaches the padding check of    *)
(* lines 510-541 has run the private-key operation of lines 419-497 on    *)
(* its ciphertext first.  Broken when nx_crypto_operation is NULL and the  *)
(* code skips the decryption at line 419 and checks the buffer anyway.    *)
DecryptBeforePadCheck ==
  \A s \in Sessions : pad_checked[s] => decrypted[s]

(* Bleichenbacher countermeasure (lines 510-532): two calls that both ran  *)
(* the PKCS#1 check and returned are indistinguishable to the client: the  *)
(* same status and the same premaster size, whether or not their padding   *)
(* was valid.                                                             *)
PaddingOblivious ==
  \A s, t \in Sessions :
     (/\ pc[s] = "idle" /\ pad_checked[s]
      /\ pc[t] = "idle" /\ pad_checked[t]) =>
        /\ status[s] = status[t]
        /\ pre_master_secret[s].size = pre_master_secret[t].size

(* With NX_SECURE_KEY_CLEAR, the shared scratch buffer holds no decrypted  *)
(* premaster block while no session is between its private-key operation   *)
(* and the final memset of line 551 (spec: cleared on every exit path).    *)
ScratchClearedAtRest ==
  KeyClear /\ (\A s \in Sessions : pc[s] \in {"idle", "decrypt"})
    => padded_pre_master = Zero

(* The premaster size never exceeds the key-material buffer: the NULL     *)
(* ciphersuite copy of lines 344-349 is truncated, the provider sizes of   *)
(* lines 312 and 168 are within the capacity it was given.                *)
PmsWithinCapacity ==
  \A s \in Sessions : pre_master_secret[s].size <= PmsCapacity

(* Lines 510-512: the byte the PKCS#1 check reads before the premaster    *)
(* secret.  length is the USHORT ciphertext length of line 328; the index  *)
(* expression is evaluated in int.                                        *)
PadIndex(s) == msg[s].len - RsaPmsSize - 1

(* Spec 4.2 and 6: the padding check (line 512) and the copy of line 539   *)
(* read only inside the scratch buffer, bytes PadIndex(s) to length - 1.   *)
(* Nothing checks the ciphertext length against                           *)
(* NX_SECURE_TLS_RSA_PREMASTER_SIZE + 1 or against the 600-byte buffer, so *)
(* a short ciphertext the provider decrypts (or any ciphertext, when the  *)
(* method has no DECRYPT routine) indexes before the array, a long one    *)
(* past its end.                                                          *)
PadReadsInBuffer ==
  \A s \in Sessions :
     pc[s] = "padcheck" => PadIndex(s) >= 0 /\ msg[s].len <= ScratchSize

(* Spec 4.2: every length prefix is checked against the bytes that remain, *)
(* so the function never reads past message_length.  Lines 183 and 331     *)
(* compare the declared length with the whole message_length, although   *)
(* the public value starts 1 (ECDH) or 2 (RSA) bytes into the message.    *)
NoOverread ==
  \A s \in Sessions : read_end[s] <= msg[s].mlen

(* Spec 8: a ciphersuite whose public cipher is unsupported yields         *)
(* UNSUPPORTED_PUBLIC_CIPHER (line 546) and leaves the key material as it  *)
(* was when the call began.                                               *)
UnsupportedCipherLeavesKeyMaterial ==
  \A s \in Sessions :
     pc[s] = "idle" /\ status[s] = "UNSUPPORTED_PUBLIC_CIPHER" =>
        pre_master_secret[s] = entry_pms[s]

=============================================================================
