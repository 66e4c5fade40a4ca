# TLA+ verification of the NetX Secure TLS receive and key-exchange path

This directory holds TLA+ models of the two NetX Secure TLS functions in `src/`, with TLC runs and TLAPS proofs:

- `_nx_secure_tls_process_client_key_exchange`, in `src/Middlewares/ST/netxduo/nx_secure/src/nx_secure_tls_process_client_key_exchange.c` (cited below as `c:LINE`);
- `_nx_secure_tls_session_receive`, in `src/unnamed/part_000` (cited as `r:LINE`).

`PROJECT.json` lists the components, runs, mutants, source map, findings, hazards and theorems.

## 1. Inventory

### Components and how they interact

| Component | Where | State | Operations |
|---|---|---|---|
| Record Receiver | r:256-335 | the session's `nx_secure_tls_renegotiation_handshake` flag; client/server state; the local `local_initiated_renegotiation`, `status`; `*packet_ptr_ptr` | entry snapshot (r:274-290), first fetch (r:293), renegotiation handshake (r:298-310), follow-up fetch (r:317), post-handshake loop (r:326-329) |
| Record layer `_nx_secure_tls_session_receive_records` | not in `src/` | records queued by the peer | one fetch: a record, or a timeout |
| Handshake Orchestrator `_nx_secure_tls_handshake_process` | not in `src/` | client/server state | run a (re)negotiation to completion or to an error |
| Key-Exchange Processor | c:89-561 | per session `nx_secure_tls_key_material` (premaster secret and size), `nx_secure_tls_client_state`; one **function-local static** `_nx_secure_client_padded_pre_master[600]` (c:27) shared by all sessions | ECJPAKE (c:125-161), PSK (c:164-176), ECDH/ECDHE (c:177-324), NULL/RSA (c:325-547), RSA private-key operation (c:378-491), provider cleanup (c:493-505), PKCS#1 check (c:507-541), final clear (c:549-552), role check (c:554-560) |
| Crypto Provider | function-pointer tables | none visible here | `init`, `operation`, `cleanup`, each optional, each able to fail |
| Application / MQTT scaffolding | r:1-181 | none | build and run notes (not code) |

The components call each other as follows:

- The application calls session receive.
- Session receive fetches records. A hello from the peer raises the renegotiation flag, which makes receive run the handshake.
- In a server, the handshake calls the key-exchange processor when the client's ClientKeyExchange arrives.
- Several server sessions (one per TLS connection, e.g. several MQTT clients of a broker) may process ClientKeyExchange messages. They all share the one static scratch buffer.

### Behaviours that are hard

- **Sessions interleaving on the static scratch buffer** (c:27). A decryption writes it, and a padding check (c:510) reads it later. The final `memset` (c:551) of any call clears it. Nothing inside the function serialises these steps; spec §5 requires the caller to.
- **Early returns** from the private-key operation (c:397, c:488) skip that final clear.
- **Length checks at a boundary.** They compare with `message_length` and ignore the length prefix (c:183, c:331). The NULL-suite truncation (c:344), the provider-reported premaster size (c:312) and the padding index `length - 48 - 1` (c:512) with the copy after it (c:539) also sit at boundaries. The last two are bounded by the message only, not by the 600-byte buffer.
- **The Bleichenbacher countermeasure** (c:510-541). Bad padding must not be distinguishable from good padding.
- **The renegotiation snapshot** (r:276-289). It must be taken before the handshake changes the state it reads.
- **A renegotiation flag that outlives a call.** The flag is only cleared on the path through r:298. A hello surfaced by the follow-up fetch (r:317) or the post-handshake loop (r:328) stays pending.
- **The unbounded post-handshake loop** (r:326).

### What makes each component correct

**Key-Exchange Processor:**
- each session's RSA premaster comes from its own ciphertext;
- the padding outcome is invisible to the client;
- the scratch buffer is zero at rest;
- the premaster size fits the buffer;
- no read past `message_length`;
- the padding check and the premaster copy read only inside the scratch buffer;
- the scratch buffer behaves as a single slot, filled when empty and cleared by its holder;
- an unsupported cipher leaves the key material alone.

**Record Receiver:**
- one more fetch after a remote renegotiation and none after a local one;
- post-handshake messages are consumed;
- fetched data is not overwritten;
- a pending renegotiation request is dropped only when its handshake starts;
- every call returns;
- every renegotiation request is eventually answered.

## 2. Plan and modules

| Module | Models | Notes |
|---|---|---|
| `ClientKeyExchange.tla` | the key-exchange processor, run by `Sessions` concurrently | core module; constants select the build (`KeyClear`, `ServerDisabled`), the deployment (`CallerLock`), and the provider (`RsaMethod`, `FailedDecryptWrites`, `ProviderPmsSizes`) |
| `ScratchSlot.tla` | what the scratch buffer promises (spec §3, §5): a single slot, filled only when empty and cleared only by its holder | abstract specification; `ClientKeyExchange` instantiates it as `Slot` |
| `MCClientKeyExchange.tla` + 7 cfgs | small instances | message sets chosen per question |
| `ClientKeyExchangeProofs.tla` | TLAPS proofs about `ClientKeyExchange`, including the refinement of `ScratchSlot` | no RECURSIVE anywhere below it |
| `SessionReceive.tla` | session receive, with the peer, the record layer and the handshake as environment | record layer and handshake modelled from the spec |
| `MCSessionReceive.tla` + 4 cfgs | small instances | |
| `SessionReceiveProofs.tla` | TLAPS proofs of `SessionReceive`'s safety invariants | |

Plan for later work: compose the two modules, as a server session whose handshake step calls `ProcessClientKeyExchange`. The handshake state machine that would connect them is not in `src/`, so the composition would rest entirely on the spec's account of it.

### The refinement of the scratch buffer

`ScratchSlot` has one variable, `slot`, with an `owner` and `data`. `Fill(s)` stores data into the empty slot. `Clear(s)` empties it and is enabled only for the holder.

`ClientKeyExchange` maps its state onto it as follows (the `Slot` instance):
- `slot.owner` is the ghost owner of `padded_pre_master`;
- `slot.data` is the block's padding verdict and secret;
- `Zero` is the empty slot.

The property `ScratchSlotDiscipline == Slot!Spec` then says two things:
- a decryption (c:389, c:480) writes only into a cleared buffer;
- only the call that wrote the buffer clears it (c:500, c:551).

Other sessions' steps and this session's other steps are stutters of the slot.

### How `ClientKeyExchange` corresponds to the code

The function is cut into **steps at the points where another thread can observe the shared buffer**. `pc[s]` takes these values:

| `pc[s]` | Code |
|---|---|
| `idle` | outside the function |
| `decrypt` | c:378, before the private-key operation |
| `cleanup` | c:493 |
| `padcheck` | c:510 |
| `finish` | c:549 |

Every branch that does not touch the buffer is one atomic step.

The actions:

- **`ProcessClientKeyExchange(s)`** is the entry. Its five branch operators (`UnknownCiphersuite`, `Ecjpake`, `Psk`, `Ecdh`, `CertBased`) each carry their guards and every error return.
- **`Decrypt`**:
  - a user-defined key is one provider call. The code calls `nx_crypto_operation` unchecked (c:381): with no such routine the call goes through NULL, which is undefined behaviour, modelled as a call that never returns (no step is enabled);
  - a parsed key runs `init`, then the optional CRT primes, then `DECRYPT`;
  - with no `nx_crypto_operation` the decryption is skipped (c:419), nothing is written, and the call goes on to the cleanup and the padding check;
  - every failure returns without the clear.
- **`Cleanup`**: the provider cleanup. On failure it clears the buffer and returns (c:493-505).
- **`PadCheck`**: good padding copies the secret, bad padding gives a random premaster. The size is fixed in both cases.
- **`Finish`**: the clear under `KEY_CLEAR`, and the `SERVER_DISABLED` error.

How the data is abstracted:

- A message is a record: its suite, the local certificate type, `message_length` (`mlen`), the declared sub-length (`len`), a padding verdict (`padOK`) and the client's secret.
- The scratch buffer is `Zero` or the block a session's decryption wrote (`owner` is a ghost).
- `read_end`, `entry_pms`, `decrypted` and `pad_checked` are ghosts for the properties.
- `lock` is the caller's mutex. When `CallerLock`, it is taken at entry and released on return.

### How `SessionReceive` corresponds to the code

`rpc` takes these values:

| `rpc` | Code |
|---|---|
| `fetch1` | r:293 |
| `handshake` | r:305 |
| `fetch2` | r:317 |
| `loop` | r:326-329 |

- `SessionReceive` takes the snapshot of r:274-290. `tls_state = "RENEGOTIATING"` stands for both the client's `RENEGOTIATING` and the server's `HELLO_REQUEST`.
- The record layer is `ReceiveRecords`/`FetchResult`. A fetch consumes the peer's next record, or returns `NO_PACKET` when the wire is empty and the wait is finite. A hello sets the flag, and a data record fills `packet`.
- `PeerSend` and `LocalRenegotiate` are the environment.

## 3. Runs

Bounds shared by all key-exchange runs:

| Constant | Value |
|---|---|
| Sessions | 2 |
| Secrets | 2 |
| `MaxLen` | 3 |
| `PmsCapacity` | 2 |
| `RsaPmsSize` | 1 |
| `EcjpakePmsSize` | 2 |
| `ProviderPmsSizes` | {1, 2} |

These are enough for the following:
- two sessions are the least that can interleave on the buffer;
- two secrets let one session read another's secret;
- `MaxLen` 3 with lengths 1-3 covers the boundary `len = mlen` and the NULL truncation (3 > capacity 2);
- `MaxCalls` 2 lets a session's second handshake see what its first left behind;
- `ScratchSize` 2 stands for the 600-byte buffer. An RSA ciphertext of length 2 stands for one of the modulus length: it fits the buffer and is longer than the 1-byte premaster secret and its separator. In `cke_padindex` the lengths 1 and 3 stand for a ciphertext under 49 bytes and one over 600 bytes.

Without the caller's mutex (`CallerLock = FALSE`), `ScratchSlotDiscipline` is violated: a second session's decryption overwrites a held slot. `cke_nolock` shows the consequence that matters, a premaster taken from another session's block.

All key-exchange cfgs use `CHECK_DEADLOCK FALSE`, because `MaxCalls` bounds the handshakes and the system then stops.

| Run | Expect | Checks | Shows |
|---|---|---|---|
| `cke_main` | pass (2.30M states) | TypeOK, PremasterFromOwnCiphertext, PaddingOblivious, ScratchClearedAtRest, PmsWithinCapacity, ScratchSlotDiscipline | all branches, full RSA method, caller mutex, KEY_CLEAR: the buffer discipline holds and the buffer refines `ScratchSlot` |
| `cke_variants` | pass | PremasterFromOwnCiphertext | SERVER_DISABLED and an RSA method with no routines: the check after the skipped decryption (c:419) reads the cleared buffer and yields a random premaster |
| `cke_nolock` | violation | PremasterFromOwnCiphertext | without the caller's mutex a session adopts another's plaintext |
| `cke_faileddecrypt` | violation | ScratchClearedAtRest | a failed decryption that wrote output leaves plaintext behind (c:488) |
| `cke_overread` | violation | NoOverread | `len = mlen` passes c:183 / c:331 and reads past the message |
| `cke_nullsuite` | violation | UnsupportedCipherLeavesKeyMaterial | NULL suite writes key material, then reports UNSUPPORTED_PUBLIC_CIPHER |
| `cke_padindex` | violation | PadReadsInBuffer | an RSA ciphertext shorter than the premaster secret, or longer than the buffer, reaches the padding check, which reads outside the static buffer (c:512, c:539) |
| `cke_nodecrypt` | violation | DecryptBeforePadCheck | an RSA method with no operation routine skips the decryption (c:419), runs the padding check anyway and returns SUCCESS; spec §7(b) calls a missing crypto routine a fatal configuration error |
| `receive_main` | pass | TypeOK, RenegotiationFetchPolicy, PostHandshakeConsumed, ReceiveReturns | fetch policy, loop consumption, termination |
| `receive_dataloss` | violation | DataNotOverwritten | a stale renegotiation flag makes the follow-up fetch overwrite a data packet |
| `receive_stall` | violation | RenegotiationAnswered | a hello surfaced in the loop is never handled while the peer waits |

The receive runs use `MaxRecords` 4, `MaxLocalReneg` 1 and a finite wait. Four records are enough to reach, for example, hello → data → hello → data: a renegotiation, a post message, and data in either fetch.

Every property of a passing run is broken by a mutant of the code it is about (PROJECT.json "mutants").

### Fairness

`FairSpec` assumes weak fairness of the application thread's steps inside a receive call (`ReceiveStep`). This is justified because:
- the thread is runnable;
- with a finite `wait_option` every fetch returns, with a record or with `NO_PACKET`.

`ClientLoopSpec` also assumes that the application calls receive again and again, as the MQTT client's receive thread does. No fairness is assumed of the peer: it may stay silent.

## 4. Proofs

All proofs are checked by `tlapm`.

### `ClientKeyExchangeProofs.tla`

**`TypeCorrect`: `Spec => []TypeOK`.**
- Its assumption is `ConstantsAssumption`. Two of its conjuncts bound sizes the code does not check: a provider's reported premaster size is at most the capacity it is passed (c:300, `sizeof` of the premaster buffer), and the ECJPAKE size is the literal 32 (c:130). A provider that reports more than it was given is outside `src/`.
- Each entry branch stores a size within `0..MaxLen`. The read end stays within `MaxLen + 2`.
- Lemmas: `EntryTyped`, `SetPmsTyped`, `SizeUpdateTyped`.

**`PmsFitsBuffer`: `Spec => []PmsWithinCapacity`**, for every build.
- It is inductive together with `TypeOK`.
- Lemmas: `EntryFits`, `SetPmsFits`.

**`OwnPremasterUnderLock`: `OwnBlockBuild => (Spec => []PremasterFromOwnCiphertext)`**, where `OwnBlockBuild` is `CallerLock /\ ~FailedDecryptWrites`. It is a weaker hypothesis than `Serialised` (`CallerLock /\ KeyClear /\ ~FailedDecryptWrites`), by the lemma `SerialisedOwnBlock`. The theorem holds with or without KEY_CLEAR and with or without an RSA operation routine: without one nothing ever writes the buffer (c:419), so a check that follows a skipped decryption reads `Zero` and yields a random premaster. `cke_nolock` shows that the mutex cannot be dropped. That the code runs the check at all after a skipped decryption is the finding of `cke_nodecrypt`.

The property is not inductive by itself, so the proof uses the strengthening `IInv`:

- `TypeOK`;
- `LockInv`: a session inside the function holds the mutex, so at most one session is inside (`OnlyOneInside`);
- `ScratchInv`. It has four conjuncts:
  - with KEY_CLEAR and every session idle or before its decryption, the buffer is `Zero`;
  - at `cleanup`, `padcheck` and `finish` the buffer holds exactly the session's own block when its decryption succeeded, and `Zero` when it did not and KEY_CLEAR is defined;
  - a session at `cleanup` or `padcheck` that decrypted nothing got there through an RSA method without an operation routine;
  - with such a method the buffer is always `Zero`, since only the operation routine writes it. With the previous conjunct, the check after a skipped decryption reads `Zero` and produces a random premaster, KEY_CLEAR or not;
- `PadCheckedInv`: the check has run only at `finish` or after return;
- `DecryptInv`: a session at `decrypt` has not decrypted yet;
- the property itself.

`IInv` was first checked by TLC on the `cke_main` instance (2.30M states). It was also checked with KEY_CLEAR off and the full RSA method (3.23M states), and with KEY_CLEAR off and the bare method on every message (664K states). The step lemma `IInvStep` has one step per action and one sub-step per conjunct. The argument:
- the entry can only happen when nobody is inside, so the buffer is `Zero`;
- a decryption writes the session's own block;
- the padding check reads that block;
- every return to rest clears the buffer, when KEY_CLEAR is defined;
- without KEY_CLEAR, a session reaching the check either decrypted first or runs a method that never writes the buffer.

**`ScratchClearedHolds`: `KeyClear /\ ~FailedDecryptWrites => (Spec => []ScratchClearedAtRest)`**, with or without the caller's mutex. The strengthening is `HolderInv`: the buffer is `Zero`, or it holds the own block of a session that decrypted and is still at `cleanup`, `padcheck` or `finish`. The argument:
- the last session to write the buffer clears it on its way out (c:500 or c:551), whatever other sessions wrote before;
- a step of another session leaves the holder's step, flag and message alone (`OtherHolderKept`).

TLC checked the property without the mutex first (7.04M states). `cke_faileddecrypt` shows that the second hypothesis is needed.

**`ScratchSlotRefinement`: `Serialised => (Spec => ScratchSlotDiscipline)`.** This is the refinement of `ScratchSlot`, laid out as the standard three facts:
- `Spec => []IInv`;
- `Init => Slot!Init`: the buffer starts as `Zero`, the empty slot (`ZeroIsEmpty`);
- `IInv /\ [Next]_vars => [Slot!Next]_SlotBar` (`SlotStep`), with one step per action:
  - a successful decryption starts from `Zero`, because only the decrypting session is inside; it is `Slot!Fill(s)` (`DecryptFills`);
  - a failed cleanup and the final clear are `Slot!Clear(s)` when the session's decryption wrote the buffer, and a stutter when it did not (`ClearByHolder`, which needs `ScratchInv` at `finish`);
  - every other step leaves the buffer alone (`SlotStutter`).

The violation runs show that the hypotheses cannot be dropped:
- `cke_nolock` drops the mutex;
- `cke_faileddecrypt` lets a failed decryption write its output;

`ScratchSlotRefinement` keeps `Serialised`. Without KEY_CLEAR a decryption writes over a full slot, and without the mutex it overwrites a slot another session holds.

**`PaddingObliviousHolds`: `Spec => []PaddingOblivious`**, in every build, with or without the mutex. The strengthening is `CheckedInv`. A session that ran the padding check is at `finish` or idle, and has premaster size `RsaPmsSize`. Once idle, it has the status of the final step, `FinishStatus`. The argument:
- only the session's own steps change its status, premaster and flag (`EntryLocal`, `UncheckedStep`);
- the entry resets the flag;
- so the buffer contents the check reads never matter.

### `SessionReceiveProofs.tla`

**`ReceiveTypeCorrect`**, **`FetchPolicyHolds`** and **`PostHandshakeConsumedHolds`** prove `Spec => []TypeOK`, `Spec => []RenegotiationFetchPolicy` and `Spec => []PostHandshakeConsumed`. They hold for every `MaxRecords` and `MaxLocalReneg` and either wait option. They rest on one strengthening, `IInv`. It was checked by TLC first, with `MaxRecords` 4, `MaxLocalReneg` 2, and both wait options.

- **`FetchCountInv`.** Records waiting never exceed records sent. Inside a call, fetches made plus records waiting never exceed records sent. Every fetch before a call's last one consumed a record: the handshake is entered only on a `SUCCESS`, the loop only on a post-handshake message, and the record layer reports either only for a record it took (`FetchFacts`). This bounds `fetches` by `MaxRecords + 1` and is what `TypeOK` needs.
- **`PhaseInv`.** These are the ghost counters at each step of the call:
  - at the first fetch, no fetch and no handshake yet;
  - at the handshake, one fetch;
  - at the follow-up fetch, one fetch, a completed handshake, and no local request;
  - in the loop, no handshake.

  With these, the fetch policy and the post-handshake property are preserved step by step.

The step lemma has one lemma per action (`EnvironmentStep`, `EntryStep`, `FirstFetchStep`, `HandshakeStep`, `SecondFetchStep`, `LoopStep`), with one step per conjunct.

### Only model-checked

These are out of TLAPS's reach here:
- the liveness properties (`ReceiveReturns`, `RenegotiationAnswered`), which need fairness and `ENABLED`;
- the violation runs, which are counterexamples by nature.

The receive path has no abstract specification to refine. Its contract (spec §4.1) is the fetch policy itself, and that is proved directly (`FetchPolicyHolds`, `PostHandshakeConsumedHolds`). A one-step abstract call would need a history variable of the call's fetch outcomes. It would restate the same policy, and would say nothing new about the code.

## 5. Not modelled, and why

- **Crypto arithmetic and byte layouts.** Out of scope (spec §1). The padding verdict is an input. The ciphertext length is kept, because the padding index (c:512) and the premaster copy (c:539) depend on it.
- **Whether a provider accepts a ciphertext of the wrong length.** The provider is not in `src/`. A decryption of any length may succeed, and a method without `DECRYPT` reaches the check with any length.
- **The full handshake state machine and the record layer.** Not in `src/`. Only their contract is modelled, from the spec. This is also why the two functions are not composed into one module: the handshake that connects them would be modelled wholly from the spec.
- **Application, MQTT client and host scaffolding (r:1-181).** This is text, not code.
- **Timing.** The countermeasure is checked as equality of status and premaster size, not as a timing profile.
