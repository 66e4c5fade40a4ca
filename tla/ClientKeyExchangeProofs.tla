----------------------- MODULE ClientKeyExchangeProofs -----------------------
(***************************************************************************)
(* Proofs about ClientKeyExchange for every value of the constants.        *)
(***************************************************************************)
EXTENDS ClientKeyExchange, TLAPS

(* The caller's mutex is held by the one session inside the function. *)
LockInv ==
  CallerLock => \A s \in Sessions : pc[s] # "idle" => lock = s

(* What the shared scratch buffer holds at each step of the RSA path.  A *)
(* session past its private-key operation finds its own block there; one *)
(* that decrypted nothing finds zeros when NX_SECURE_KEY_CLEAR is defined, *)
(* and reaches the padding check only through an RSA method without an    *)
(* operation routine (the branch of lines 419-491 that writes nothing).   *)
ScratchInv ==
  /\ KeyClear /\ (\A s \in Sessions : pc[s] \in {"idle", "decrypt"}) =>
        padded_pre_master = Zero
  /\ \A s \in Sessions :
       pc[s] \in {"cleanup", "padcheck", "finish"} /\ (decrypted[s] \/ KeyClear) =>
          padded_pre_master = IF decrypted[s] THEN DecryptedBlock(s) ELSE Zero
  /\ \A s \in Sessions :
       pc[s] \in {"cleanup", "padcheck"} /\ ~decrypted[s] =>
          ~RsaMethod.operation
  /\ ~RsaMethod.operation => padded_pre_master = Zero

(* The padding check has run only in the finish step or after return. *)
PadCheckedInv ==
  \A s \in Sessions : pad_checked[s] => pc[s] \in {"finish", "idle"}

(* A call waiting for its private-key operation has not decrypted yet. *)
DecryptInv ==
  \A s \in Sessions : pc[s] = "decrypt" => ~decrypted[s]

(* The inductive strengthening of PremasterFromOwnCiphertext. *)
IInv ==
  /\ TypeOK
  /\ LockInv
  /\ ScratchInv
  /\ PadCheckedInv
  /\ DecryptInv
  /\ PremasterFromOwnCiphertext

(* The status the final step returns (lines 550-560). *)
FinishStatus == IF ServerDisabled THEN "INVALID_STATE" ELSE "SUCCESS"

(* A session whose call ran the padding check has the fixed RSA premaster *)
(* size, and, once returned, the status of the final step.               *)
CheckedInv ==
  \A s \in Sessions :
     pad_checked[s] =>
        /\ pc[s] \in {"finish", "idle"}
        /\ pre_master_secret[s].size = RsaPmsSize
        /\ pc[s] = "idle" => status[s] = FinishStatus

-----------------------------------------------------------------------------
(* Type correctness *)

(* The constants' assumption gives every message a type. *)
LEMMA MessageTyped ==
  ASSUME NEW m \in Messages
  PROVE  /\ m \in MessageSpace
         /\ m.len \in 0..MaxLen /\ m.mlen \in 0..MaxLen
         /\ m.secret \in Secrets /\ m.padOK \in BOOLEAN
BY ConstantsAssumption DEF MessageSpace

(* Every size the function stores into the key material is within 0..MaxLen. *)
LEMMA SizesTyped ==
  /\ RsaPmsSize \in 0..MaxLen
  /\ EcjpakePmsSize \in 0..MaxLen
  /\ ProviderPmsSizes \subseteq 0..MaxLen
  /\ \A n \in 0..MaxLen : MinNat(n, PmsCapacity) \in 0..MaxLen
BY ConstantsAssumption DEF MinNat

(* The status, step and lock a call leaves behind when it returns or goes  *)
(* on to a later step keep their types.                                    *)
LEMMA ReturnTyped ==
  ASSUME TypeOK, NEW s \in Sessions, NEW st \in Statuses, Return(s, st)
  PROVE  /\ pc' \in [Sessions -> Steps]
         /\ status' \in [Sessions -> Statuses]
         /\ lock' \in Sessions \cup {NoSession}
BY DEF TypeOK, Steps, Return

LEMMA ContinueTyped ==
  ASSUME TypeOK, NEW s \in Sessions, NEW step \in Steps, Continue(s, step)
  PROVE  /\ pc' \in [Sessions -> Steps]
         /\ status' \in [Sessions -> Statuses]
         /\ lock' \in Sessions \cup {NoSession}
BY DEF TypeOK, Continue, Goto

(* A premaster secret of a known kind and a size within 0..MaxLen is typed. *)
LEMMA SetPmsTyped ==
  ASSUME TypeOK, NEW s \in Sessions, NEW k \in PmsKinds,
         NEW v \in Secrets \cup {NoSecret}, NEW n \in 0..MaxLen,
         SetPms(s, k, v, n)
  PROVE  pre_master_secret' \in [Sessions -> Pms]
BY DEF TypeOK, SetPms, Pms

(* Setting the size of one session's premaster secret keeps its type. *)
LEMMA SizeUpdateTyped ==
  ASSUME NEW f \in [Sessions -> Pms], NEW s \in Sessions, NEW n \in 0..MaxLen
  PROVE  [f EXCEPT ![s].size = n] \in [Sessions -> Pms]
<1>1. [f[s] EXCEPT !.size = n] \in Pms
  BY Zenon DEF Pms
<1> QED BY <1>1, Zenon

(* The part of the entry step every branch sets: status, step and lock. *)
ControlTyped ==
  /\ pc' \in [Sessions -> Steps]
  /\ status' \in [Sessions -> Statuses]
  /\ lock' \in Sessions \cup {NoSession}

(* Every branch of the entry step keeps the types of the variables it sets. *)
LEMMA EntryTyped ==
  ASSUME TypeOK, NEW s \in Sessions, NEW m \in Messages,
         UnknownCiphersuite(s, m) \/ Ecjpake(s, m) \/ Psk(s, m)
           \/ Ecdh(s, m) \/ CertBased(s, m)
  PROVE  /\ pre_master_secret' \in [Sessions -> Pms]
         /\ read_end' \in [Sessions -> 0..MaxLen + 2]
         /\ ControlTyped
<1> DEFINE Ret(st) == Return(s, st)
<1>1. m.len \in 0..MaxLen /\ m.mlen \in 0..MaxLen /\ m.secret \in Secrets
  BY MessageTyped
<1>0. /\ \A st \in Statuses : Return(s, st) => ControlTyped
      /\ \A step \in Steps : Continue(s, step) => ControlTyped
  BY ReturnTyped, ContinueTyped DEF ControlTyped
<1>r. ASSUME NEW n \in 0..MaxLen + 2, SetReadEnd(s, n)
      PROVE  read_end' \in [Sessions -> 0..MaxLen + 2]
  BY <1>r DEF TypeOK, SetReadEnd
<1>2. CASE UnknownCiphersuite(s, m)
  BY <1>0, <1>2 DEF UnknownCiphersuite, TypeOK, Statuses
<1>3. CASE Ecjpake(s, m)
  <2>1. read_end' \in [Sessions -> 0..MaxLen + 2]
    BY <1>1, <1>3, <1>r, ConstantsAssumption DEF Ecjpake
  <2>2. pre_master_secret' \in [Sessions -> Pms]
    <3>1. CASE pre_master_secret' = [pre_master_secret EXCEPT ![s].size = EcjpakePmsSize]
      <4>1. EcjpakePmsSize \in 0..MaxLen /\ pre_master_secret \in [Sessions -> Pms]
        BY SizesTyped DEF TypeOK
      <4> QED BY <3>1, <4>1, SizeUpdateTyped, Zenon
    <3>2. CASE SetPms(s, "ecjpake", NoSecret, EcjpakePmsSize)
      BY <3>2, SizesTyped DEF SetPms, TypeOK, Pms, PmsKinds
    <3> QED BY <1>3, <3>1, <3>2 DEF Ecjpake
  <2>3. ControlTyped
    BY <1>0, <1>3 DEF Ecjpake, Statuses, Steps
  <2> QED BY <2>1, <2>2, <2>3
<1>4. CASE Psk(s, m)
  <2>1. CASE UNCHANGED pre_master_secret
    BY <1>0, <1>4, <2>1 DEF Psk, TypeOK, Statuses, Steps
  <2>2. CASE \E n \in ProviderPmsSizes : SetPms(s, "psk", NoSecret, n)
    <3>1. pre_master_secret' \in [Sessions -> Pms]
      BY <2>2, SetPmsTyped, SizesTyped DEF PmsKinds
    <3> QED BY <1>0, <1>4, <3>1 DEF Psk, TypeOK, Statuses, Steps
  <2> QED BY <1>4, <2>1, <2>2 DEF Psk
<1>5. CASE Ecdh(s, m)
  <2>1. read_end' \in [Sessions -> 0..MaxLen + 2]
    BY <1>1, <1>5, <1>r, ConstantsAssumption DEF Ecdh
  <2>2. ControlTyped
    BY <1>0, <1>5 DEF Ecdh, Statuses, Steps
  <2>3. pre_master_secret' \in [Sessions -> Pms]
    <3>1. CASE UNCHANGED pre_master_secret
      BY <3>1 DEF TypeOK
    <3>2. CASE \E n \in ProviderPmsSizes : SetPms(s, "ecdh", NoSecret, n)
      BY <3>2, SetPmsTyped, SizesTyped DEF PmsKinds
    <3> QED BY <1>5, <3>1, <3>2 DEF Ecdh
  <2> QED BY <2>1, <2>2, <2>3
<1>6. CASE CertBased(s, m)
  <2>1. read_end' \in [Sessions -> 0..MaxLen + 2]
    BY <1>1, <1>6, <1>r, ConstantsAssumption DEF CertBased
  <2>2. pre_master_secret' \in [Sessions -> Pms]
    <3>1. CASE UNCHANGED pre_master_secret
      BY <3>1 DEF TypeOK
    <3>2. CASE SetPms(s, "plain", m.secret, MinNat(m.len, PmsCapacity))
      BY <1>1, <3>2, SetPmsTyped, SizesTyped DEF PmsKinds
    <3> QED BY <1>6, <3>1, <3>2 DEF CertBased
  <2>3. ControlTyped
    <3>1. "CERTIFICATE_NOT_FOUND" \in Statuses /\ "UNSUPPORTED_PUBLIC_CIPHER" \in Statuses
          /\ "INCORRECT_MESSAGE_LENGTH" \in Statuses /\ "decrypt" \in Steps
      BY DEF Statuses, Steps
    <3> QED BY <1>0, <1>6, <3>1, Zenon DEF CertBased
  <2> QED BY <2>1, <2>2, <2>3
<1> QED BY <1>2, <1>3, <1>4, <1>5, <1>6 DEF ControlTyped, UnknownCiphersuite, TypeOK

(* The initial state is typed. *)
LEMMA TypeInit == Init => TypeOK
<1> SUFFICES ASSUME Init PROVE TypeOK
  OBVIOUS
<1>1. (CHOOSE m \in Messages : TRUE) \in MessageSpace
  BY ConstantsAssumption
<1>2. ZeroPms \in Pms /\ Zero \in Block
  BY ConstantsAssumption DEF ZeroPms, Pms, PmsKinds, Zero, Block
<1> QED BY <1>1, <1>2, ConstantsAssumption DEF Init, TypeOK, Steps, Statuses

(* Every step keeps the types. *)
LEMMA TypeStep == TypeOK /\ [Next]_vars => TypeOK'
<1> SUFFICES ASSUME TypeOK, [Next]_vars PROVE TypeOK'
  OBVIOUS
<1>1. CASE UNCHANGED vars
  BY <1>1 DEF vars, TypeOK
<1>2. ASSUME NEW s \in Sessions, ProcessClientKeyExchange(s) PROVE TypeOK'
  <2>1. PICK m \in Messages :
          /\ msg' = [msg EXCEPT ![s] = m]
          /\ UnknownCiphersuite(s, m) \/ Ecjpake(s, m) \/ Psk(s, m)
               \/ Ecdh(s, m) \/ CertBased(s, m)
    BY <1>2 DEF ProcessClientKeyExchange
  <2>2. m \in MessageSpace
    BY MessageTyped
  <2>3. /\ pre_master_secret' \in [Sessions -> Pms]
        /\ read_end' \in [Sessions -> 0..MaxLen + 2]
        /\ ControlTyped
    BY <2>1, EntryTyped
  <2>4. calls' \in [Sessions -> 0..MaxCalls]
    BY <1>2, ConstantsAssumption DEF ProcessClientKeyExchange, TypeOK
  <2> QED BY <1>2, <2>1, <2>2, <2>3, <2>4
          DEF ProcessClientKeyExchange, TypeOK, ControlTyped
<1>3. ASSUME NEW s \in Sessions, Decrypt(s) PROVE TypeOK'
  <2>1. DecryptedBlock(s) \in Block
    BY DEF TypeOK, MessageSpace, DecryptedBlock, Block
  <2> QED BY <1>3, <2>1 DEF Decrypt, TypeOK, Steps, Statuses, Return, Continue, Goto
<1>4. ASSUME NEW s \in Sessions, Cleanup(s) PROVE TypeOK'
  <2>1. Zero \in Block
    BY ConstantsAssumption DEF Zero, Block
  <2> QED BY <1>4, <2>1 DEF Cleanup, TypeOK, Steps, Statuses, Return, Continue, Goto
<1>5. ASSUME NEW s \in Sessions, PadCheck(s) PROVE TypeOK'
  <2>1. pre_master_secret' \in [Sessions -> Pms]
    <3>1. RsaPmsSize \in 0..MaxLen /\ padded_pre_master.secret \in Secrets \cup {NoSecret}
      BY SizesTyped DEF TypeOK, Block
    <3>2. CASE padded_pre_master.ok
      <4>1. SetPms(s, "secret", padded_pre_master.secret, RsaPmsSize)
        BY <1>5, <3>2 DEF PadCheck
      <4> QED BY <3>1, <4>1, SetPmsTyped DEF PmsKinds
    <3>3. CASE ~padded_pre_master.ok
      <4>1. SetPms(s, "random", NoSecret, RsaPmsSize)
        BY <1>5, <3>3 DEF PadCheck
      <4> QED BY <3>1, <4>1, SetPmsTyped DEF PmsKinds
    <3> QED BY <3>2, <3>3
  <2>2. ControlTyped
    BY <1>5 DEF PadCheck, Steps, ControlTyped, Continue, Goto, TypeOK
  <2> QED BY <1>5, <2>1, <2>2 DEF PadCheck, TypeOK, ControlTyped
<1>6. ASSUME NEW s \in Sessions, Finish(s) PROVE TypeOK'
  <2>1. Zero \in Block
    BY ConstantsAssumption DEF Zero, Block
  <2> QED BY <1>6, <2>1 DEF Finish, TypeOK, Steps, Statuses, Return
<1> QED BY <1>1, <1>2, <1>3, <1>4, <1>5, <1>6 DEF Next
(* Type correctness of the processor: every step of every session keeps   *)
(* the variables of _nx_secure_tls_process_client_key_exchange in their    *)
(* types, in particular the read position within MaxLen + 2 and the call   *)
(* counter within MaxCalls.                                               *)
THEOREM TypeCorrect == Spec => []TypeOK
BY TypeInit, TypeStep, PTL DEF Spec


-----------------------------------------------------------------------------
(* The premaster size and the key-material buffer *)

(* Writing a premaster secret of size at most PmsCapacity for one session  *)
(* keeps every session's size within the buffer.                           *)
LEMMA SetPmsFits ==
  ASSUME TypeOK, PmsWithinCapacity, NEW s \in Sessions, NEW k, NEW v,
         NEW n \in 0..PmsCapacity, SetPms(s, k, v, n)
  PROVE  PmsWithinCapacity'
BY ConstantsAssumption DEF TypeOK, SetPms, PmsWithinCapacity

(* Every branch of the entry step stores a size within the buffer. *)
LEMMA EntryFits ==
  ASSUME TypeOK, PmsWithinCapacity, NEW s \in Sessions, NEW m \in Messages,
         UnknownCiphersuite(s, m) \/ Ecjpake(s, m) \/ Psk(s, m)
           \/ Ecdh(s, m) \/ CertBased(s, m)
  PROVE  PmsWithinCapacity'
<1>0. /\ RsaPmsSize \in 0..PmsCapacity
      /\ EcjpakePmsSize \in 0..PmsCapacity
      /\ ProviderPmsSizes \subseteq 0..PmsCapacity
      /\ m.len \in Nat
      /\ MinNat(m.len, PmsCapacity) \in 0..PmsCapacity
  BY MessageTyped, ConstantsAssumption DEF MinNat
<1>1. CASE UNCHANGED pre_master_secret
  BY <1>1 DEF PmsWithinCapacity
<1>2. CASE pre_master_secret' = [pre_master_secret EXCEPT ![s].size = EcjpakePmsSize]
  <2> DEFINE q == [pre_master_secret[s] EXCEPT !.size = EcjpakePmsSize]
  <2>1. pre_master_secret' = [pre_master_secret EXCEPT ![s] = q]
    BY <1>2
  <2>2. q.size = EcjpakePmsSize
    BY Zenon DEF TypeOK, Pms
  <2> HIDE DEF q
  <2> QED BY <1>0, <2>1, <2>2 DEF PmsWithinCapacity, TypeOK
<1>3. CASE \E k, v : \E n \in 0..PmsCapacity : SetPms(s, k, v, n)
  BY <1>3, SetPmsFits
<1> QED
  <2>1. \/ UNCHANGED pre_master_secret
        \/ pre_master_secret' = [pre_master_secret EXCEPT ![s].size = EcjpakePmsSize]
        \/ \E k, v : \E n \in 0..PmsCapacity : SetPms(s, k, v, n)
    <3>1. CASE UnknownCiphersuite(s, m)
      BY <3>1 DEF UnknownCiphersuite
    <3>2. CASE Ecjpake(s, m)
      BY <1>0, <3>2, Zenon DEF Ecjpake
    <3>3. CASE Psk(s, m)
      BY <1>0, <3>3, Zenon DEF Psk
    <3>4. CASE Ecdh(s, m)
      BY <1>0, <3>4, Zenon DEF Ecdh
    <3>5. CASE CertBased(s, m)
      BY <1>0, <3>5, Zenon DEF CertBased
    <3> QED BY <3>1, <3>2, <3>3, <3>4, <3>5
  <2> QED BY <2>1, <1>1, <1>2, <1>3

(* The premaster size never exceeds sizeof(nx_secure_tls_pre_master_secret): *)
(* the NULL-ciphersuite copy of lines 344-349 is truncated and every other *)
(* branch stores a fixed or provider size within the buffer, for every     *)
(* build and every interleaving of sessions.                               *)
THEOREM PmsFitsBuffer == Spec => []PmsWithinCapacity
<1>1. Init => TypeOK /\ PmsWithinCapacity
  BY TypeInit, ConstantsAssumption DEF Init, ZeroPms, PmsWithinCapacity
<1>2. TypeOK /\ PmsWithinCapacity /\ [Next]_vars => PmsWithinCapacity'
  <2> SUFFICES ASSUME TypeOK, PmsWithinCapacity, [Next]_vars
               PROVE  PmsWithinCapacity'
    OBVIOUS
  <2>1. CASE UNCHANGED vars
    BY <2>1 DEF vars, PmsWithinCapacity
  <2>2. ASSUME NEW s \in Sessions, ProcessClientKeyExchange(s)
        PROVE  PmsWithinCapacity'
    BY <2>2, EntryFits DEF ProcessClientKeyExchange
  <2>3. ASSUME NEW s \in Sessions, PadCheck(s) PROVE PmsWithinCapacity'
    <3>1. RsaPmsSize \in 0..PmsCapacity
      BY ConstantsAssumption
    <3>2. \E k, v : SetPms(s, k, v, RsaPmsSize)
      BY <2>3, Zenon DEF PadCheck
    <3> QED BY <3>1, <3>2, SetPmsFits
  <2>4. ASSUME NEW s \in Sessions,
               Decrypt(s) \/ Cleanup(s) \/ Finish(s)
        PROVE  PmsWithinCapacity'
    BY <2>4 DEF Decrypt, Cleanup, Finish, PmsWithinCapacity
  <2> QED BY <2>1, <2>2, <2>3, <2>4 DEF Next
<1> QED BY <1>1, <1>2, TypeStep, PTL DEF Spec

-----------------------------------------------------------------------------
(* The shared scratch buffer under the caller's mutex *)

(* The build and deployment the theorem is about: the caller serialises   *)
(* the function, NX_SECURE_KEY_CLEAR is defined, and a failing private-key *)
(* operation leaves the output buffer alone.                              *)
Serialised == CallerLock /\ KeyClear /\ ~FailedDecryptWrites

(* The wider family of builds in which each session's padding check reads *)
(* its own block: the caller serialises the function and a failing        *)
(* private-key operation leaves the output buffer alone, with or without  *)
(* NX_SECURE_KEY_CLEAR and an RSA operation routine (without one, lines   *)
(* 419-491 never write the buffer, so it stays cleared).                  *)
OwnBlockBuild == CallerLock /\ ~FailedDecryptWrites

(* How a step leaves the function: the session's new step x, and the      *)
(* caller's mutex released on return and held otherwise.                  *)
Exits(s, X) ==
  \E x \in X : /\ pc' = [pc EXCEPT ![s] = x]
               /\ lock' = IF x = "idle" THEN NoSession ELSE s

LEMMA ReturnExits ==
  ASSUME CallerLock, NEW s, NEW st, NEW X, "idle" \in X, Return(s, st)
  PROVE  Exits(s, X)
BY DEF Return, Exits

LEMMA ContinueExits ==
  ASSUME CallerLock, NEW s, NEW step, NEW X, step \in X, step # "idle",
         Continue(s, step)
  PROVE  Exits(s, X)
BY DEF Continue, Goto, Exits

(* Every branch of the entry step returns or goes on to the decryption or *)
(* the final clear, and touches only the calling session's key material.  *)
LEMMA EntryExits ==
  ASSUME TypeOK, CallerLock, NEW s \in Sessions, NEW m \in Messages,
         UnknownCiphersuite(s, m) \/ Ecjpake(s, m) \/ Psk(s, m)
           \/ Ecdh(s, m) \/ CertBased(s, m)
  PROVE  /\ Exits(s, {"idle", "decrypt", "finish"})
         /\ \A t \in Sessions \ {s} : pre_master_secret'[t] = pre_master_secret[t]
<1> DEFINE X == {"idle", "decrypt", "finish"}
<1>1. /\ \A st : Return(s, st) => Exits(s, X)
      /\ Continue(s, "finish") => Exits(s, X)
      /\ Continue(s, "decrypt") => Exits(s, X)
  BY ReturnExits, ContinueExits
<1>2. Exits(s, X)
  <2>1. CASE UnknownCiphersuite(s, m)
    BY <1>1, <2>1 DEF UnknownCiphersuite
  <2>2. CASE Ecjpake(s, m)
    BY <1>1, <2>2 DEF Ecjpake
  <2>3. CASE Psk(s, m)
    BY <1>1, <2>3 DEF Psk
  <2>4. CASE Ecdh(s, m)
    BY <1>1, <2>4 DEF Ecdh
  <2>5. CASE CertBased(s, m)
    BY <1>1, <2>5, Zenon DEF CertBased
  <2> QED BY <2>1, <2>2, <2>3, <2>4, <2>5
<1>3. \A t \in Sessions \ {s} : pre_master_secret'[t] = pre_master_secret[t]
  <2>1. \/ pre_master_secret' = pre_master_secret
        \/ \E p : pre_master_secret' = [pre_master_secret EXCEPT ![s] = p]
    BY Zenon DEF UnknownCiphersuite, Ecjpake, Psk, Ecdh, CertBased, SetPms
  <2> QED BY <2>1 DEF TypeOK
<1> QED BY <1>2, <1>3

(* Under the caller's mutex at most one session is inside the function. *)
LEMMA OnlyOneInside ==
  ASSUME TypeOK, LockInv, CallerLock, NEW s \in Sessions, pc[s] # "idle"
  PROVE  \A t \in Sessions \ {s} : pc[t] = "idle"
BY DEF LockInv

(* The initial state satisfies the inductive invariant. *)
LEMMA IInvInit == Init => IInv
<1> SUFFICES ASSUME Init PROVE IInv
  OBVIOUS
<1> QED BY TypeInit DEF Init, IInv, LockInv, ScratchInv, PadCheckedInv,
                        DecryptInv, PremasterFromOwnCiphertext


(* Every step of a build that keeps each session's block its own keeps   *)
(* the inductive invariant.                                               *)
LEMMA IInvStep ==
  ASSUME OwnBlockBuild, IInv, [Next]_vars
  PROVE  IInv'
<1> USE DEF OwnBlockBuild
<1>0. TypeOK'
  BY TypeStep DEF IInv
<1>1. CASE UNCHANGED vars
  BY <1>1 DEF vars, IInv, LockInv, ScratchInv, PadCheckedInv, DecryptInv,
              PremasterFromOwnCiphertext, DecryptedBlock, TypeOK
<1>2. ASSUME NEW s \in Sessions, ProcessClientKeyExchange(s) PROVE IInv'
  <2>1. \A t \in Sessions : pc[t] = "idle"
    BY <1>2, ConstantsAssumption DEF ProcessClientKeyExchange, IInv, LockInv
  <2>2. KeyClear => padded_pre_master = Zero
    BY <2>1 DEF IInv, ScratchInv
  <2>3. PICK m \in Messages :
          /\ msg' = [msg EXCEPT ![s] = m]
          /\ UnknownCiphersuite(s, m) \/ Ecjpake(s, m) \/ Psk(s, m)
               \/ Ecdh(s, m) \/ CertBased(s, m)
    BY <1>2 DEF ProcessClientKeyExchange
  <2>4. /\ Exits(s, {"idle", "decrypt", "finish"})
        /\ \A t \in Sessions \ {s} : pre_master_secret'[t] = pre_master_secret[t]
    BY <2>3, EntryExits DEF IInv
  <2>5. PICK x \in {"idle", "decrypt", "finish"} :
          /\ pc' = [pc EXCEPT ![s] = x]
          /\ lock' = IF x = "idle" THEN NoSession ELSE s
    BY <2>4 DEF Exits
  <2>6. /\ UNCHANGED padded_pre_master
        /\ decrypted' = [decrypted EXCEPT ![s] = FALSE]
        /\ pad_checked' = [pad_checked EXCEPT ![s] = FALSE]
    BY <1>2 DEF ProcessClientKeyExchange
  <2>7. \A t \in Sessions \ {s} : pc'[t] = "idle"
    BY <2>1, <2>5 DEF IInv, TypeOK
  <2>8. LockInv'
    BY <2>5, <2>7 DEF IInv, TypeOK, LockInv
  <2>9. ScratchInv'
    BY <2>2, <2>5, <2>6, <2>7 DEF IInv, TypeOK, ScratchInv
  <2>10. PadCheckedInv' /\ DecryptInv'
    BY <2>6, <2>7 DEF IInv, TypeOK, PadCheckedInv, DecryptInv
  <2>11. PremasterFromOwnCiphertext'
    BY <2>3, <2>4, <2>6, <2>7, <2>1
       DEF IInv, TypeOK, PremasterFromOwnCiphertext
  <2> QED BY <1>0, <2>8, <2>9, <2>10, <2>11 DEF IInv
<1>3. ASSUME NEW s \in Sessions, Decrypt(s) PROVE IInv'
  <2>1. /\ pc[s] = "decrypt"
        /\ \A t \in Sessions \ {s} : pc[t] = "idle"
    BY <1>3, OnlyOneInside DEF Decrypt, IInv
  <2>2. /\ KeyClear => padded_pre_master = Zero
        /\ ~decrypted[s]
        /\ ~pad_checked[s]
    BY <2>1 DEF IInv, ScratchInv, DecryptInv, PadCheckedInv
  <2>3. UNCHANGED <<msg, pre_master_secret, pad_checked>>
    BY <1>3 DEF Decrypt
  <2>4. \A t \in Sessions \ {s} : pc'[t] = "idle"
    BY <1>3, <2>1 DEF Decrypt, Return, Continue, Goto, IInv, TypeOK
  <2>5. CASE /\ RsaMethod.operation
             /\ padded_pre_master' = DecryptedBlock(s)
             /\ decrypted' = [decrypted EXCEPT ![s] = TRUE]
             /\ \E y \in {"padcheck", "cleanup"} : Continue(s, y)
    <3>1. PICK y \in {"padcheck", "cleanup"} : Continue(s, y)
      BY <2>5
    <3>2. pc'[s] = y /\ lock' = s
      BY <3>1 DEF Continue, Goto, IInv, TypeOK
    <3> QED BY <1>0, <2>2, <2>3, <2>4, <2>5, <3>2
            DEF IInv, TypeOK, LockInv, ScratchInv, PadCheckedInv, DecryptInv,
                PremasterFromOwnCiphertext, DecryptedBlock
  <2>6. CASE /\ ~RsaMethod.operation
             /\ Continue(s, "cleanup")
             /\ UNCHANGED <<padded_pre_master, decrypted>>
    <3>1. pc'[s] = "cleanup" /\ lock' = s
      BY <2>6 DEF Continue, Goto, IInv, TypeOK
    <3> QED BY <1>0, <2>2, <2>3, <2>4, <2>6, <3>1
            DEF IInv, TypeOK, LockInv, ScratchInv, PadCheckedInv, DecryptInv,
                PremasterFromOwnCiphertext
  <2>7. CASE /\ \E st \in Statuses : Return(s, st)
             /\ UNCHANGED <<padded_pre_master, decrypted>>
    <3>1. pc'[s] = "idle" /\ lock' = NoSession
      BY <2>7 DEF Return, IInv, TypeOK
    <3> QED BY <1>0, <2>2, <2>3, <2>4, <2>7, <3>1
            DEF IInv, TypeOK, LockInv, ScratchInv, PadCheckedInv, DecryptInv,
                PremasterFromOwnCiphertext
  <2>8. ~FailedDecryptWrites
    OBVIOUS
  <2> QED
    <3>1. \/ /\ RsaMethod.operation
             /\ padded_pre_master' = DecryptedBlock(s)
             /\ decrypted' = [decrypted EXCEPT ![s] = TRUE]
             /\ \E y \in {"padcheck", "cleanup"} : Continue(s, y)
          \/ /\ ~RsaMethod.operation
             /\ Continue(s, "cleanup")
             /\ UNCHANGED <<padded_pre_master, decrypted>>
          \/ /\ \E st \in Statuses : Return(s, st)
             /\ UNCHANGED <<padded_pre_master, decrypted>>
      BY <1>3, <2>8, Zenon DEF Decrypt, Statuses
    <3> QED BY <3>1, <2>5, <2>6, <2>7
<1>4. ASSUME NEW s \in Sessions, Cleanup(s) PROVE IInv'
  <2>1. /\ pc[s] = "cleanup"
        /\ \A t \in Sessions \ {s} : pc[t] = "idle"
        /\ ~pad_checked[s]
    BY <1>4, OnlyOneInside DEF Cleanup, IInv, PadCheckedInv
  <2>2. UNCHANGED <<msg, pre_master_secret, decrypted, pad_checked>>
    BY <1>4 DEF Cleanup
  <2>3. \A t \in Sessions \ {s} : pc'[t] = "idle"
    BY <1>4, <2>1 DEF Cleanup, Return, Continue, Goto, IInv, TypeOK
  <2>4. CASE Continue(s, "padcheck") /\ UNCHANGED padded_pre_master
    <3>1. pc'[s] = "padcheck" /\ lock' = s
      BY <2>4 DEF Continue, Goto, IInv, TypeOK
    <3> QED BY <1>0, <2>1, <2>2, <2>3, <2>4, <3>1
            DEF IInv, TypeOK, LockInv, ScratchInv, PadCheckedInv, DecryptInv,
                PremasterFromOwnCiphertext, DecryptedBlock
  <2>5. CASE /\ padded_pre_master' = IF KeyClear THEN Zero ELSE padded_pre_master
             /\ Return(s, "PROVIDER_ERROR")
    <3>1. pc'[s] = "idle" /\ lock' = NoSession
      BY <2>5 DEF Return, IInv, TypeOK
    <3> QED BY <1>0, <2>1, <2>2, <2>3, <2>5, <3>1
            DEF IInv, TypeOK, LockInv, ScratchInv, PadCheckedInv, DecryptInv,
                PremasterFromOwnCiphertext
  <2> QED BY <1>4, <2>4, <2>5 DEF Cleanup
<1>5. ASSUME NEW s \in Sessions, PadCheck(s) PROVE IInv'
  <2>1. /\ pc[s] = "padcheck"
        /\ \A t \in Sessions \ {s} : pc[t] = "idle"
        /\ ~pad_checked[s]
    BY <1>5, OnlyOneInside DEF PadCheck, IInv, PadCheckedInv
  <2>2. padded_pre_master = IF decrypted[s] THEN DecryptedBlock(s) ELSE Zero
    <3>1. CASE decrypted[s]
      BY <2>1, <3>1 DEF IInv, ScratchInv
    <3>2. CASE ~decrypted[s]
      <4>1. ~RsaMethod.operation
        BY <2>1, <3>2 DEF IInv, ScratchInv
      <4> QED BY <3>2, <4>1 DEF IInv, ScratchInv
    <3> QED BY <3>1, <3>2
  <2>3. UNCHANGED <<msg, padded_pre_master, decrypted>>
    BY <1>5 DEF PadCheck
  <2>4. /\ pc' = [pc EXCEPT ![s] = "finish"]
        /\ lock' = s
        /\ pad_checked' = [pad_checked EXCEPT ![s] = TRUE]
    BY <1>5 DEF PadCheck, Continue, Goto
  <2>5. pre_master_secret' =
          [pre_master_secret EXCEPT ![s] =
             IF padded_pre_master.ok
               THEN [kind |-> "secret", val |-> padded_pre_master.secret,
                     size |-> RsaPmsSize]
               ELSE [kind |-> "random", val |-> NoSecret, size |-> RsaPmsSize]]
    BY <1>5, Zenon DEF PadCheck, SetPms
  <2>6. pre_master_secret'[s] =
          IF decrypted[s] THEN RsaPms(msg[s]) ELSE pre_master_secret'[s]
    <3>1. CASE decrypted[s]
      <4>1. padded_pre_master = DecryptedBlock(s)
        BY <2>2, <3>1
      <4> QED BY <2>5, <3>1, <4>1 DEF IInv, TypeOK, RsaPms, DecryptedBlock
    <3>2. CASE ~decrypted[s]
      BY <3>2
    <3> QED BY <3>1, <3>2
  <2>7. ~decrypted[s] => pre_master_secret'[s].kind = "random"
    <3> SUFFICES ASSUME ~decrypted[s] PROVE pre_master_secret'[s].kind = "random"
      OBVIOUS
    <3>1. padded_pre_master = Zero
      BY <2>2
    <3> QED BY <2>5, <3>1 DEF IInv, TypeOK, Zero
  <2>8. PremasterFromOwnCiphertext'
    BY <2>1, <2>3, <2>4, <2>5, <2>6, <2>7, <1>0
       DEF IInv, TypeOK, PremasterFromOwnCiphertext
  <2>9. ScratchInv'
    <3>1. DecryptedBlock(s)' = DecryptedBlock(s)
      BY <2>3 DEF DecryptedBlock
    <3>2. pc'[s] = "finish" /\ \A t \in Sessions \ {s} : pc'[t] = "idle"
      BY <2>1, <2>4 DEF IInv, TypeOK
    <3>3. ~RsaMethod.operation => padded_pre_master' = Zero
      BY <2>3 DEF IInv, ScratchInv
    <3> QED BY <2>2, <2>3, <3>1, <3>2, <3>3 DEF ScratchInv
  <2> QED BY <1>0, <2>1, <2>3, <2>4, <2>8, <2>9
          DEF IInv, TypeOK, LockInv, PadCheckedInv, DecryptInv
<1>6. ASSUME NEW s \in Sessions, Finish(s) PROVE IInv'
  <2>1. /\ pc[s] = "finish"
        /\ \A t \in Sessions \ {s} : pc[t] = "idle"
    BY <1>6, OnlyOneInside DEF Finish, IInv
  <2>2. /\ pc' = [pc EXCEPT ![s] = "idle"]
        /\ lock' = NoSession
        /\ padded_pre_master' = IF KeyClear THEN Zero ELSE padded_pre_master
    BY <1>6 DEF Finish, Return
  <2>3. UNCHANGED <<msg, pre_master_secret, decrypted, pad_checked>>
    BY <1>6 DEF Finish
  <2> QED BY <1>0, <2>1, <2>2, <2>3
          DEF IInv, TypeOK, LockInv, ScratchInv, PadCheckedInv, DecryptInv,
              PremasterFromOwnCiphertext
<1> QED BY <1>1, <1>2, <1>3, <1>4, <1>5, <1>6 DEF IInv, Next


(* When the caller serialises _nx_secure_tls_process_client_key_exchange  *)
(* and a failing private-key operation writes nothing, the padding check  *)
(* of every session reads the block its own decryption wrote into the     *)
(* shared static buffer: the premaster secret is the client's secret for  *)
(* valid padding and random otherwise, whatever the number of sessions,   *)
(* messages and handshakes, with or without NX_SECURE_KEY_CLEAR and with  *)
(* or without an RSA operation routine.  Without the mutex the check can  *)
(* read another session's block (run cke_nolock).                         *)
THEOREM OwnPremasterUnderLock ==
  ASSUME OwnBlockBuild
  PROVE  Spec => []PremasterFromOwnCiphertext
<1>1. Init => IInv
  BY IInvInit
<1>2. IInv /\ [Next]_vars => IInv'
  BY IInvStep
<1>3. IInv => PremasterFromOwnCiphertext
  BY DEF IInv
<1> QED BY <1>1, <1>2, <1>3, PTL DEF Spec

(* The serialised build with NX_SECURE_KEY_CLEAR is one of them. *)
LEMMA SerialisedOwnBlock == Serialised => OwnBlockBuild
BY DEF Serialised, OwnBlockBuild

-----------------------------------------------------------------------------
(* The scratch buffer implements the single-slot buffer of ScratchSlot *)

(* The refinement mapping of ClientKeyExchange's Slot instance. *)
SlotBar == [owner |-> padded_pre_master.owner,
            data |-> <<padded_pre_master.ok, padded_pre_master.secret>>]

(* A step that leaves the buffer alone is a stutter of the slot. *)
LEMMA SlotStutter ==
  ASSUME UNCHANGED padded_pre_master
  PROVE  [Slot!Next]_SlotBar
BY DEF SlotBar

(* The zeroed buffer is the empty slot. *)
LEMMA ZeroIsEmpty ==
  ASSUME padded_pre_master = Zero
  PROVE  SlotBar = Slot!Empty
BY DEF SlotBar, Zero, Slot!Empty

(* Zeroing the buffer from the step after a session's own decryption      *)
(* (the failed cleanup of line 500, the final memset of line 551) is a     *)
(* clear of the slot by its holder, or a stutter if nothing was written.   *)
LEMMA ClearByHolder ==
  ASSUME KeyClear, IInv, NEW s \in Sessions,
         pc[s] \in {"cleanup", "padcheck", "finish"},
         padded_pre_master' = Zero
  PROVE  [Slot!Next]_SlotBar
<1>1. SlotBar' = Slot!Empty
  BY DEF SlotBar, Zero, Slot!Empty
<1>2. CASE decrypted[s]
  <2>1. padded_pre_master.owner = s
    BY <1>2 DEF IInv, ScratchInv, DecryptedBlock
  <2>2. Slot!Clear(s)
    BY <1>1, <2>1 DEF Slot!Clear, SlotBar
  <2> QED BY <2>2 DEF Slot!Next
<1>3. CASE ~decrypted[s]
  <2>1. padded_pre_master = Zero
    BY <1>3 DEF IInv, ScratchInv
  <2> QED BY <1>1, <2>1, ZeroIsEmpty
<1> QED BY <1>2, <1>3

(* A successful private-key operation (lines 389, 480) fills the empty slot. *)
LEMMA DecryptFills ==
  ASSUME IInv, NEW s \in Sessions, padded_pre_master = Zero,
         padded_pre_master' = DecryptedBlock(s)
  PROVE  Slot!Fill(s)
<1>1. msg[s].padOK \in BOOLEAN /\ msg[s].secret \in Secrets
  BY DEF IInv, TypeOK, MessageSpace
<1>2. SlotBar' = [owner |-> s, data |-> <<msg[s].padOK, msg[s].secret>>]
  BY DEF SlotBar, DecryptedBlock
<1>3. SlotBar = Slot!Empty
  BY ZeroIsEmpty
<1> QED BY <1>1, <1>2, <1>3 DEF Slot!Fill, SlotBar

(* Every step of a serialised build is a step or a stutter of the slot. *)
LEMMA SlotStep ==
  ASSUME Serialised, IInv, [Next]_vars
  PROVE  [Slot!Next]_SlotBar
<1> USE DEF Serialised
<1>1. CASE UNCHANGED vars
  BY <1>1, SlotStutter DEF vars
<1>2. ASSUME NEW s \in Sessions, ProcessClientKeyExchange(s)
      PROVE  [Slot!Next]_SlotBar
  BY <1>2, SlotStutter DEF ProcessClientKeyExchange
<1>3. ASSUME NEW s \in Sessions, Decrypt(s) PROVE [Slot!Next]_SlotBar
  <2>1. padded_pre_master = Zero
    <3>1. pc[s] = "decrypt" /\ \A t \in Sessions \ {s} : pc[t] = "idle"
      BY <1>3, OnlyOneInside DEF Decrypt, IInv
    <3> QED BY <3>1 DEF IInv, ScratchInv
  <2>2. padded_pre_master' = DecryptedBlock(s) \/ UNCHANGED padded_pre_master
    BY <1>3, Zenon DEF Decrypt
  <2>3. CASE padded_pre_master' = DecryptedBlock(s)
    BY <2>1, <2>3, DecryptFills DEF Slot!Next
  <2> QED BY <2>2, <2>3, SlotStutter
<1>4. ASSUME NEW s \in Sessions, Cleanup(s) PROVE [Slot!Next]_SlotBar
  <2>1. padded_pre_master' = Zero \/ UNCHANGED padded_pre_master
    BY <1>4 DEF Cleanup
  <2> QED BY <1>4, <2>1, ClearByHolder, SlotStutter DEF Cleanup
<1>5. ASSUME NEW s \in Sessions, PadCheck(s) PROVE [Slot!Next]_SlotBar
  BY <1>5, SlotStutter DEF PadCheck
<1>6. ASSUME NEW s \in Sessions, Finish(s) PROVE [Slot!Next]_SlotBar
  BY <1>6, ClearByHolder DEF Finish
<1> QED BY <1>1, <1>2, <1>3, <1>4, <1>5, <1>6 DEF Next

(* When the caller serialises the function, NX_SECURE_KEY_CLEAR is        *)
(* defined and a failing private-key operation writes nothing, the shared *)
(* static _nx_secure_client_padded_pre_master is the single-slot buffer of *)
(* spec section 3: a decryption writes only into the cleared buffer, and  *)
(* only the call that wrote it clears it.                                 *)
THEOREM ScratchSlotRefinement ==
  ASSUME Serialised
  PROVE  Spec => ScratchSlotDiscipline
<1>1. Spec => []IInv
  BY IInvInit, IInvStep, SerialisedOwnBlock, PTL DEF Spec
<1>2. Init => Slot!Init
  <2> SUFFICES ASSUME Init PROVE Slot!Init
    OBVIOUS
  <2>1. padded_pre_master = Zero
    BY DEF Init
  <2> QED BY <2>1, ZeroIsEmpty DEF Slot!Init, SlotBar
<1>3. IInv /\ [Next]_vars => [Slot!Next]_SlotBar
  BY SlotStep
<1> QED BY <1>1, <1>2, <1>3, PTL DEF Spec, ScratchSlotDiscipline, Slot!Spec, SlotBar

-----------------------------------------------------------------------------
(* The Bleichenbacher countermeasure, in every build *)

(* Every branch of the entry step changes the step, the status and the    *)
(* key material of the calling session only.                              *)
LEMMA EntryLocal ==
  ASSUME NEW s \in Sessions, NEW m \in Messages,
         UnknownCiphersuite(s, m) \/ Ecjpake(s, m) \/ Psk(s, m)
           \/ Ecdh(s, m) \/ CertBased(s, m)
  PROVE  /\ \E x : pc' = [pc EXCEPT ![s] = x]
         /\ \/ status' = status
            \/ \E st : status' = [status EXCEPT ![s] = st]
         /\ \/ pre_master_secret' = pre_master_secret
            \/ \E p : pre_master_secret' = [pre_master_secret EXCEPT ![s] = p]
<1>1. /\ \A st : Return(s, st) =>
            /\ \E x : pc' = [pc EXCEPT ![s] = x]
            /\ \E y : status' = [status EXCEPT ![s] = y]
      /\ \A x : Continue(s, x) =>
            /\ \E y : pc' = [pc EXCEPT ![s] = y]
            /\ status' = status
  BY DEF Return, Continue, Goto
<1>2. /\ \E x : pc' = [pc EXCEPT ![s] = x]
      /\ \/ status' = status
         \/ \E st : status' = [status EXCEPT ![s] = st]
  BY <1>1, Zenon DEF UnknownCiphersuite, Ecjpake, Psk, Ecdh, CertBased
<1>3. \/ pre_master_secret' = pre_master_secret
      \/ \E p : pre_master_secret' = [pre_master_secret EXCEPT ![s] = p]
  BY Zenon DEF UnknownCiphersuite, Ecjpake, Psk, Ecdh, CertBased, SetPms
<1> QED BY <1>2, <1>3

(* A step of session s that leaves its pad_checked flag and its key       *)
(* material alone, and moves only its own step and status, keeps          *)
(* CheckedInv when s had not run the padding check.                       *)
LEMMA UncheckedStep ==
  ASSUME TypeOK, CheckedInv, NEW s \in Sessions, ~pad_checked[s],
         UNCHANGED <<pre_master_secret, pad_checked>>,
         \E x : pc' = [pc EXCEPT ![s] = x],
         \/ status' = status
         \/ \E st : status' = [status EXCEPT ![s] = st]
  PROVE  CheckedInv'
BY DEF CheckedInv, TypeOK

(* Every step keeps CheckedInv, with or without the caller's mutex. *)
LEMMA CheckedStep ==
  ASSUME TypeOK, CheckedInv, [Next]_vars
  PROVE  CheckedInv'
<1>1. CASE UNCHANGED vars
  BY <1>1 DEF vars, CheckedInv
<1>2. ASSUME NEW s \in Sessions, ProcessClientKeyExchange(s) PROVE CheckedInv'
  <2>1. PICK m \in Messages :
          UnknownCiphersuite(s, m) \/ Ecjpake(s, m) \/ Psk(s, m)
            \/ Ecdh(s, m) \/ CertBased(s, m)
    BY <1>2 DEF ProcessClientKeyExchange
  <2>2. pad_checked' = [pad_checked EXCEPT ![s] = FALSE]
    BY <1>2 DEF ProcessClientKeyExchange
  <2> QED BY <2>1, <2>2, EntryLocal DEF CheckedInv, TypeOK
<1>3. ASSUME NEW s \in Sessions, Decrypt(s) PROVE CheckedInv'
  <2>1. ~pad_checked[s]
    BY <1>3 DEF Decrypt, CheckedInv
  <2>2. /\ \E x : pc' = [pc EXCEPT ![s] = x]
        /\ \/ status' = status
           \/ \E st : status' = [status EXCEPT ![s] = st]
    BY <1>3, Zenon DEF Decrypt, Return, Continue, Goto
  <2> QED BY <1>3, <2>1, <2>2, UncheckedStep DEF Decrypt
<1>4. ASSUME NEW s \in Sessions, Cleanup(s) PROVE CheckedInv'
  <2>1. ~pad_checked[s]
    BY <1>4 DEF Cleanup, CheckedInv
  <2>2. /\ \E x : pc' = [pc EXCEPT ![s] = x]
        /\ \/ status' = status
           \/ \E st : status' = [status EXCEPT ![s] = st]
    BY <1>4, Zenon DEF Cleanup, Return, Continue, Goto
  <2> QED BY <1>4, <2>1, <2>2, UncheckedStep DEF Cleanup
<1>5. ASSUME NEW s \in Sessions, PadCheck(s) PROVE CheckedInv'
  <2>1. /\ pc' = [pc EXCEPT ![s] = "finish"]
        /\ pad_checked' = [pad_checked EXCEPT ![s] = TRUE]
        /\ UNCHANGED status
    BY <1>5 DEF PadCheck, Continue, Goto
  <2>2. \E v : pre_master_secret' =
                 [pre_master_secret EXCEPT ![s] =
                    [kind |-> v[1], val |-> v[2], size |-> RsaPmsSize]]
    <3>1. CASE padded_pre_master.ok
      <4> WITNESS <<"secret", padded_pre_master.secret>>
      <4> QED BY <1>5, <3>1 DEF PadCheck, SetPms
    <3>2. CASE ~padded_pre_master.ok
      <4> WITNESS <<"random", NoSecret>>
      <4> QED BY <1>5, <3>2 DEF PadCheck, SetPms
    <3> QED BY <3>1, <3>2
  <2> QED BY <2>1, <2>2 DEF CheckedInv, TypeOK
<1>6. ASSUME NEW s \in Sessions, Finish(s) PROVE CheckedInv'
  <2>1. /\ pc' = [pc EXCEPT ![s] = "idle"]
        /\ status' = [status EXCEPT ![s] = FinishStatus]
    BY <1>6, Zenon DEF Finish, Return, FinishStatus
  <2>2. UNCHANGED <<pre_master_secret, pad_checked>>
    BY <1>6 DEF Finish
  <2> QED BY <2>1, <2>2 DEF CheckedInv, TypeOK
<1> QED BY <1>1, <1>2, <1>3, <1>4, <1>5, <1>6 DEF Next

(* Lines 510-541, in every build and whether or not the caller serialises *)
(* the function: two calls that ran the PKCS#1 check and returned report *)
(* the same status and the same premaster size, so bad padding is never  *)
(* distinguishable from good padding by the client.                      *)
THEOREM PaddingObliviousHolds == Spec => []PaddingOblivious
<1>1. Init => TypeOK /\ CheckedInv
  BY TypeInit DEF Init, CheckedInv
<1>2. TypeOK /\ CheckedInv /\ [Next]_vars => (TypeOK /\ CheckedInv)'
  BY TypeStep, CheckedStep
<1>3. CheckedInv => PaddingOblivious
  BY DEF CheckedInv, PaddingOblivious
<1> QED BY <1>1, <1>2, <1>3, PTL DEF Spec

-----------------------------------------------------------------------------
(* The scratch buffer at rest, with or without the caller's mutex *)

(* The buffer is zero, or holds the block of a session that decrypted it  *)
(* and has not yet returned: the last writer of the buffer always clears  *)
(* it on its way out (lines 500 and 551), whoever wrote in between.       *)
HolderInv ==
  \/ padded_pre_master = Zero
  \/ \E o \in Sessions :
        /\ pc[o] \in {"cleanup", "padcheck", "finish"}
        /\ decrypted[o]
        /\ padded_pre_master = DecryptedBlock(o)

(* A step of session s that leaves the buffer alone keeps a block held by *)
(* another session o where it is.                                          *)
LEMMA OtherHolderKept ==
  ASSUME TypeOK, NEW s \in Sessions, NEW o \in Sessions, o # s,
         pc[o] \in {"cleanup", "padcheck", "finish"}, decrypted[o],
         padded_pre_master = DecryptedBlock(o),
         NEW x, pc' = [pc EXCEPT ![s] = x],
         NEW b, decrypted' = [decrypted EXCEPT ![s] = b],
         NEW m, msg' = [msg EXCEPT ![s] = m],
         UNCHANGED padded_pre_master
  PROVE  HolderInv'
<1>1. /\ pc'[o] = pc[o]
      /\ decrypted'[o] = decrypted[o]
      /\ msg'[o] = msg[o]
  BY DEF TypeOK
<1>2. DecryptedBlock(o)' = DecryptedBlock(o)
  BY <1>1 DEF DecryptedBlock
<1> QED BY <1>1, <1>2 DEF HolderInv

(* A function is its own update at a point of its domain with the value *)
(* it already has there.                                                  *)
LEMMA SelfExcept ==
  ASSUME NEW S, NEW T, NEW f \in [S -> T], NEW s \in S
  PROVE  f = [f EXCEPT ![s] = f[s]]
OBVIOUS

(* With NX_SECURE_KEY_CLEAR and a failing private-key operation that      *)
(* writes nothing, every step keeps HolderInv, mutex or not.              *)
LEMMA HolderStep ==
  ASSUME KeyClear, ~FailedDecryptWrites, TypeOK, HolderInv, [Next]_vars
  PROVE  HolderInv'
<1>1. CASE UNCHANGED vars
  BY <1>1 DEF vars, HolderInv, DecryptedBlock
<1> SUFFICES ASSUME NEW s \in Sessions,
                    \/ ProcessClientKeyExchange(s) \/ Decrypt(s)
                    \/ Cleanup(s) \/ PadCheck(s) \/ Finish(s),
                    padded_pre_master' # Zero
             PROVE  HolderInv'
  <2>1. CASE padded_pre_master' = Zero
    BY <2>1 DEF HolderInv
  <2> QED BY <1>1, <2>1 DEF Next
<1>2. ASSUME UNCHANGED padded_pre_master
      PROVE  \E o \in Sessions :
               /\ pc[o] \in {"cleanup", "padcheck", "finish"}
               /\ decrypted[o]
               /\ padded_pre_master = DecryptedBlock(o)
  BY <1>2 DEF HolderInv
<1>3. CASE ProcessClientKeyExchange(s)
  <2>1. UNCHANGED padded_pre_master
    BY <1>3 DEF ProcessClientKeyExchange
  <2>2. PICK o \in Sessions :
          /\ pc[o] \in {"cleanup", "padcheck", "finish"}
          /\ decrypted[o]
          /\ padded_pre_master = DecryptedBlock(o)
    BY <1>2, <2>1
  <2>3. o # s
    BY <1>3, <2>2 DEF ProcessClientKeyExchange
  <2>4. PICK m \in Messages :
          /\ msg' = [msg EXCEPT ![s] = m]
          /\ UnknownCiphersuite(s, m) \/ Ecjpake(s, m) \/ Psk(s, m)
               \/ Ecdh(s, m) \/ CertBased(s, m)
    BY <1>3, Zenon DEF ProcessClientKeyExchange
  <2>5. PICK x : pc' = [pc EXCEPT ![s] = x]
    BY <2>4, EntryLocal
  <2>6. decrypted' = [decrypted EXCEPT ![s] = FALSE]
    BY <1>3 DEF ProcessClientKeyExchange
  <2> QED BY <2>1, <2>2, <2>3, <2>4, <2>5, <2>6, OtherHolderKept, Zenon
<1>4. CASE Decrypt(s)
  <2>1. /\ pc[s] = "decrypt"
        /\ UNCHANGED msg
    BY <1>4 DEF Decrypt
  <2>2. CASE /\ padded_pre_master' = DecryptedBlock(s)
             /\ decrypted' = [decrypted EXCEPT ![s] = TRUE]
             /\ \E y \in {"padcheck", "cleanup"} : Continue(s, y)
    <3>1. pc'[s] \in {"padcheck", "cleanup"} /\ decrypted'[s]
      BY <2>2 DEF Continue, Goto, TypeOK
    <3>2. DecryptedBlock(s)' = DecryptedBlock(s)
      BY <2>1 DEF DecryptedBlock
    <3> QED BY <2>2, <3>1, <3>2 DEF HolderInv
  <2>3. CASE UNCHANGED <<padded_pre_master, decrypted>>
    <3>1. PICK o \in Sessions :
            /\ pc[o] \in {"cleanup", "padcheck", "finish"}
            /\ decrypted[o]
            /\ padded_pre_master = DecryptedBlock(o)
      BY <1>2, <2>3
    <3>2. o # s
      BY <2>1, <3>1
    <3>3. PICK x : pc' = [pc EXCEPT ![s] = x]
      BY <1>4, Zenon DEF Decrypt, Return, Continue, Goto
    <3>4. /\ decrypted' = [decrypted EXCEPT ![s] = decrypted[s]]
          /\ msg' = [msg EXCEPT ![s] = msg[s]]
      BY <2>1, <2>3, SelfExcept DEF TypeOK
    <3> QED BY <2>3, <3>1, <3>2, <3>3, <3>4, OtherHolderKept, Zenon
  <2> QED
    <3>1. \/ /\ padded_pre_master' = DecryptedBlock(s)
             /\ decrypted' = [decrypted EXCEPT ![s] = TRUE]
             /\ \E y \in {"padcheck", "cleanup"} : Continue(s, y)
          \/ UNCHANGED <<padded_pre_master, decrypted>>
      BY <1>4, Zenon DEF Decrypt
    <3> QED BY <3>1, <2>2, <2>3
<1>5. CASE Cleanup(s)
  <2>1. CASE Continue(s, "padcheck") /\ UNCHANGED padded_pre_master
    <3>1. UNCHANGED <<msg, decrypted>>
      BY <1>5 DEF Cleanup
    <3>2. pc' = [pc EXCEPT ![s] = "padcheck"]
      BY <2>1 DEF Continue, Goto
    <3>3. PICK o \in Sessions :
            /\ pc[o] \in {"cleanup", "padcheck", "finish"}
            /\ decrypted[o]
            /\ padded_pre_master = DecryptedBlock(o)
      BY <1>2, <2>1
    <3>4. CASE o = s
      <4>1. DecryptedBlock(s)' = DecryptedBlock(s)
        BY <3>1 DEF DecryptedBlock
      <4> QED BY <2>1, <3>1, <3>2, <3>3, <3>4, <4>1 DEF HolderInv, TypeOK
    <3>5. CASE o # s
      <4>1. /\ decrypted' = [decrypted EXCEPT ![s] = decrypted[s]]
            /\ msg' = [msg EXCEPT ![s] = msg[s]]
        BY <3>1, SelfExcept DEF TypeOK
      <4> QED BY <2>1, <3>2, <3>3, <3>5, <4>1, OtherHolderKept, Zenon
    <3> QED BY <3>4, <3>5
  <2>2. CASE padded_pre_master' = Zero
    BY <2>2 DEF HolderInv
  <2> QED BY <1>5, <2>1, <2>2 DEF Cleanup
<1>6. CASE PadCheck(s)
  <2>1. /\ UNCHANGED <<msg, decrypted, padded_pre_master>>
        /\ pc' = [pc EXCEPT ![s] = "finish"]
    BY <1>6 DEF PadCheck, Continue, Goto
  <2>2. PICK o \in Sessions :
          /\ pc[o] \in {"cleanup", "padcheck", "finish"}
          /\ decrypted[o]
          /\ padded_pre_master = DecryptedBlock(o)
    BY <1>2, <2>1
  <2>3. CASE o = s
    <3>1. DecryptedBlock(s)' = DecryptedBlock(s)
      BY <2>1 DEF DecryptedBlock
    <3> QED BY <2>1, <2>2, <2>3, <3>1 DEF HolderInv, TypeOK
  <2>4. CASE o # s
    <3>1. /\ decrypted' = [decrypted EXCEPT ![s] = decrypted[s]]
          /\ msg' = [msg EXCEPT ![s] = msg[s]]
      BY <2>1, SelfExcept DEF TypeOK
    <3> QED BY <2>1, <2>2, <2>4, <3>1, OtherHolderKept, Zenon
  <2> QED BY <2>3, <2>4
<1>7. CASE Finish(s)
  BY <1>7 DEF Finish, HolderInv
<1> QED BY <1>3, <1>4, <1>5, <1>6, <1>7

(* With NX_SECURE_KEY_CLEAR defined and a failing private-key operation   *)
(* that writes nothing, the shared buffer holds no decrypted premaster    *)
(* block whenever no session is between its private-key operation and    *)
(* the memset of line 500 or 551, even when the caller does not serialise *)
(* the function: the last session to write it has not returned yet.      *)
THEOREM ScratchClearedHolds ==
  ASSUME KeyClear, ~FailedDecryptWrites
  PROVE  Spec => []ScratchClearedAtRest
<1>1. Init => TypeOK /\ HolderInv
  BY TypeInit DEF Init, HolderInv
<1>2. TypeOK /\ HolderInv /\ [Next]_vars => TypeOK' /\ HolderInv'
  BY TypeStep, HolderStep
<1>3. HolderInv => ScratchClearedAtRest
  BY DEF HolderInv, ScratchClearedAtRest
<1> QED BY <1>1, <1>2, <1>3, PTL DEF Spec

=============================================================================
